------------------------------ MODULE Scheduler ------------------------------
(***************************************************************************)
(* The manager's cron scheduler (manager/scheduler/) with the API handlers *)
(* that edit a task (manager/api/tasks.go) and the pruning of removed      *)
(* hosts (manager/app.go).                                                 *)
(*                                                                         *)
(* One task is modelled: tasks share nothing but a lock, a file and the    *)
(* cap on dispatches.  A fire is one `go s.fire(copy)`.  A step is a       *)
(* critical section of s.mu, or what a goroutine does between two of them. *)
(* s.save replaces the file in one rename inside the critical section; a   *)
(* write that fails, whose error save drops, is left out.  The schedule is *)
(* valid and its slots lie Period apart.                                   *)
(*                                                                         *)
(* A Task is copied by value in many places (Get, tick, RunNow), which     *)
(* copies the slice HostIDs and not the array behind it: two copies share  *)
(* their list until one of them is given another array.  A slice therefore *)
(* carries the identity of its array beside what the array holds.          *)
(***************************************************************************)
EXTENDS Naturals, Sequences, FiniteSets

CONSTANTS
    Targets,        \* host ids
    Gated,          \* hosts whose manifest calls the action destructive
    Bodies,         \* what a client may send: hosts, misfire, enabled, optIn
    Arrays,         \* backing arrays
    MaxFires,       \* bound: runs under way
    Period,         \* distance of two slots of the schedule
    Grace,          \* missedGrace
    Window,         \* catchupWindow
    Retry,          \* retryInterval
    Cap,            \* maxConcurrent
    MaxTime,        \* bound: the time
    MaxEdits,       \* bound: PUTs and manual runs
    MaxRemovals,    \* bound: hosts removed
    MaxCrashes      \* bound: restarts of the manager

Skip == "skip"
Catchup == "catchup"
Rearm == "retry"
Policies == {Skip, Catchup, Rearm}

SchedulerAssumption ==
    /\ Gated \subseteq Targets
    /\ Bodies \subseteq [hosts : Seq(Targets) \ {<<>>}, misfire : Policies,
                         enabled : BOOLEAN, optIn : BOOLEAN]
    /\ {Period, Retry, Cap, MaxTime} \subseteq Nat \ {0}
    /\ {Grace, Window, MaxFires, MaxEdits, MaxRemovals, MaxCrashes} \subseteq Nat
    /\ Grace <= Window
    \* The runs under way, the task and a PUT leave an array to spare: the heap has no end.
    /\ IsFiniteSet(Arrays) /\ Cardinality(Arrays) > MaxFires + 2

VARIABLES
    now,        \* the clock
    listed,     \* the hosts of the registry
    seen,       \* the hosts that have connected since the manager started
    task,       \* the stored task, or NoTask
    file,       \* tasks.json: the task with its list spelled out, or NoTask
    fires,      \* the goroutines that run the task
    edit,       \* the copy a PUT has decoded its body over, or NoEdit
    pruning,    \* removed hosts whose host_removed callback has still to run
    rung,       \* history: the last slot the task was run for
    edits,      \* PUTs and manual runs so far
    crashes     \* restarts so far

taskVars == <<task, file>>
hostVars == <<listed, seen, pruning>>
boundVars == <<edits, crashes>>
vars == <<now, hostVars, taskVars, fires, edit, rung, boundVars>>

Fires == 1..MaxFires
Idle == [pc |-> "idle"]
NoTask == [next |-> 0]  \* no task is stored
NoEdit == NoTask        \* no PUT is under way
Stored == task # NoTask

(* A slice: the array, what the array holds, and how much of it is visible. *)
Slice(a, room, len) == [array |-> a, room |-> room, len |-> len]
HostIDs(s) == SubSeq(s.room, 1, s.len)

(* An array to which no slice refers. *)
Fresh ==
    CHOOSE a \in Arrays :
        /\ Stored => task.hosts.array # a
        /\ edit # NoEdit => edit.hosts.array # a
        /\ \A f \in Fires : fires[f] # Idle => fires[f].hosts.array # a

(* s.next: the first slot after t. *)
NextSlot(t) == ((t \div Period) + 1) * Period

(* s.save: the file is what the critical section leaves behind. *)
OnDisk(t) == IF t = NoTask THEN NoTask ELSE [t EXCEPT !.hosts = HostIDs(@)]
Save == file' = OnDisk(task')

(* The hosts of a list that are kept, in their order: the m-th of them is   *)
(* the one up to which m are kept.                                          *)
KeptUpTo(i, hosts, keep) == Cardinality({j \in 1..i : hosts[j] \in keep})
Filter(hosts, keep) ==
    [m \in 1..KeptUpTo(Len(hosts), hosts, keep) |->
        hosts[CHOOSE i \in 1..Len(hosts) : hosts[i] \in keep /\ KeptUpTo(i, hosts, keep) = m]]

(* A list of its own for a task whose list was old: kept, with the room of old. *)
Pruned(a, old, kept) == Slice(a, kept \o SubSeq(old, Len(kept) + 1, Len(old)), Len(kept))

Init ==
    /\ now = 1
    /\ listed = Targets /\ seen = Targets /\ pruning = {}
    /\ task = NoTask /\ file = NoTask
    /\ fires = [f \in Fires |-> Idle]
    /\ edit = NoEdit
    /\ rung = 0 /\ edits = 0 /\ crashes = 0

-----------------------------------------------------------------------------
(* The outside: the clock, the hosts' streams, an operator who removes one. *)

Elapse ==
    /\ now < MaxTime /\ now' = now + 1
    /\ UNCHANGED <<hostVars, taskVars, fires, edit, rung, boundVars>>

Connect(h) ==
    /\ h \in listed \ seen
    /\ seen' = seen \cup {h}
    /\ UNCHANGED <<now, listed, pruning, taskVars, fires, edit, rung, boundVars>>

(* store.Remove has saved the registry without the host, and is about to    *)
(* notify.                                                                  *)
RemoveHost(h) ==
    /\ h \in listed /\ Cardinality(Targets \ listed) < MaxRemovals
    /\ listed' = listed \ {h} /\ seen' = seen \ {h}
    /\ pruning' = pruning \cup {h}
    /\ UNCHANGED <<now, taskVars, fires, edit, rung, boundVars>>

(* PruneHosts with a filter: a task that loses a host gets an array of its  *)
(* own, with room for as many, and one that loses all its hosts is          *)
(* disabled.  It saves if anything changed.                                 *)
PruneTo(keep) ==
    LET old == HostIDs(task.hosts)
        kept == Filter(old, keep)
    IN  IF ~Stored \/ Len(kept) = Len(old)
        THEN UNCHANGED taskVars
        ELSE /\ task' = [task EXCEPT !.hosts = Pruned(Fresh, old, kept), !.enabled = @ /\ kept # <<>>]
             /\ Save

(* The host_removed callback. *)
PruneHosts(h) ==
    /\ h \in pruning
    /\ pruning' = pruning \ {h}
    /\ PruneTo(Targets \ {h})
    /\ UNCHANGED <<now, listed, seen, fires, edit, rung, boundVars>>

-----------------------------------------------------------------------------
(* The API: create, edit, delete, run now. *)

(* validateTask: a destructive action has to opt in.  The manifest that is  *)
(* asked is not stored: a host that has not connected since the manager     *)
(* started has none, nor has one that is not in the registry.               *)
Valid(body) ==
    body.optIn \/ \A i \in 1..Len(body.hosts) : body.hosts[i] \notin Gated \cap seen

(* createTask and Create.  The id is new: one task is created here, once. *)
Create(body) ==
    /\ ~Stored /\ rung = 0 /\ edits = 0
    /\ Valid(body)
    /\ task' = [hosts |-> Slice(Fresh, body.hosts, Len(body.hosts)), misfire |-> body.misfire,
                optIn |-> body.optIn, enabled |-> body.enabled, next |-> NextSlot(now),
                status |-> "", err |-> FALSE]
    /\ Save
    /\ UNCHANGED <<now, hostVars, fires, edit, rung, boundVars>>

(* updateTask up to its validation: the body is decoded over a copy of the  *)
(* task.  json.Decode reuses the array of the slice it finds, which is the  *)
(* array of the stored task and of the runs under way, and goes on in       *)
(* another one when the list is longer.  A body that is then refused has    *)
(* been written there all the same.                                         *)
DecodeEdit(body) ==
    LET old == task.hosts
        n == Len(body.hosts)
        room == [i \in 1..Len(old.room) |-> IF i <= n THEN body.hosts[i] ELSE old.room[i]]
        Over(s) == IF s.array = old.array THEN [s EXCEPT !.room = room] ELSE s
        new == IF n <= Len(room) THEN Slice(old.array, room, n) ELSE Slice(Fresh, body.hosts, n)
    IN  /\ Stored /\ edit = NoEdit /\ edits < MaxEdits
        /\ edits' = edits + 1
        /\ task' = [task EXCEPT !.hosts = Over(@)]
        /\ fires' = [f \in Fires |-> IF fires[f] = Idle THEN Idle
                                     ELSE [fires[f] EXCEPT !.hosts = Over(@)]]
        /\ edit' = IF ~Valid(body) THEN NoEdit
                   ELSE [task EXCEPT !.hosts = new, !.misfire = body.misfire,
                                     !.enabled = body.enabled, !.optIn = body.optIn]
        /\ UNCHANGED <<now, hostVars, file, rung, crashes>>

(* Update: the mutable fields are replaced and the next slot computed from  *)
(* now, so a slot that is due and not yet taken is given up.                *)
Update ==
    /\ edit # NoEdit
    /\ edit' = NoEdit
    /\ task' = IF Stored
               THEN [edit EXCEPT !.next = NextSlot(now), !.status = task.status,
                                 !.err = task.err]
               ELSE NoTask
    /\ Save
    /\ UNCHANGED <<now, hostVars, fires, rung, boundVars>>

Delete ==
    /\ Stored
    /\ task' = NoTask /\ Save
    /\ edits' = MaxEdits
    /\ UNCHANGED <<now, hostVars, fires, edit, rung, crashes>>

(* A run starts, in the first free place: `go s.fire` with a copy of the task. *)
Start(f) ==
    /\ fires[f] = Idle /\ \A g \in 1..(f - 1) : fires[g] # Idle
    /\ fires' = [fires EXCEPT ![f] =
                    [pc |-> "next", hosts |-> task.hosts, at |-> 1, ok |-> TRUE,
                     failed |-> FALSE, sent |-> FALSE]]

RunNow(f) ==
    /\ Stored /\ task.hosts.len > 0 /\ edits < MaxEdits
    /\ edits' = edits + 1
    /\ Start(f)
    /\ task' = [task EXCEPT !.status = "", !.err = FALSE]
    /\ Save
    /\ UNCHANGED <<now, hostVars, edit, rung, crashes>>
-----------------------------------------------------------------------------
(* The tick. *)

Due == Stored /\ task.enabled /\ task.next <= now
Late == now - task.next

Missed == \/ task.misfire = Skip /\ Late > Grace
          \/ task.misfire = Catchup /\ Late > Window

(* allConnected: a host that is no longer enrolled does not count.  Which   *)
(* hosts have a stream at this instant is left open, but for those that     *)
(* have not connected yet.                                                  *)
AllConnected(up) ==
    \A i \in 1..task.hosts.len : HostIDs(task.hosts)[i] \in listed => HostIDs(task.hosts)[i] \in up

TickRearm ==
    /\ Due /\ task.misfire = Rearm /\ \E up \in SUBSET seen : ~AllConnected(up)
    /\ task' = [task EXCEPT !.next = now + Retry]
    /\ Save
    /\ UNCHANGED <<now, hostVars, fires, edit, rung, boundVars>>

TickSkip ==
    /\ Due /\ Missed
    /\ task' = [task EXCEPT !.next = NextSlot(now), !.status = "skipped"]
    /\ Save
    /\ UNCHANGED <<now, hostVars, fires, edit, rung, boundVars>>

(* Mutant: the tick that starts a run does not save. *)
TickRunUnsaved(f) ==
    /\ Due /\ ~Missed /\ (task.misfire = Rearm => AllConnected(seen))
    /\ rung' = task.next
    /\ task' = [task EXCEPT !.next = NextSlot(now), !.status = "", !.err = FALSE]
    /\ Start(f)
    /\ UNCHANGED <<now, hostVars, file, edit, boundVars>>

(* The next slot is computed and saved before the run starts. *)
TickRun(f) ==
    /\ Due /\ ~Missed /\ (task.misfire = Rearm => AllConnected(seen))
    /\ rung' = task.next
    /\ task' = [task EXCEPT !.next = NextSlot(now), !.status = "", !.err = FALSE]
    /\ Save
    /\ Start(f)
    /\ UNCHANGED <<now, hostVars, edit, boundVars>>
-----------------------------------------------------------------------------
(* A run. *)

Target(f) == fires[f].hosts.room[fires[f].at]

(* The next host of the copy's list; one that is no longer enrolled is      *)
(* passed over.                                                             *)
NextHost(f) ==
    /\ fires[f].pc = "next" /\ fires[f].at <= fires[f].hosts.len
    /\ fires' = IF Target(f) \in listed
                THEN [fires EXCEPT ![f].pc = "wait", ![f].sent = TRUE]
                ELSE [fires EXCEPT ![f].at = @ + 1]
    /\ UNCHANGED <<now, hostVars, taskVars, edit, rung, boundVars>>

(* dispatchOne up to the answer of runner.Run, holding a place of the cap.  *)
Dispatch(f) ==
    /\ fires[f].pc = "wait"
    /\ Cardinality({g \in Fires : fires[g].pc = "called"}) < Cap
    /\ \E ok \in BOOLEAN :
        /\ ok => Target(f) \in seen
        /\ fires' = [fires EXCEPT ![f].pc = "called", ![f].ok = ok, ![f].failed = @ \/ ~ok]
    /\ UNCHANGED <<now, hostVars, taskVars, edit, rung, boundVars>>
(* The rest of dispatchOne: the outcome is recorded on the task as it now   *)
(* stands.  A success clears the error of an earlier host and leaves the    *)
(* status.                                                                  *)
Record(f) ==
    /\ fires[f].pc = "called"
    /\ fires' = [fires EXCEPT ![f].pc = "next", ![f].at = @ + 1]
    /\ IF Stored
       THEN /\ task' = [task EXCEPT !.err = ~fires[f].ok,
                                    !.status = IF fires[f].ok THEN @ ELSE "failed"]
            /\ Save
       ELSE UNCHANGED taskVars
    /\ UNCHANGED <<now, hostVars, edit, rung, boundVars>>

(* Mutant: the run's own outcome overwrites a failure that is recorded. *)
FinishFireOver(f) ==
    /\ fires[f].pc = "next" /\ fires[f].at > fires[f].hosts.len
    /\ fires' = [fires EXCEPT ![f] = Idle]
    /\ task' = IF Stored
               THEN [task EXCEPT !.status = IF fires[f].failed THEN "failed" ELSE "dispatched"]
               ELSE task
    /\ Save
    /\ UNCHANGED <<now, hostVars, edit, rung, boundVars>>

(* The end of fire. *)
FinishFire(f) ==
    /\ fires[f].pc = "next" /\ fires[f].at > fires[f].hosts.len
    /\ fires' = [fires EXCEPT ![f] = Idle]
    /\ IF Stored /\ task.status # "failed"
       THEN /\ task' = [task EXCEPT !.status = IF fires[f].failed THEN "failed"
                                               ELSE IF fires[f].sent THEN "dispatched"
                                               ELSE "skipped"]
            /\ Save
       ELSE UNCHANGED taskVars
    /\ UNCHANGED <<now, hostVars, edit, rung, boundVars>>
-----------------------------------------------------------------------------
(* The manager stops at any point and starts again: Load, then a PruneHosts *)
(* against the registry.  Every host has still to connect.                  *)
Restart ==
    LET kept == Filter(file.hosts, listed)
    IN  /\ crashes < MaxCrashes /\ crashes' = crashes + 1
        /\ fires' = [f \in Fires |-> Idle] /\ edit' = NoEdit /\ pruning' = {}
        /\ seen' = {}
        /\ task' = IF file = NoTask THEN NoTask
                   ELSE [file EXCEPT !.hosts = Pruned(CHOOSE a \in Arrays : TRUE, file.hosts, kept),
                                     !.enabled = @ /\ (kept = file.hosts \/ kept # <<>>)]
        /\ Save
        /\ UNCHANGED <<now, listed, rung, edits>>

Next ==
    \/ Elapse
    \/ \E h \in Targets : Connect(h) \/ RemoveHost(h) \/ PruneHosts(h)
    \/ \E body \in Bodies : Create(body) \/ DecodeEdit(body)
    \/ Update \/ Delete
    \/ TickRearm \/ TickSkip
    \/ \E f \in Fires :
        RunNow(f) \/ TickRun(f) \/ NextHost(f) \/ Dispatch(f) \/ Record(f) \/ FinishFire(f)
    \/ Restart

Spec == Init /\ [][Next]_vars
-----------------------------------------------------------------------------
(* Properties. *)

Status == {"", "dispatched", "failed", "skipped"}

Slices == [array : Arrays, room : Seq(Targets), len : Nat]
TaskType(hosts) ==
    [hosts : hosts, misfire : Policies, optIn : BOOLEAN, enabled : BOOLEAN,
     next : 1..(MaxTime + Period + Retry), status : Status, err : BOOLEAN]
TypeOK ==
    /\ now \in 1..MaxTime
    /\ seen \subseteq listed /\ listed \subseteq Targets
    /\ pruning \subseteq Targets \ listed
    /\ task \in TaskType(Slices) \cup {NoTask}
    /\ edit \in TaskType(Slices) \cup {NoEdit}
    /\ file \in TaskType(Seq(Targets)) \cup {NoTask}
    /\ fires \in [Fires -> {Idle} \cup
            [pc : {"next", "wait", "called"}, hosts : Slices, at : Nat \ {0},
             ok : BOOLEAN, failed : BOOLEAN, sent : BOOLEAN]]
    /\ \A f \in Fires : fires[f].pc \in {"wait", "called"} => fires[f].at <= fires[f].hosts.len
    /\ Stored => task.hosts.len <= Len(task.hosts.room)
    /\ rung \in 0..MaxTime /\ edits \in 0..MaxEdits /\ crashes \in 0..MaxCrashes

(* A task is an alarm (Alarm) whatever restarts, edits and removals of      *)
(* hosts come between: it runs at most once for the slot it is armed for,   *)
(* never before it, never later than its misfire policy allows, and a slot  *)
(* that a restart finds half taken is not run again (scheduler.go:173-179). *)
Limit(misfire) ==
    IF misfire = Skip THEN Grace ELSE IF misfire = Catchup THEN Window ELSE MaxTime
TheAlarm == INSTANCE Alarm WITH
    armed <- task.next,
    policy <- IF Stored THEN task.misfire ELSE Skip
ImplementsAlarm == TheAlarm!Spec

(* The failure of one host is what the task shows when the run is over,     *)
(* whatever its other hosts answer and whatever runs and edits overlap it,  *)
(* and only the start or the skip of another slot, or a manual run, takes   *)
(* it off (scheduler.go:211, crud.go:122).                                  *)
Begins == \E f \in Fires : fires[f] = Idle /\ fires'[f] # Idle
FailureStands ==
    [][Stored /\ task' # NoTask /\ crashes' = crashes =>
        /\ (task.status = "failed" =>
                \/ task'.status = "failed" \/ Begins
                \/ task'.status = "skipped" /\ task'.next # task.next)
        /\ \A f \in Fires : fires[f] # Idle /\ fires'[f] = Idle /\ fires[f].failed
                => task'.status = "failed"]_vars
=============================================================================
