------------------------------ MODULE StackFiles ------------------------------
(***************************************************************************)
(* The compose file and the project .env of a stack, as the editors of the *)
(* dashboard read and save them through the duo module (modules/duo/       *)
(* docker.go, env.go).                                                     *)
(*                                                                         *)
(* Saves are mutating commands, which a session's worker runs one at a     *)
(* time (AssociateSession); reads run concurrently with them.  Each runs   *)
(* in the elevated helper.  That may be killed between any two steps, or   *)
(* outlive the session or the timeout of its command, which ends sudo and  *)
(* not the helper: it then goes on beside the saves that follow.  A file   *)
(* is rewritten in place: it is truncated first, then written.  A content  *)
(* stands for its sum.                                                     *)
(***************************************************************************)
EXTENDS Naturals

CONSTANTS
    Files,          \* compose files, and .env files
    EnvFiles,       \* those that are .env files
    Editors,
    Contents,
    Invalid,        \* contents docker compose refuses
    Missing,        \* there is no such file
    Torn,           \* a file cut short, or a mixture
    Unset,          \* no base sum was sent
    MaxSaves,       \* bound: saves
    MaxCuts         \* bound: helpers killed or left behind, edits outside the dashboard

FilesAssumption == MaxSaves \in Nat

VARIABLES
    file, bak,      \* each file and its .bak
    base,           \* what each editor has loaded, or last saved
    saves,          \* the saves begun, which are numbered
    save,           \* each of them
    worker,         \* the save the session's worker waits for, or 0
    cuts

vars == <<file, bak, base, saves, save, worker, cuts>>

Kinds == Contents \cup {Missing, Torn}
Stages == {"validate", "create", "backup", "copy", "truncate", "write", "check", "restore"}
Results == {"saved", "refused", "failed", "cut"}

\* A save that has not begun.
NoSave == [pc |-> "none"]

Init ==
    /\ file \in [Files -> Contents \cup {Missing}] /\ bak = [f \in Files |-> Missing]
    /\ base = [e \in Editors |-> [file |-> Unset, sum |-> Unset]]
    /\ saves = 0 /\ save = [s \in 1 .. MaxSaves |-> NoSave] /\ worker = 0 /\ cuts = 0

Begun == 1 .. saves
At(s, pc) == save[s].pc = pc
Live(s) == save[s].pc \in Stages

Goto(s, pc) == save' = [save EXCEPT ![s].pc = pc] /\ UNCHANGED worker

\* The result goes to the worker, if it still waits for one.
Finish(s, result) ==
    /\ save' = [save EXCEPT ![s].pc = result]
    /\ worker' = IF worker = s THEN 0 ELSE worker
Put(s, c) == file' = [file EXCEPT ![save[s].file] = c]

\* Two that have truncated the same file, and not yet filled it, write over one another.
Fill(s, pc, stages) ==
    LET other(t) == t # s /\ save[t].file = save[s].file /\ save[t].pc \in stages
    IN  /\ save' = [t \in DOMAIN save |->
                 IF t = s THEN [save[s] EXCEPT !.pc = pc, !.mixed = \E u \in Begun : other(u)]
                 ELSE IF t \in Begun /\ other(t) THEN [save[t] EXCEPT !.mixed = TRUE] ELSE save[t]]
        /\ UNCHANGED worker

Filled(s, c) == {c} \cup (IF save[s].mixed THEN {Torn} ELSE {})
InFile == {"write", "restore"}

\* History: who else writes a file ends what can be said of the saves of it before.
Disturbed(f) ==
    [s \in DOMAIN save |->
        IF s \in Begun /\ save[s].file = f THEN [save[s] EXCEPT !.sole = FALSE] ELSE save[s]]
-----------------------------------------------------------------------------
(* readCompose, readEnv: a missing .env is an empty one, a missing compose   *)
(* file an error.                                                            *)
Readable(f) == file[f] # Missing \/ f \in EnvFiles

Open(e, f) ==
    /\ Readable(f)
    /\ base' = [base EXCEPT ![e] = [file |-> f, sum |-> file[f]]]
    /\ UNCHANGED <<file, bak, saves, save, worker, cuts>>

(* The check of what the caller had opened against what is there. *)
Unchanged(f, sum) == sum = Unset \/ sum = file[f]

(* writeCompose, writeEnvAt, up to the check against the base sum: it is    *)
(* made against the copy that will be backed up.  The dashboard sends the   *)
(* sum it has, other callers may send none.                                 *)
Save(e, f, new, sum) ==
    /\ worker = 0 /\ saves < MaxSaves /\ saves' = saves + 1 /\ worker' = saves + 1
    /\ sum = Unset \/ base[e] = [file |-> f, sum |-> sum]
    /\ Unchanged(f, sum)
    /\ save' = [Disturbed(f) EXCEPT ![saves + 1] =
          [file |-> f, editor |-> e, new |-> new, old |-> file[f], mixed |-> FALSE,
           sole |-> \A s \in Begun : save[s].file = f => ~Live(s),
           pc |-> IF f \in EnvFiles THEN "validate"
                  ELSE IF file[f] = Missing THEN "truncate" ELSE "backup"]]
    /\ UNCHANGED <<file, bak, base, cuts>>

(* The .env is validated from a temporary file before anything is written;  *)
(* the compose file in place, after.  docker may be missing or time out.    *)
ValidateFirst(s) ==
    /\ At(s, "validate")
    /\ \/ Finish(s, "refused")
       \/ save[s].new \notin Invalid /\ Goto(s, IF save[s].old = Missing THEN "create" ELSE "backup")
    /\ UNCHANGED <<file, bak, base, saves, cuts>>

(* O_EXCL: a file created in between is left alone. *)
Create(s) ==
    /\ At(s, "create")
    /\ \/ /\ file[save[s].file] = Missing
          /\ Put(s, Torn) /\ Fill(s, "write", InFile)
       \/ /\ file[save[s].file] # Missing
          /\ Finish(s, "refused") /\ UNCHANGED file
    /\ UNCHANGED <<bak, base, saves, cuts>>

(* The copy read at the check becomes the .bak; without it nothing is       *)
(* overwritten.                                                             *)
Backup(s) ==
    /\ At(s, "backup")
    /\ \/ bak' = [bak EXCEPT ![save[s].file] = Torn] /\ Fill(s, "copy", {"copy"})
       \/ Finish(s, "refused") /\ UNCHANGED bak
    /\ UNCHANGED <<file, base, saves, cuts>>

Copy(s) ==
    /\ At(s, "copy")
    /\ \/ /\ \E c \in Filled(s, save[s].old) : bak' = [bak EXCEPT ![save[s].file] = c]
          /\ Goto(s, "truncate")
       \/ /\ \E c \in Filled(s, bak[save[s].file]) : bak' = [bak EXCEPT ![save[s].file] = c]
          /\ Finish(s, "refused")
    /\ UNCHANGED <<file, base, saves, cuts>>

(* A .env that is gone by now is not created. *)
Truncate(s) ==
    /\ At(s, "truncate")
    /\ \/ /\ save[s].file \in EnvFiles => file[save[s].file] # Missing
          /\ Put(s, Torn) /\ Fill(s, "write", InFile)
       \/ Finish(s, "failed") /\ UNCHANGED file
    /\ UNCHANGED <<bak, base, saves, cuts>>

(* The editor whose worker has waited goes on from what it saved. *)
Saved(s) ==
    /\ Finish(s, "saved")
    /\ base' = IF worker # s THEN base
               ELSE [base EXCEPT ![save[s].editor] = [file |-> save[s].file, sum |-> save[s].new]]

(* The write may fail half way, which restores nothing. *)
Write(s) ==
    /\ At(s, "write")
    /\ \/ /\ \E c \in Filled(s, save[s].new) : Put(s, c)
          /\ IF save[s].file \in EnvFiles THEN Saved(s) ELSE Goto(s, "check") /\ UNCHANGED base
       \/ /\ \E c \in Filled(s, file[save[s].file]) : Put(s, c)
          /\ Finish(s, "failed") /\ UNCHANGED base
    /\ UNCHANGED <<bak, saves, cuts>>

(* Mutant of CheckCompose: a refused compose file stays. *)
CheckComposeOnly(s) ==
    /\ At(s, "check")
    /\ \/ Finish(s, "refused") /\ UNCHANGED base
       \/ file[save[s].file] \in Contents \ Invalid /\ Saved(s)
    /\ UNCHANGED <<file, bak, saves, cuts>>

(* `docker compose config` on the written file, which it reads as it is now.*)
(* What is restored is this save's copy; without one the file stays.        *)
CheckCompose(s) ==
    /\ At(s, "check")
    /\ \/ save[s].old = Missing /\ Finish(s, "failed") /\ UNCHANGED <<file, base>>
       \/ save[s].old # Missing /\ Put(s, Torn) /\ Fill(s, "restore", InFile) /\ UNCHANGED base
       \/ file[save[s].file] \in Contents \ Invalid /\ Saved(s) /\ UNCHANGED file
    /\ UNCHANGED <<bak, saves, cuts>>

Restore(s) ==
    /\ At(s, "restore")
    /\ \/ \E c \in Filled(s, save[s].old) : Put(s, c) /\ Finish(s, "refused")
       \/ \E c \in Filled(s, file[save[s].file]) : Put(s, c) /\ Finish(s, "failed")
    /\ UNCHANGED <<bak, base, saves, cuts>>

(* The helper is killed, or the host goes down. *)
Kill(s) ==
    /\ Live(s) /\ cuts < MaxCuts /\ cuts' = cuts + 1
    /\ Finish(s, "cut") /\ UNCHANGED <<file, bak, base, saves>>

(* The session ends, or the command times out: the context ends sudo, the   *)
(* helper goes on, and another worker is free, or this one.                 *)
LeaveBehind ==
    /\ worker # 0 /\ cuts < MaxCuts /\ cuts' = cuts + 1
    /\ worker' = 0 /\ UNCHANGED <<file, bak, base, saves, save>>

(* Somebody edits, creates or removes the file on the host. *)
EditOutside(f, c) ==
    /\ cuts < MaxCuts /\ cuts' = cuts + 1
    /\ c # file[f] /\ file' = [file EXCEPT ![f] = c]
    /\ save' = Disturbed(f)
    /\ UNCHANGED <<bak, base, saves, worker>>

Step(s) ==
    \/ ValidateFirst(s) \/ Create(s) \/ Backup(s) \/ Copy(s) \/ Truncate(s) \/ Write(s)
    \/ CheckCompose(s) \/ Restore(s) \/ Kill(s)

Next ==
    \/ \E f \in Files :
        \/ \E e \in Editors :
            \/ Open(e, f)
            \/ \E c \in Contents, sum \in Kinds \cup {Unset} : Save(e, f, c, sum)
        \/ \E c \in Contents \cup {Missing} : EditOutside(f, c)
    \/ \E s \in Begun : Step(s)
    \/ LeaveBehind

Spec == Init /\ [][Next]_vars
-----------------------------------------------------------------------------
(* Properties. *)

Saves == [file : Files, editor : Editors, new : Contents, old : Kinds,
          mixed : BOOLEAN, sole : BOOLEAN, pc : Stages \cup Results]

TypeOK ==
    /\ file \in [Files -> Kinds] /\ bak \in [Files -> Kinds]
    /\ base \in [Editors -> [file : Files \cup {Unset}, sum : Kinds \cup {Unset}]]
    /\ saves \in 0 .. MaxSaves /\ save \in [1 .. MaxSaves -> Saves \cup {NoSave}]
    /\ worker \in 0 .. saves

(* Whatever becomes of a save, at every moment until the next one the        *)
(* version it replaces is in the file or in its .bak; a save that was        *)
(* refused leaves the file as it was, and one that succeeded leaves what was *)
(* sent, with the version before beside it.  Excepted are an edit made on    *)
(* the host meanwhile, and a save that a helper left behind overlaps: the    *)
(* helper of an ended session writes the same file, and neither sees the     *)
(* other (docker.go:258-286, env.go:157-228, elevated.go:111).               *)
SavesKeepEdits ==
    \A s \in Begun : save[s].sole =>
        LET f == save[s].file
            old == save[s].old
        IN
        /\ old # Missing => old \in {file[f], bak[f]}
        /\ At(s, "refused") => file[f] = old
        /\ At(s, "saved") => file[f] = save[s].new /\ (old # Missing => bak[f] = old)
=============================================================================
