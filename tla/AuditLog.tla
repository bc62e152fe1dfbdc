------------------------------- MODULE AuditLog -------------------------------
(***************************************************************************)
(* The audit log (manager/auditor/auditor.go): entries chained by their    *)
(* hashes, the last few of them in memory, all of them appended to a file  *)
(* that is compacted when the manager starts.                              *)
(*                                                                         *)
(* An entry is its number, which stands for its hash, with the number of   *)
(* the entry before it (0 for none).  A line that does not parse is passed *)
(* over by load wherever it stands, so such lines are only counted.  A     *)
(* line that an append left without its end is continued by the next one,  *)
(* and is then two entries run together, which do not parse.               *)
(***************************************************************************)
EXTENDS Naturals, Sequences

CONSTANTS
    Keep,           \* a.max: entries kept
    MaxEntries,     \* bound: entries recorded
    MaxFailures     \* bound: appends that fail, and stops of the manager

KeepAssumption == Keep \in Nat \ {0} /\ {MaxEntries, MaxFailures} \subseteq Nat

VARIABLES
    entries, prevHash,      \* in memory
    file,                   \* the entries on the lines that parse
    torn,                   \* how many lines do not
    end,                    \* the last line: ended; cut short; or bare, an entry but for its end
    recorded, failures,
    lost                    \* history: entries that are on no line of their own

fileVars == <<file, torn, end>>
vars == <<entries, prevHash, fileVars, recorded, failures, lost>>

LastOf(s, n) == IF Len(s) <= n THEN s ELSE SubSeq(s, Len(s) - n + 1, Len(s))
Failing == failures < MaxFailures /\ failures' = failures + 1

Init ==
    /\ entries = <<>> /\ prevHash = 0
    /\ file = <<>> /\ torn = 0 /\ end = "ended"
    /\ recorded = 0 /\ failures = 0 /\ lost = {}
-----------------------------------------------------------------------------
NextEntry == [id |-> recorded + 1, prev |-> prevHash]

Remember ==
    /\ recorded < MaxEntries /\ recorded' = recorded + 1
    /\ prevHash' = recorded + 1
    /\ entries' = LastOf(Append(entries, NextEntry), Keep)

(* The entry on a line of its own. *)
Written ==
    /\ end = "ended" /\ file' = Append(file, NextEntry)
    /\ UNCHANGED <<torn, lost>>

(* The entry on the end of a line that has none: with an entry there, both   *)
(* are lost.                                                                *)
Swallowed ==
    \/ /\ end = "cut" /\ lost' = lost \cup {recorded + 1}
       /\ UNCHANGED <<file, torn>>
    \/ /\ end = "bare" /\ lost' = lost \cup {recorded + 1, file[Len(file)].id}
       /\ file' = SubSeq(file, 1, Len(file) - 1) /\ torn' = torn + 1

(* Record, the append made. *)
Record ==
    /\ Remember /\ (Written \/ Swallowed) /\ end' = "ended"
    /\ UNCHANGED failures

(* Record, the append failed, at once, half way, or for its last byte:      *)
(* nobody is told.                                                          *)
RecordLost ==
    /\ Remember /\ Failing
    /\ \/ lost' = lost \cup {recorded + 1} /\ UNCHANGED fileVars
       \/ Swallowed /\ end' = "cut"
       \/ /\ end = "ended" /\ end' = "cut" /\ torn' = torn + 1
          /\ lost' = lost \cup {recorded + 1} /\ UNCHANGED file
       \/ Written /\ end' = "bare"

(* Mutant of Restart: the chain starts anew. *)
RestartAnew ==
    LET kept == LastOf(file, Keep) IN
    /\ Failing /\ entries' = kept /\ prevHash' = 0
    /\ \/ Len(file) + torn > 2 * Keep /\ file' = kept /\ torn' = 0 /\ end' = "ended"
       \/ UNCHANGED fileVars
    /\ UNCHANGED <<recorded, lost>>

(* The manager stops, possibly while it appends, and starts: Open, load.    *)
(* A file with many lines is compacted, if it can be.                       *)
Restart ==
    LET kept == LastOf(file, Keep) IN
    /\ Failing
    /\ entries' = kept
    /\ prevHash' = IF kept = <<>> THEN 0 ELSE kept[Len(kept)].id
    /\ \/ Len(file) + torn > 2 * Keep /\ file' = kept /\ torn' = 0 /\ end' = "ended"
       \/ UNCHANGED fileVars
    /\ UNCHANGED <<recorded, lost>>

Next == Record \/ RecordLost \/ Restart

Spec == Init /\ [][Next]_vars
-----------------------------------------------------------------------------
(* Properties. *)

Entry == [id : 1..MaxEntries, prev : 0..MaxEntries]

TypeOK ==
    /\ entries \in Seq(Entry) /\ Len(entries) <= Keep
    /\ prevHash \in 0..recorded /\ recorded \in 0..MaxEntries
    /\ file \in Seq(Entry) /\ torn \in Nat /\ end \in {"ended", "cut", "bare"}
    /\ end = "cut" => torn # 0
    /\ end = "bare" => file # <<>>
    /\ lost \subseteq 1..recorded

(* However the manager is stopped and started, and compacts the file, the    *)
(* entries on file are the recorded ones, in order, without a gap in the     *)
(* last Keep of them but where an append failed; each names the one before   *)
(* it, or one that failed to be written (auditor.go:62-84, 109-174).         *)
ChainHolds ==
    /\ \A i \in 1..(Len(file) - 1) :
        /\ file[i].id < file[i + 1].id
        /\ file[i + 1].prev \in {file[i].id} \cup lost
    /\ \A e \in 1..recorded \ lost :
        (Len(file) < Keep \/ e >= file[Len(file) - Keep + 1].id) =>
            \E i \in DOMAIN file : file[i].id = e
    /\ entries # <<>> => entries[Len(entries)].id = prevHash
=============================================================================
