------------------------------ MODULE CertFiles -------------------------------
(***************************************************************************)
(* The certificate files of the manager: loaded or generated when it       *)
(* starts (manager/ca/ca.go), exported and imported by the dashboard's     *)
(* backup (manager/api/backup.go).                                         *)
(*                                                                         *)
(* A key pair is its number, in the order of generation.  A certificate    *)
(* has the number of its key and that of the key that signed it.  A file   *)
(* is written in place: it is truncated, then filled.  The manager may     *)
(* stop between any two steps.                                             *)
(***************************************************************************)
EXTENDS Naturals

CONSTANTS
    None,           \* no file, or one that cannot be read (not the CA's certificate)
    Torn,           \* a file cut short
    MaxKeys,        \* bound: key pairs generated
    MaxFailures     \* bound: stops of the manager, keys lost, new installations

CertsAssumption ==
    /\ MaxKeys \in Nat /\ None # Torn /\ None \notin {"crt", "key"}
    /\ {None, Torn} \cap (Nat \cup [of : Nat, by : Nat]) = {}

VARIABLES
    file,           \* certs/: the certificate and the key of each pair
    loaded,         \* the pairs in memory: key of the certificate, its signer, key
    stage,          \* the pair the start has come to, or running, or stopped
    writing,        \* the file of that pair being written, or None
    fresh,          \* the number of the pair being written
    failures,
    backup,         \* the files of an export that was made, or None
    import,         \* the files of it an import has still to write
    pinned,         \* history: the CA the manager first ran with
    doubt           \* history: a key was lost, an import begun (cut) and made, of an
                    \* export that was whole (imported), and a start since (foreign)

vars == <<file, loaded, stage, writing, fresh, failures, backup, import, pinned, doubt>>

Order == [ca |-> "server", server |-> "client", client |-> "running"]
Pairs == DOMAIN Order
Exported == {"ca", "server"}
NoPair == [crt |-> None, by |-> None, key |-> None]
NoFiles == [crt |-> None, key |-> None]
Failing == failures < MaxFailures /\ failures' = failures + 1
Readable(p) == file[p].crt # None /\ file[p].key # None
Broken(p) ==
    \/ file[p].crt = Torn \/ file[p].key = Torn
    \/ p # "ca" /\ file[p].crt # Torn /\ file[p].crt.of # file[p].key
Put(p, part, content) == file' = [file EXCEPT ![p][part] = content]

Init ==
    /\ file = [p \in Pairs |-> NoFiles]
    /\ loaded = [p \in Pairs |-> NoPair] /\ stage = "stopped" /\ writing = None
    /\ fresh = 0 /\ failures = 0 /\ backup = None /\ import = {} /\ pinned = None
    /\ doubt = {}
-----------------------------------------------------------------------------
(* LoadOrCreate: the CA, the server's pair, the pair for dialing. *)

Start ==
    /\ stage = "stopped" /\ stage' = "ca"
    /\ doubt' = IF "imported" \in doubt THEN (doubt \ {"imported", "cut"}) \cup {"foreign"} ELSE doubt
    /\ UNCHANGED <<file, loaded, writing, fresh, failures, backup, import, pinned>>

Advance(p) ==
    /\ stage' = Order[p]
    /\ pinned' = IF Order[p] = "running" /\ pinned = None THEN loaded["ca"].crt ELSE pinned

(* Both files are there: they are taken as they are.  The key of a leaf has *)
(* to fit its certificate; that of the CA is not compared, and nobody asks  *)
(* who signed a leaf.                                                       *)
Load(p) ==
    /\ stage = p /\ writing = None /\ Readable(p) /\ ~Broken(p)
    /\ loaded' = [loaded EXCEPT ![p] = [crt |-> file[p].crt.of, by |-> file[p].crt.by,
                                        key |-> file[p].key]]
    /\ Advance(p)
    /\ UNCHANGED <<file, writing, fresh, failures, backup, import, doubt>>

Refuse(p) ==
    /\ stage = p /\ writing = None /\ Readable(p) /\ Broken(p)
    /\ stage' = "stopped" /\ loaded' = [q \in Pairs |-> NoPair]
    /\ UNCHANGED <<file, writing, fresh, failures, backup, import, pinned, doubt>>

(* Mutant of Generate: a certificate whose key is missing is kept. *)
GenerateKept(p) ==
    LET k == fresh + 1
        kept == file[p].crt \notin {None, Torn}
        by == IF p = "ca" THEN k ELSE loaded["ca"].key
    IN  /\ stage = p /\ writing = None /\ ~Readable(p) /\ fresh < MaxKeys /\ fresh' = k
        /\ loaded' = [loaded EXCEPT ![p] = [crt |-> IF kept THEN file[p].crt.of ELSE k,
                                            by |-> IF kept THEN file[p].crt.by ELSE by, key |-> k]]
        /\ IF kept THEN writing' = "key" /\ UNCHANGED file
           ELSE Put(p, "crt", Torn) /\ writing' = "crt"
        /\ UNCHANGED <<stage, failures, backup, import, pinned, doubt>>

(* One of the two is missing: a new pair replaces both. *)
Generate(p) ==
    LET k == fresh + 1
        by == IF p = "ca" THEN k ELSE loaded["ca"].key
    IN  /\ stage = p /\ writing = None /\ ~Readable(p) /\ fresh < MaxKeys /\ fresh' = k
        /\ loaded' = [loaded EXCEPT ![p] = [crt |-> k, by |-> by, key |-> k]]
        /\ Put(p, "crt", Torn) /\ writing' = "crt"
        /\ UNCHANGED <<stage, failures, backup, import, pinned, doubt>>

WriteCrt(p) ==
    /\ stage = p /\ writing = "crt" /\ writing' = "key"
    /\ Put(p, "crt", [of |-> fresh, by |-> loaded[p].by])
    /\ UNCHANGED <<loaded, stage, fresh, failures, backup, import, pinned, doubt>>

WriteKey(p) ==
    /\ stage = p /\ writing = "key"
    /\ IF file[p].key = Torn
       THEN Put(p, "key", fresh) /\ writing' = None /\ Advance(p)
       ELSE Put(p, "key", Torn) /\ UNCHANGED <<writing, stage, pinned>>
    /\ UNCHANGED <<loaded, fresh, failures, backup, import, doubt>>
-----------------------------------------------------------------------------
(* Backup and restore, by a running manager.  Exports and imports are not   *)
(* made at the same time.                                                   *)

Export ==
    /\ stage = "running" /\ import = {}
    /\ backup' = [p \in Exported |-> file[p]]
    /\ UNCHANGED <<file, loaded, stage, writing, fresh, failures, import, pinned, doubt>>

(* A file that was not exported is not written.  The manager goes on with   *)
(* what it has loaded.                                                      *)
BeginImport ==
    /\ stage = "running" /\ import = {} /\ backup # None
    /\ import' = {f \in (DOMAIN backup) \X {"crt", "key"} : backup[f[1]][f[2]] # None}
    /\ import' # {} /\ doubt' = (doubt \ {"imported"}) \cup {"cut"}
    /\ UNCHANGED <<file, loaded, stage, writing, fresh, failures, backup, pinned>>

(* What was exported fits together: it was not made of what an import that  *)
(* was cut short, or a key that was lost, had left.                         *)
Whole ==
    /\ \A p \in Exported : backup[p].crt.of = backup[p].key
    /\ backup["server"].crt.by = backup["ca"].crt.of

(* In the order in which Go happens to walk the map. *)
ImportOne(f) ==
    /\ f \in import /\ import' = import \ {f}
    /\ Put(f[1], f[2], backup[f[1]][f[2]])
    /\ doubt' = IF import = {f} /\ Whole THEN doubt \cup {"imported"} ELSE doubt
    /\ UNCHANGED <<loaded, stage, writing, fresh, failures, backup, pinned>>
-----------------------------------------------------------------------------
(* Faults. *)

(* The manager stops, at any moment; a file it was importing may be torn. *)
Stop ==
    /\ stage # "stopped" /\ Failing /\ stage' = "stopped" /\ writing' = None
    /\ import' = {} /\ loaded' = [p \in Pairs |-> NoPair]
    /\ \/ UNCHANGED file
       \/ \E f \in import : Put(f[1], f[2], Torn)
    /\ UNCHANGED <<fresh, backup, pinned, doubt>>

(* A key can no longer be read. *)
LoseKey(p) ==
    /\ stage = "stopped" /\ file[p].key # None /\ Failing
    /\ Put(p, "key", None) /\ doubt' = doubt \cup {"lost"}
    /\ UNCHANGED <<loaded, stage, writing, fresh, backup, import, pinned>>

(* The manager is installed anew; the export is kept. *)
Reinstall ==
    /\ stage = "stopped" /\ backup # None /\ Failing
    /\ file' = [p \in Pairs |-> NoFiles] /\ pinned' = None /\ doubt' = {}
    /\ UNCHANGED <<loaded, stage, writing, fresh, backup, import>>

Next ==
    \/ Start \/ Export \/ BeginImport \/ Stop \/ Reinstall
    \/ \E f \in import : ImportOne(f)
    \/ \E p \in Pairs : Load(p) \/ Refuse(p) \/ Generate(p) \/ WriteCrt(p) \/ WriteKey(p) \/ LoseKey(p)

Spec == Init /\ [][Next]_vars
-----------------------------------------------------------------------------
(* Properties. *)

Keys == 1..MaxKeys
Certificates == [of : Keys, by : Keys]

TypeOK ==
    /\ file \in [Pairs -> [crt : Certificates \cup {None, Torn}, key : Keys \cup {None, Torn}]]
    /\ loaded \in [Pairs -> [crt : Keys, by : Keys, key : Keys] \cup {NoPair}]
    /\ stage \in Pairs \cup {"stopped", "running"} /\ writing \in {None, "crt", "key"}
    /\ fresh \in 0..MaxKeys /\ pinned \in Keys \cup {None}
    /\ import \subseteq Pairs \X {"crt", "key"} /\ doubt \subseteq {"lost", "cut", "imported", "foreign"}

(* A manager that runs has a CA whose key is its own, and that CA has signed *)
(* what it presents to associates, however often its first start was cut     *)
(* short; it keeps the CA it first ran with.  The import of a whole export   *)
(* keeps this too once it is complete, but for the pair used for dialing and *)
(* the CA of the hosts enrolled since; a lost key costs the CA.  What the    *)
(* manager presents always fits its key (ca.go:56-72, 238-384,               *)
(* backup.go:20-70).                                                         *)
IdentityHolds ==
    stage = "running" =>
        /\ \A p \in Pairs : loaded[p].crt = loaded[p].key \/ (p = "ca" /\ "cut" \in doubt)
        /\ {"cut", "lost"} \cap doubt = {} => loaded["server"].by = loaded["ca"].crt
        /\ doubt = {} => loaded["client"].by = loaded["ca"].crt /\ loaded["ca"].crt = pinned
=============================================================================
