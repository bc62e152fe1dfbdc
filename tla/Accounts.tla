------------------------------- MODULE Accounts -------------------------------
(***************************************************************************)
(* The dashboard's sign-in (manager/api/auth.go) and what it is checked    *)
(* against (manager/settings/settings.go): the password, the API tokens    *)
(* and the sessions, which live in memory only.                            *)
(*                                                                         *)
(* bcrypt is slow, so that the password is compared and the new hash made  *)
(* outside the lock when it is changed.  `manager setpass` is a process of *)
(* its own and only touches the file.  Each password is a value; its hash  *)
(* is a new one every time (a pair with a number).                         *)
(***************************************************************************)
EXTENDS Naturals, FiniteSets

CONSTANTS
    Passwords,
    Unset,          \* no password: the dashboard is open
    Tokens,
    Requests,       \* goroutines
    MaxHashes,      \* bound: password hashes made
    MaxSessions,    \* bound: sessions created
    MaxFailures     \* bound: failed saves and restarts

BoundsAssumption == MaxHashes \in Nat /\ MaxSessions \in Nat /\ Unset \notin Passwords

VARIABLES
    hash, tokens,   \* the store in memory
    disk,           \* settings.json
    sessions,       \* live sessions
    created,        \* sessions ever created
    request,        \* what each request is doing
    prompt,         \* the file as a setpass that asks for the password has loaded it
    hashes, failures,
    bornUnder,      \* history: the hash a session goes back to
    late,           \* history: sessions whose password was changed while they were created
    setpass         \* history: setpass has run since the manager started

storeVars == <<hash, tokens, disk>>
vars == <<storeVars, sessions, created, request, prompt, hashes, failures, bornUnder, late, setpass>>

NoRequest == [pc |-> "none"]
NoHash == [pw |-> Unset, n |-> 0]
Failing == failures < MaxFailures /\ failures' = failures + 1
Stored == [hash |-> hash, tokens |-> tokens]
Done(r) == request' = [request EXCEPT ![r] = NoRequest]

Init ==
    /\ hash = NoHash /\ tokens = {} /\ disk = Stored /\ prompt = NoRequest
    /\ sessions = {} /\ created = 0 /\ request = [r \in Requests |-> NoRequest]
    /\ hashes = 0 /\ failures = 0
    /\ bornUnder = [s \in 1..MaxSessions |-> NoHash] /\ late = {} /\ setpass = FALSE

(* store.save writes all of it. *)
Save(h, t) == disk' = [hash |-> h, tokens |-> t]
-----------------------------------------------------------------------------
(* manager setpass, a process of its own: it loads the file and asks for    *)
(* the password; then it saves what it has loaded, with the new hash.       *)
LoadSetPass ==
    /\ prompt = NoRequest /\ hashes < MaxHashes /\ prompt' = disk
    /\ UNCHANGED <<storeVars, sessions, created, request, hashes, failures, bornUnder, late, setpass>>

SetPass(pw) ==
    /\ prompt # NoRequest /\ hashes < MaxHashes /\ hashes' = hashes + 1
    /\ disk' = [prompt EXCEPT !.hash = [pw |-> pw, n |-> hashes + 1]]
    /\ setpass' = TRUE /\ prompt' = NoRequest
    /\ UNCHANGED <<hash, tokens, sessions, created, request, failures, bornUnder, late>>

(* login, the part that compares: CheckLogin holds the lock. *)
CheckLogin(r, pw) ==
    /\ request[r] = NoRequest /\ hash # NoHash /\ hash.pw = pw
    /\ request' = [request EXCEPT ![r] = [pc |-> "login", old |-> hash, session |-> 0]]
    /\ UNCHANGED <<storeVars, sessions, created, hashes, failures, bornUnder, late, setpass, prompt>>

CreateSession(r) ==
    /\ request[r].pc = "login" /\ created < MaxSessions /\ created' = created + 1
    /\ sessions' = sessions \cup {created + 1}
    /\ bornUnder' = [bornUnder EXCEPT ![created + 1] = request[r].old]
    /\ late' = IF request[r].old # hash THEN late \cup {created + 1} ELSE late
    /\ Done(r)
    /\ UNCHANGED <<storeVars, hashes, failures, setpass, prompt>>

(* Logout, or its time to live is over (Valid removes it). *)
EndSession(s) ==
    /\ s \in sessions /\ sessions' = sessions \ {s}
    /\ UNCHANGED <<storeVars, created, request, hashes, failures, bornUnder, late, setpass, prompt>>
-----------------------------------------------------------------------------
(* changePassword: a live session and the current password are needed. *)
BeginChange(r, s, cur, new) ==
    /\ request[r] = NoRequest /\ s \in sessions /\ hash # NoHash /\ hash.pw = cur
    /\ hashes < MaxHashes /\ hashes' = hashes + 1
    /\ request' = [request EXCEPT ![r] =
            [pc |-> "swap", old |-> hash, new |-> [pw |-> new, n |-> hashes + 1], session |-> s]]
    /\ UNCHANGED <<storeVars, sessions, created, failures, bornUnder, late, setpass, prompt>>

(* The swap lands only on the hash that was compared; a failed save takes   *)
(* it back.                                                                 *)
Swap(r) ==
    LET rq == request[r] IN
    /\ rq.pc = "swap" /\ hash = rq.old
    /\ hash' = rq.new /\ Save(rq.new, tokens)
    /\ bornUnder' = [bornUnder EXCEPT ![rq.session] = rq.new]
    /\ request' = [request EXCEPT ![r].pc = "drop"]
    /\ UNCHANGED <<tokens, sessions, created, hashes, failures, late, setpass, prompt>>

(* Mutant of RefuseSwap: the new hash stays when it could not be saved. *)
RefuseSwapKept(r) ==
    /\ request[r].pc = "swap" /\ hash = request[r].old /\ Failing
    /\ hash' = request[r].new /\ Done(r)
    /\ UNCHANGED <<tokens, disk, sessions, created, hashes, bornUnder, late, setpass, prompt>>

RefuseSwap(r) ==
    /\ request[r].pc = "swap"
    /\ \/ hash # request[r].old /\ UNCHANGED failures
       \/ hash = request[r].old /\ Failing
    /\ Done(r)
    /\ UNCHANGED <<storeVars, sessions, created, hashes, bornUnder, late, setpass, prompt>>

(* DeleteExcept; a session the change began with may have ended meanwhile. *)
DropOthers(r) ==
    /\ request[r].pc = "drop" /\ sessions' = sessions \cap {request[r].session}
    /\ Done(r)
    /\ UNCHANGED <<storeVars, created, hashes, failures, bornUnder, late, setpass, prompt>>
-----------------------------------------------------------------------------
(* Tokens stay as they are in memory when the save fails: AddToken returns  *)
(* the error, RevokeToken ignores it.                                       *)
ChangeTokens(new) ==
    /\ tokens' = new
    /\ \/ Save(hash, new) /\ UNCHANGED failures
       \/ Failing /\ UNCHANGED disk
    /\ UNCHANGED <<hash, sessions, created, request, hashes, bornUnder, late, setpass, prompt>>

AddToken(t) == t \notin tokens /\ ChangeTokens(tokens \cup {t})
RevokeToken(t) == t \in tokens /\ ChangeTokens(tokens \ {t})

(* The manager stops and loads the file again. *)
Restart ==
    /\ Failing
    /\ hash' = disk.hash /\ tokens' = disk.tokens /\ sessions' = {}
    /\ request' = [r \in Requests |-> NoRequest] /\ setpass' = FALSE
    /\ UNCHANGED <<disk, created, hashes, bornUnder, late, prompt>>

Next ==
    \/ LoadSetPass \/ \E pw \in Passwords : SetPass(pw)
    \/ \E r \in Requests :
        \/ \E pw \in Passwords : CheckLogin(r, pw)
        \/ \E s \in sessions, cur, new \in Passwords : BeginChange(r, s, cur, new)
        \/ CreateSession(r) \/ Swap(r) \/ RefuseSwap(r) \/ DropOthers(r)
    \/ \E s \in sessions : EndSession(s)
    \/ \E t \in Tokens : AddToken(t) \/ RevokeToken(t)
    \/ Restart

Spec == Init /\ [][Next]_vars
-----------------------------------------------------------------------------
(* Properties. *)

Hashes == [pw : Passwords \cup {Unset}, n : 0..MaxHashes]

TypeOK ==
    /\ hash \in Hashes /\ tokens \subseteq Tokens
    /\ disk \in [hash : Hashes, tokens : SUBSET Tokens]
    /\ sessions \subseteq 1..created /\ created <= MaxSessions
    /\ \A r \in Requests : request[r].pc \in {"none", "login", "swap", "drop"}
    /\ bornUnder \in [1..MaxSessions -> Hashes] /\ late \subseteq 1..created

(* A change of the password ends the sessions that were signed in under the  *)
(* one before: once the request that made it is over, every session goes     *)
(* back to the present password or is the one that changed it, but for a     *)
(* login that was on its way.  And the password the manager accepts is the   *)
(* one a restart will load, unless setpass has run (auth.go:149-190,         *)
(* settings.go:198-229).                                                     *)
SignedOut ==
    /\ \A s \in sessions :
        \/ bornUnder[s] = hash \/ s \in late
        \/ \E r \in Requests : request[r].pc = "drop"
    /\ hash = disk.hash \/ setpass
=============================================================================
