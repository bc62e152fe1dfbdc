----------------------------- MODULE StatusSync -----------------------------
(***************************************************************************)
(* How the status of a module reaches the manager: the goroutines of the   *)
(* associate that publish it (handlers.go), the deduplication in           *)
(* sendStatus, the session's outbox and the copy the manager keeps         *)
(* (state.SetModuleStatus).  One host and one module: statuses of several  *)
(* do not touch each other's state.                                        *)
(*                                                                         *)
(* A publisher reads the module's status, swaps the session's lastStatus   *)
(* under statusMu and then, outside the lock, sends.  Statuses are         *)
(* numbered by age; their payload comes back after two changes, as a       *)
(* container's does that stops and starts again.                           *)
(***************************************************************************)
EXTENDS Naturals, Sequences, SequencesExt

CONSTANTS
    Poller,         \* the status loop
    Initial,        \* the publication at the start of a session
    Requests,       \* StatusRequests, and re-publications after a command
    PipeCap,        \* capacity of the outbox and the stream together
    MaxChanges,     \* bound: changes of the module's status
    MaxSessions     \* bound: sessions

ASSUME StatusAssumption ==
    /\ Poller # Initial /\ {Poller, Initial} \cap Requests = {}
    /\ PipeCap \in Nat \ {0} /\ MaxChanges \in Nat /\ MaxSessions \in Nat

VARIABLES
    value,      \* the module's status
    session,    \* how many sessions there have been
    up,         \* whether the last of them is still on
    pc,         \* where a publisher stands
    got,        \* the status it has read
    asked,      \* the module's status when a request arrived
    last,       \* s.lastStatus: the payload published last in this session
    pipe,       \* statuses on their way to the manager
    stray,      \* those of earlier sessions that the manager still has to handle
    shown,      \* the status the manager shows for the module
    turns,      \* publishers between the swap and the send, in the order of their swaps
    overtaken   \* whether a status has overtaken a newer publication

vars == <<value, session, up, pc, got, asked, last, pipe, stray, shown, turns, overtaken>>

-----------------------------------------------------------------------------
Publishers == {Poller, Initial} \cup Requests
None       == 0                     \* no status yet
Statuses   == 1 .. MaxChanges + 1
Payload(v) == IF v = None THEN "none" ELSE IF v % 2 = 1 THEN "odd" ELSE "even"

Init ==
    /\ value = 1 /\ session = 0 /\ up = FALSE
    /\ pc = [p \in Publishers |-> "off"]
    /\ got = [p \in Publishers |-> None]
    /\ asked = [p \in Requests |-> None]
    /\ last = "none"
    /\ pipe = <<>> /\ stray = <<>>
    /\ shown = None
    /\ turns = <<>> /\ overtaken = FALSE

\* The containers, packages or checks the module reports on change.
Change ==
    /\ value <= MaxChanges
    /\ value' = value + 1
    /\ UNCHANGED <<session, up, pc, got, asked, last, pipe, stray, shown, turns, overtaken>>

\* Mutant of Open: lastStatus is kept from one session to the next.
OpenKeepsLast ==
    /\ ~up /\ session < MaxSessions
    /\ session' = session + 1 /\ up' = TRUE
    /\ pc' = [pc EXCEPT ![Initial] = "asked"]
    /\ shown' = None
    /\ UNCHANGED <<value, got, asked, last, pipe, stray, turns, overtaken>>

\* A stream comes up: the manager's SetOnline replaces the modules by those of the
\* Hello, which carries no status; runStream then publishes every module's.
Open ==
    /\ ~up /\ session < MaxSessions
    /\ session' = session + 1 /\ up' = TRUE
    /\ pc' = [pc EXCEPT ![Initial] = "asked"]
    /\ last' = "none"
    /\ shown' = None
    /\ UNCHANGED <<value, got, asked, pipe, stray, turns, overtaken>>

\* The stream ends and its publishers with it.  What has been written may still be
\* read by the manager's goroutine of that stream.
Close ==
    /\ up
    /\ up' = FALSE
    /\ \E n \in 0 .. Len(pipe) : stray' = stray \o SubSeq(pipe, 1, n)
    /\ pipe' = <<>>
    /\ pc' = [p \in Publishers |-> "off"]
    /\ got' = [p \in Publishers |-> None]
    /\ turns' = <<>>
    /\ UNCHANGED <<value, session, asked, last, shown, overtaken>>

\* The status ticker fires; runStream starts it after the initial publication.
Tick ==
    /\ up /\ pc[Poller] = "off" /\ pc[Initial] = "off"
    /\ pc' = [pc EXCEPT ![Poller] = "asked"]
    /\ UNCHANGED <<value, session, up, got, asked, last, pipe, stray, shown, turns, overtaken>>

\* A StatusRequest arrives, or a command has run: the receive loop is on by then.
Ask(p) ==
    /\ up /\ pc[p] = "off" /\ asked[p] = None /\ pc[Initial] = "off"
    /\ pc' = [pc EXCEPT ![p] = "asked"]
    /\ asked' = [asked EXCEPT ![p] = value]
    /\ UNCHANGED <<value, session, up, got, last, pipe, stray, shown, turns, overtaken>>

\* module.Status
Read(p) ==
    /\ pc[p] = "asked"
    /\ got' = [got EXCEPT ![p] = value]
    /\ pc' = [pc EXCEPT ![p] = "read"]
    /\ UNCHANGED <<value, session, up, asked, last, pipe, stray, shown, turns, overtaken>>

Idle(p) == /\ pc' = [pc EXCEPT ![p] = "off"]
           /\ got' = [got EXCEPT ![p] = None]

\* Mutant of Swap: force does not force.
SwapDedups(p) ==
    /\ pc[p] = "read"
    /\ last' = Payload(got[p])
    /\ IF last = Payload(got[p])
       THEN Idle(p) /\ UNCHANGED turns
       ELSE /\ pc' = [pc EXCEPT ![p] = "send"] /\ turns' = Append(turns, p)
            /\ UNCHANGED got
    /\ UNCHANGED <<value, session, up, asked, pipe, stray, shown, overtaken>>

\* Mutant of Swap: a forced send is not remembered.
SwapForgets(p) ==
    /\ pc[p] = "read"
    /\ last' = IF p = Poller THEN Payload(got[p]) ELSE last
    /\ IF p = Poller /\ last = Payload(got[p])
       THEN Idle(p) /\ UNCHANGED turns
       ELSE /\ pc' = [pc EXCEPT ![p] = "send"] /\ turns' = Append(turns, p)
            /\ UNCHANGED got
    /\ UNCHANGED <<value, session, up, asked, pipe, stray, shown, overtaken>>

\* sendStatus remembers the payload; the poller, which does not force, leaves a
\* payload unsent that is the same as the one before.
Swap(p) ==
    /\ pc[p] = "read"
    /\ last' = Payload(got[p])
    /\ IF p = Poller /\ last = Payload(got[p])
       THEN Idle(p) /\ UNCHANGED turns
       ELSE /\ pc' = [pc EXCEPT ![p] = "send"] /\ turns' = Append(turns, p)
            /\ UNCHANGED got
    /\ UNCHANGED <<value, session, up, asked, pipe, stray, shown, overtaken>>

\* The publisher's turn is over; another may have swapped before it.
Leave(p) ==
    \E i \in 1 .. Len(turns) :
        /\ turns[i] = p
        /\ overtaken' = (overtaken \/ i # 1)
        /\ turns' = RemoveAt(turns, i)

\* Mutant of Send: the outbox has no capacity.
SendUnbounded(p) ==
    /\ pc[p] = "send"
    /\ pipe' = Append(pipe, got[p])
    /\ Leave(p)
    /\ Idle(p)
    /\ UNCHANGED <<value, session, up, asked, last, stray, shown>>

\* sendStatus hands it to the outbox, once there is room.
Send(p) ==
    /\ pc[p] = "send" /\ Len(pipe) < PipeCap
    /\ pipe' = Append(pipe, got[p])
    /\ Leave(p)
    /\ Idle(p)
    /\ UNCHANGED <<value, session, up, asked, last, stray, shown>>

\* hub.handle and SetModuleStatus on the goroutine of the current stream.
Show ==
    /\ pipe # <<>>
    /\ shown' = Head(pipe)
    /\ pipe' = Tail(pipe)
    /\ UNCHANGED <<value, session, up, pc, got, asked, last, stray, turns, overtaken>>

\* The same on the goroutine of an earlier stream.
ShowStray ==
    /\ stray # <<>>
    /\ shown' = Head(stray)
    /\ stray' = Tail(stray)
    /\ overtaken' = (overtaken \/ up)
    /\ UNCHANGED <<value, session, up, pc, got, asked, last, pipe, turns>>

Publish(p) == Read(p) \/ Swap(p) \/ Send(p)

Next == \/ Change \/ Open \/ Close \/ Tick
        \/ \E p \in Requests : Ask(p)
        \/ \E p \in Publishers : Publish(p)
        \/ Show \/ ShowStray

\* Publishers and streams are scheduled and the ticker goes on; nobody need ask, and
\* no stream need come up.
Fairness ==
    /\ WF_vars(Tick) /\ WF_vars(Show) /\ WF_vars(ShowStray)
    /\ \A p \in Publishers : WF_vars(Publish(p))

Spec == Init /\ [][Next]_vars /\ Fairness

-----------------------------------------------------------------------------
(* Properties *)

TypeOK ==
    /\ value \in Statuses /\ session \in 0 .. MaxSessions /\ up \in BOOLEAN
    /\ pc \in [Publishers -> {"off", "asked", "read", "send"}]
    /\ got \in [Publishers -> Statuses \cup {None}]
    /\ asked \in [Requests -> Statuses \cup {None}]
    /\ last \in {"none", "odd", "even"}
    /\ pipe \in Seq(Statuses) /\ Len(pipe) <= PipeCap
    /\ stray \in Seq(Statuses)
    /\ shown \in Statuses \cup {None}
    /\ turns \in Seq(Publishers) /\ ToSet(turns) = {p \in Publishers : pc[p] = "send"}
    /\ overtaken \in BOOLEAN

\* What sendStatus remembers is what the manager shows once everything sent has
\* arrived, unless a status was overtaken: the poller drops no payload that differs
\* from the manager's.
LastIsShown ==
    up /\ ~overtaken /\ turns = <<>> /\ pipe = <<>> => last = Payload(shown)

\* Whoever asks for a status gets one: after a StatusRequest or a command the manager
\* shows, at least once, a status no older than the module's at that time, or the
\* stream ends first.
RequestIsAnswered ==
    \A p \in Requests, v \in Statuses :
        pc[p] = "asked" /\ asked[p] = v ~> shown >= v \/ ~up

\* Without a word from the manager, what it shows settles at the module's status,
\* unless the stream is down or a status was overtaken.
SettlesInOrder ==
    <>[](up => overtaken \/ Payload(shown) = Payload(value))

\* The claim of statusLoop's comment: a state that changed reaches the manager on its
\* own, as long as the stream stays up.
Settles ==
    <>[](up => Payload(shown) = Payload(value))
=============================================================================
