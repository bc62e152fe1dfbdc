-------------------------- MODULE AssociateSession --------------------------
(***************************************************************************)
(* The associate's side of a stream (associate/associate.go, handlers.go): *)
(* runStream's receive loop, the command worker, the goroutines of         *)
(* read-only actions and the send loop of each session, joined by the      *)
(* bounded channels cmds and outbox and by the session's context.          *)
(*                                                                         *)
(* A session is one stream and is used once.  A job is one Command.  The   *)
(* manager draws a fresh id for each; here mutating jobs and read-only     *)
(* ones are each numbered as they first arrive.  Resendable lists those a  *)
(* peer sends again.  Status messages and the events of a running action   *)
(* take the same way through the outbox as results and are left out.       *)
(***************************************************************************)
EXTENDS Naturals, Sequences, Functions

CONSTANTS
    Sessions,
    Jobs,           \* numbers
    ReadOnly,       \* the jobs whose action is declared read-only
    Resendable,     \* the jobs the peer may send again while it awaits the result
    DialsHome,      \* TRUE: this end dials; FALSE: the manager does
    NoJob,          \* not a job
    CmdCap,         \* capacity of cmds
    OutCap          \* capacity of outbox

ASSUME SessionAssumption ==
    /\ Jobs \subseteq Nat /\ ReadOnly \subseteq Jobs /\ Resendable \subseteq Jobs /\ NoJob \notin Jobs
    /\ DialsHome \in BOOLEAN
    /\ CmdCap \in Nat \ {0} /\ OutCap \in Nat \ {0}

VARIABLES
    recv,       \* where a session's receive loop stands, with the command in hand
    hand,
    broken,     \* streams whose connection is gone
    done,       \* sessions whose context is cancelled
    cmds,       \* a session's queue of mutating commands
    worker,     \* what its command worker does
    running,    \* the jobs a session's runCommand is at
    active,     \* s.active, the jobs queued or running
    outbox,     \* a session's outgoing messages
    sender,     \* its send loop: on or gone
    told,       \* what the manager has been told of a session's job
    sent        \* how often the peer has sent a job

vars == <<recv, hand, broken, done, cmds, worker, running, active, outbox,
          sender, told, sent>>

-----------------------------------------------------------------------------
Msg(kind, j) == [kind |-> kind, job |-> j]

Init ==
    /\ recv = [s \in Sessions |-> "new"]
    /\ hand = [s \in Sessions |-> NoJob]
    /\ broken = {} /\ done = {}
    /\ cmds = [s \in Sessions |-> <<>>]
    /\ worker = [s \in Sessions |-> "off"]
    /\ running = [s \in Sessions |-> {}]
    /\ active = [s \in Sessions |-> {}]
    /\ outbox = [s \in Sessions |-> <<>>]
    /\ sender = [s \in Sessions |-> "off"]
    /\ told = [s \in Sessions |-> [j \in Jobs |-> "nothing"]]
    /\ sent = [j \in Jobs |-> 0]

\* Mutant of Post: no case for the cancelled context.
PostAlways(s, m) ==
    Len(outbox[s]) < OutCap /\ outbox' = [outbox EXCEPT ![s] = Append(@, m)]

\* Mutant of Post: a message is put in whether there is room or not.
PostUnbounded(s, m) == outbox' = [outbox EXCEPT ![s] = Append(@, m)]

\* session.send: wait for room in the outbox, or give up once the session is over.
Post(s, m) ==
    \/ Len(outbox[s]) < OutCap /\ outbox' = [outbox EXCEPT ![s] = Append(@, m)]
    \/ s \in done /\ UNCHANGED outbox

-----------------------------------------------------------------------------
(* The stream and its other end *)

\* The handshake is over: runStream starts its goroutines.  Run dials again only
\* when its last session has returned; a listening associate serves every Attach.
Open(s) ==
    /\ recv[s] = "new"
    /\ DialsHome => \A t \in Sessions : recv[t] \in {"new", "gone"}
    /\ recv' = [recv EXCEPT ![s] = "recv"]
    /\ worker' = [worker EXCEPT ![s] = "idle"]
    /\ sender' = [sender EXCEPT ![s] = "on"]
    /\ UNCHANGED <<hand, broken, done, cmds, running, active, outbox, told, sent>>

\* The connection breaks.
Break(s) ==
    /\ recv[s] \notin {"new", "gone"} /\ s \notin broken
    /\ broken' = broken \cup {s}
    /\ UNCHANGED <<recv, hand, done, cmds, worker, running, active, outbox,
                   sender, told, sent>>

\* onRotateCert: the new certificate is saved and the session cancelled.
RotateCert(s) ==
    /\ DialsHome /\ recv[s] = "recv" /\ s \notin broken
    /\ done' = done \cup {s}
    /\ UNCHANGED <<recv, hand, broken, cmds, worker, running, active, outbox,
                   sender, told, sent>>

-----------------------------------------------------------------------------
(* The receive loop *)

SameKind(i, j) == i \in ReadOnly <=> j \in ReadOnly

\* The peer's next command: a new job, the next of its kind, or one it sends again.
Arrives(s, j) ==
    /\ recv[s] = "recv" /\ s \notin broken
    /\ \/ sent[j] = 0 /\ \A i \in Jobs : i < j /\ SameKind(i, j) => sent[i] > 0
       \/ j \in Resendable /\ sent[j] = 1 /\ told[s][j] = "accepted"
    /\ sent' = [sent EXCEPT ![j] = @ + 1]

\* Mutant of Receive: a job that is queued or running is accepted again.
ReceiveAgain(s, j) ==
    /\ Arrives(s, j)
    /\ hand' = [hand EXCEPT ![s] = j]
    /\ recv' = [recv EXCEPT ![s] = "ack"]
    /\ active' = [active EXCEPT ![s] = @ \cup {j}]
    /\ UNCHANGED <<broken, done, cmds, worker, running, outbox, sender, told>>

\* onCommand: a job that is already queued or running is turned down.
Receive(s, j) ==
    /\ Arrives(s, j)
    /\ hand' = [hand EXCEPT ![s] = j]
    /\ recv' = [recv EXCEPT ![s] = IF j \in active[s] THEN "reject" ELSE "ack"]
    /\ active' = [active EXCEPT ![s] = @ \cup {j}]
    /\ UNCHANGED <<broken, done, cmds, worker, running, outbox, sender, told>>

Reject(s) ==
    /\ recv[s] = "reject"
    /\ Post(s, Msg("reject", hand[s]))
    /\ recv' = [recv EXCEPT ![s] = "recv"]
    /\ hand' = [hand EXCEPT ![s] = NoJob]
    /\ UNCHANGED <<broken, done, cmds, worker, running, active, sender, told, sent>>

\* The job is acknowledged; a read-only action then runs in a goroutine of its own.
Accept(s) ==
    LET j == hand[s]
    IN  /\ recv[s] = "ack"
        /\ Post(s, Msg("ack", j))
        /\ IF j \in ReadOnly
           THEN /\ running' = [running EXCEPT ![s] = @ \cup {j}]
                /\ recv' = [recv EXCEPT ![s] = "recv"]
                /\ hand' = [hand EXCEPT ![s] = NoJob]
           ELSE /\ recv' = [recv EXCEPT ![s] = "queue"]
                /\ UNCHANGED <<running, hand>>
        /\ UNCHANGED <<broken, done, cmds, worker, active, sender, told, sent>>

\* Mutant of Queue: a full queue loses the command.
QueueOrDrop(s) ==
    /\ recv[s] = "queue"
    /\ cmds' = IF Len(cmds[s]) < CmdCap THEN [cmds EXCEPT ![s] = Append(@, hand[s])] ELSE cmds
    /\ recv' = [recv EXCEPT ![s] = "recv"]
    /\ hand' = [hand EXCEPT ![s] = NoJob]
    /\ UNCHANGED <<broken, done, worker, running, active, outbox, sender, told, sent>>

\* Any other waits for room in the worker's queue, or for the session's end.
Queue(s) ==
    /\ recv[s] = "queue"
    /\ \/ /\ Len(cmds[s]) < CmdCap
          /\ cmds' = [cmds EXCEPT ![s] = Append(@, hand[s])]
       \/ s \in done /\ UNCHANGED cmds
    /\ recv' = [recv EXCEPT ![s] = "recv"]
    /\ hand' = [hand EXCEPT ![s] = NoJob]
    /\ UNCHANGED <<broken, done, worker, running, active, outbox, sender, told, sent>>

\* Recv fails, because the connection broke or because the context of a stream this
\* end dialed was cancelled; runStream cancels the session and returns.
RecvFails(s) ==
    /\ recv[s] = "recv"
    /\ s \in broken \/ (s \in done /\ DialsHome)
    /\ recv' = [recv EXCEPT ![s] = "gone"]
    /\ done' = done \cup {s}
    /\ UNCHANGED <<hand, broken, cmds, worker, running, active, outbox, sender, told, sent>>

-----------------------------------------------------------------------------
(* Workers *)

\* commandWorker takes the oldest command (it may, even when the session is over).
Take(s) ==
    /\ worker[s] = "idle" /\ cmds[s] # <<>>
    /\ worker' = [worker EXCEPT ![s] = "busy"]
    /\ running' = [running EXCEPT ![s] = @ \cup {Head(cmds[s])}]
    /\ cmds' = [cmds EXCEPT ![s] = Tail(@)]
    /\ UNCHANGED <<recv, hand, broken, done, active, outbox, sender, told, sent>>

WorkerExits(s) ==
    /\ worker[s] = "idle" /\ s \in done
    /\ worker' = [worker EXCEPT ![s] = "off"]
    /\ UNCHANGED <<recv, hand, broken, done, cmds, running, active, outbox, sender, told, sent>>

\* Mutant of Report: the job is not taken off the active list.
ReportOnly(s, j) ==
    /\ j \in running[s]
    /\ Post(s, Msg("result", j))
    /\ running' = [running EXCEPT ![s] = @ \ {j}]
    /\ worker' = IF j \in ReadOnly THEN worker ELSE [worker EXCEPT ![s] = "idle"]
    /\ UNCHANGED <<recv, hand, broken, done, cmds, active, sender, told, sent>>

\* runCommand: Execute returns, the result is sent and the deferred cleanup forgets
\* the job.  A cancelled context need not end the action: the helper runs under sudo,
\* out of the associate's reach.
Report(s, j) ==
    /\ j \in running[s]
    /\ Post(s, Msg("result", j))
    /\ running' = [running EXCEPT ![s] = @ \ {j}]
    /\ active' = [active EXCEPT ![s] = @ \ {j}]
    /\ worker' = IF j \in ReadOnly THEN worker ELSE [worker EXCEPT ![s] = "idle"]
    /\ UNCHANGED <<recv, hand, broken, done, cmds, sender, told, sent>>

\* The story of a job as the manager hears it: accepted, then over.
Heard(before, kind) ==
    CASE kind = "ack" /\ before # "accepted" -> "accepted"
      [] kind = "result" /\ before = "accepted" -> "over"
      [] kind = "reject" -> before
      [] OTHER -> "nonsense"

\* sendLoop writes the oldest message; a write that fails cancels the session.
Write(s) ==
    /\ sender[s] = "on" /\ outbox[s] # <<>>
    /\ outbox' = [outbox EXCEPT ![s] = Tail(@)]
    /\ IF s \in broken
       THEN /\ done' = done \cup {s}
            /\ sender' = [sender EXCEPT ![s] = "off"]
            /\ UNCHANGED told
       ELSE /\ told' = LET m == Head(outbox[s])
                       IN  [told EXCEPT ![s][m.job] = Heard(@, m.kind)]
            /\ UNCHANGED <<done, sender>>
    /\ UNCHANGED <<recv, hand, broken, cmds, worker, running, active, sent>>

SenderExits(s) ==
    /\ sender[s] = "on" /\ s \in done
    /\ sender' = [sender EXCEPT ![s] = "off"]
    /\ UNCHANGED <<recv, hand, broken, done, cmds, worker, running, active, outbox, told, sent>>

-----------------------------------------------------------------------------
PeerStep(s) == \/ Open(s) \/ Break(s) \/ RotateCert(s)
               \/ \E j \in Jobs : Receive(s, j)

SessionStep(s) == \/ Reject(s) \/ Accept(s) \/ Queue(s) \/ RecvFails(s)
                  \/ Take(s) \/ WorkerExits(s)
                  \/ \E j \in Jobs : Report(s, j)
                  \/ Write(s) \/ SenderExits(s)

Next == \E s \in Sessions : PeerStep(s) \/ SessionStep(s)

\* Goroutines are scheduled, a select with two ready cases is in the long run fair
\* to each, and an action ends.
Fairness ==
    \A s \in Sessions :
        /\ WF_vars(Reject(s)) /\ WF_vars(Accept(s))
        /\ WF_vars(Queue(s)) /\ WF_vars(RecvFails(s))
        /\ WF_vars(Take(s)) /\ WF_vars(WorkerExits(s))
        /\ \A j \in Jobs : WF_vars(Report(s, j))
        /\ WF_vars(Write(s)) /\ WF_vars(SenderExits(s))

Spec == Init /\ [][Next]_vars /\ Fairness

-----------------------------------------------------------------------------
(* Properties *)

Messages == [kind : {"ack", "reject", "result"}, job : Jobs]

TypeOK ==
    /\ recv \in [Sessions -> {"new", "recv", "ack", "reject", "queue", "gone"}]
    /\ hand \in [Sessions -> Jobs \cup {NoJob}]
    /\ \A s \in Sessions : hand[s] \in Jobs <=> recv[s] \in {"ack", "reject", "queue"}
    /\ broken \subseteq Sessions /\ done \subseteq Sessions
    /\ cmds \in [Sessions -> Seq(Jobs)]
    /\ \A s \in Sessions : Len(cmds[s]) <= CmdCap
    /\ worker \in [Sessions -> {"off", "idle", "busy"}]
    /\ running \in [Sessions -> SUBSET Jobs]
    /\ active \in [Sessions -> SUBSET Jobs]
    /\ outbox \in [Sessions -> Seq(Messages)]
    /\ \A s \in Sessions : Len(outbox[s]) <= OutCap
    /\ sender \in [Sessions -> {"off", "on"}]
    /\ told \in [Sessions -> [Jobs -> {"nothing", "accepted", "over", "nonsense"}]]
    /\ sent \in [Jobs -> Nat]

\* The manager hears of every job that it was accepted, then that it is over, in turn,
\* until the session ends: no result overtakes its acceptance, and a job sent again
\* while it is queued or running is not run a second time.
AnswersInTurn ==
    \A s \in Sessions \ done : \A j \in Jobs : told[s][j] # "nonsense"

\* s.active lists the jobs that are queued or running and no others: a command is not
\* refused for a job that is over, as long as the session lasts.
ActiveIsInProgress ==
    \A s \in Sessions \ done :
        active[s] = running[s] \cup Range(cmds[s])
            \cup (IF recv[s] \in {"ack", "queue"} THEN {hand[s]} ELSE {})
            \cup (IF recv[s] = "reject" THEN {hand[s]} \cap active[s] ELSE {})

\* When a session is over its goroutines end: none is left waiting on a channel that
\* nobody serves any more.
WindsDown ==
    \A s \in Sessions : s \in done ~>
        /\ recv[s] = "gone" /\ worker[s] = "off" /\ sender[s] = "off"
        /\ running[s] = {}

\* Once the peer sends no more, every accepted job is answered, unless the session is
\* over first: full queues delay the receive loop, the worker and the send loop but
\* never deadlock them or lose a command between them.
AcceptedIsAnswered ==
    \A s \in Sessions : active[s] # {} ~> (active[s] = {} \/ s \in done)

\* The claim of onCommand's comment: one in-flight mutation per host.
OneMutationPerHost ==
    \A s, t \in Sessions : \A i \in running[s] \ ReadOnly, j \in running[t] \ ReadOnly :
        s = t

\* What the command worker does keep of it: the mutations of a session run one at a time, and
\* where the associate dials, those of two sessions overlap only once one of them is over.
MutationsInTurn ==
    /\ \A s \in Sessions : \A i, j \in running[s] \ ReadOnly : i = j
    /\ DialsHome => \A s, t \in Sessions \ done :
           running[s] \ ReadOnly # {} /\ running[t] \ ReadOnly # {} => s = t
=============================================================================
