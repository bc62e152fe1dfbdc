---------------------------- MODULE ActionRunner ----------------------------
(***************************************************************************)
(* How an action gets run on a host: manager/actions (approvals and sudo   *)
(* prompts), manager/jobs (the job registry), the hub's dispatch and its   *)
(* handling of the associate's answers, and the result hook of app.go.     *)
(*                                                                         *)
(* A request is one goroutine: an HTTP handler or a scheduler run calling  *)
(* Run, Confirm, Reject, SubmitSudo or CancelSudo.  A request creates at   *)
(* most one approval and at most one job, so each is named by the request  *)
(* that created it; a prompt is named by the job that asked for it.  One   *)
(* stream per host: HubStreams has their replacement, AssociateSession the *)
(* associate's queue and workers, which here start any delivered job.      *)
(***************************************************************************)
EXTENDS Naturals, Sequences, Functions

CONSTANTS
    Hosts,
    Actions,        \* (module, action) pairs of the associates' manifests
    Destructive,    \* those the manifests declare destructive
    Elevated,       \* those that run in the privileged helper
    ReadOnly,       \* those the associate runs beside others
    Requests,
    Scheduled,      \* the requests of the scheduler: they only Run, pre-approved
    NoCall,         \* not a call
    NoJob,          \* not a job
    BufferCap,      \* capacity of a stream's send channel
    MaxBreaks,      \* bound: streams that end
    MaxRestarts     \* bound: restarts of the manager

\* What a request does: the approval or the job it is about is named of.
Calls == [op : {"run", "confirm", "reject", "submit", "cancel"}, of : Requests,
          host : Hosts, action : Actions, ask : BOOLEAN, listed : BOOLEAN]

ASSUME RunnerAssumption ==
    /\ Destructive \subseteq Actions /\ Elevated \subseteq Actions
    /\ ReadOnly \subseteq Actions
    /\ Scheduled \subseteq Requests /\ NoJob \notin Requests /\ NoCall \notin Calls
    /\ BufferCap \in Nat \ {0}
    /\ MaxBreaks \in Nat /\ MaxRestarts \in Nat

VARIABLES
    known,      \* hosts in the registry
    listed,     \* hosts whose manifest the registry holds (runtime only)
    link,       \* a host's stream: down, registered in the hub, up (SetOnline done)
    pc,         \* where a request stands
    call,       \* what it is doing
    approvals,  \* pending approvals
    prompts,    \* pending sudo prompts
    job,        \* the registry's state of a job
    wire,       \* commands queued for a host
    work,       \* what the associate has done of a job
    answers,    \* the associate's messages about jobs, on their way
    lost,       \* jobs whose command or answer went down with a stream
    hook,       \* the job whose result hook a stream's goroutine is running
    breaks, restarts

runnerVars == <<pc, call, approvals, prompts>>
linkVars   == <<known, listed, link, breaks, restarts>>
flowVars   == <<wire, work, answers, lost, hook>>
vars       == <<runnerVars, job, linkVars, flowVars>>

-----------------------------------------------------------------------------
Terminal == {"succeeded", "failed", "timed_out"}
Open     == {"queued", "running", "needs_sudo"}

\* The message kinds of hub.handle that concern a job.
Ack(j)        == [job |-> j, kind |-> "ack", state |-> "queued"]
Event(j, st)  == [job |-> j, kind |-> "event", state |-> st]
Result(j, st) == [job |-> j, kind |-> "result", state |-> st]

\* AddEvent and SetResult ignore a job the registry no longer has.
InRegistry(j)   == job[j] \in Terminal \cup Open
Recorded(j, st) == IF InRegistry(j) THEN [job EXCEPT ![j] = st] ELSE job

Init ==
    /\ known = Hosts
    /\ listed = {}
    /\ link = [h \in Hosts |-> "down"]
    /\ pc = [r \in Requests |-> "new"]
    /\ call = [r \in Requests |-> NoCall]
    /\ approvals = {} /\ prompts = {}
    /\ job = [r \in Requests |-> "none"]
    /\ wire = [h \in Hosts |-> <<>>]
    /\ work = [r \in Requests |-> "none"]
    /\ answers = [h \in Hosts |-> <<>>]
    /\ lost = {}
    /\ hook = [h \in Hosts |-> NoJob]
    /\ breaks = 0 /\ restarts = 0

-----------------------------------------------------------------------------
(* Requests.  One that names an unknown host, approval or prompt fails and    *)
(* changes nothing: it is no step.                                         *)

\* Run reads the host, and with it the manifest that says what is destructive.
Run(r, h, a) ==
    /\ pc[r] = "new" /\ h \in known
    /\ pc' = [pc EXCEPT ![r] = "read"]
    /\ call' = [call EXCEPT ![r] =
          [op |-> "run", of |-> r, host |-> h, action |-> a,
           ask |-> h \in listed /\ a \in Destructive /\ r \notin Scheduled,
           listed |-> h \in listed]]
    /\ UNCHANGED <<approvals, prompts, job, linkVars, flowVars>>

\* Mutant of Proceed: the approval is recorded and the action dispatched as well.
ProceedAnyway(r) ==
    /\ pc[r] = "read"
    /\ IF link[call[r].host] = "down"
       THEN /\ pc' = [pc EXCEPT ![r] = "done"]
            /\ UNCHANGED <<approvals, job>>
       ELSE /\ pc' = [pc EXCEPT ![r] = "created"]
            /\ job' = [job EXCEPT ![r] = "queued"]
            /\ approvals' = IF call[r].ask THEN approvals \cup {r} ELSE approvals
    /\ UNCHANGED <<call, prompts, linkVars, flowVars>>

\* The host must be connected.  A destructive action that is not pre-approved
\* becomes an approval; anything else becomes a queued job.
Proceed(r) ==
    /\ pc[r] = "read"
    /\ IF link[call[r].host] = "down"
       THEN /\ pc' = [pc EXCEPT ![r] = "done"]
            /\ UNCHANGED <<approvals, job>>
       ELSE IF call[r].ask
       THEN /\ approvals' = approvals \cup {r}
            /\ pc' = [pc EXCEPT ![r] = "done"]
            /\ UNCHANGED job
       ELSE /\ job' = [job EXCEPT ![r] = "queued"]
            /\ pc' = [pc EXCEPT ![r] = "created"]
            /\ UNCHANGED approvals
    /\ UNCHANGED <<call, prompts, linkVars, flowVars>>

\* Mutant of Send: the job is registered after its command is on its way.
SendThenCreate(r) ==
    LET h == call[r].host
        sent == r \in Range(wire[h]) \/ work[r] # "none"
    IN  /\ pc[r] = "created"
        /\ \/ ~sent /\ link[h] # "down" /\ Len(wire[h]) < BufferCap
              /\ wire' = [wire EXCEPT ![h] = Append(@, r)]
              /\ UNCHANGED <<pc, job>>
           \/ sent /\ job' = [job EXCEPT ![r] = "queued"]
              /\ pc' = [pc EXCEPT ![r] = "done"]
              /\ UNCHANGED wire
        /\ UNCHANGED <<call, approvals, prompts, linkVars, work, answers, lost, hook>>

\* Mutant of Send: the channel has no capacity.
SendUnbounded(r) ==
    LET h == call[r].host
    IN  /\ pc[r] = "created" /\ link[h] # "down"
        /\ pc' = [pc EXCEPT ![r] = "done"]
        /\ wire' = [wire EXCEPT ![h] = Append(@, r)]
        /\ UNCHANGED <<call, approvals, prompts, job, linkVars, work, answers, lost, hook>>

\* hub.Dispatch: the command is queued on the host's stream, or the job fails at
\* once: no stream any more, or a full channel.
Send(r) ==
    LET h == call[r].host
    IN  /\ pc[r] = "created"
        /\ pc' = [pc EXCEPT ![r] = "done"]
        /\ IF link[h] # "down" /\ Len(wire[h]) < BufferCap
           THEN /\ wire' = [wire EXCEPT ![h] = Append(@, r)]
                /\ UNCHANGED job
           ELSE /\ job' = Recorded(r, "failed")
                /\ UNCHANGED wire
        /\ UNCHANGED <<call, approvals, prompts, linkVars, work, answers, lost, hook>>

\* What Confirm and SubmitSudo go on to dispatch: the action of the approval or
\* of the paused job, whatever it is, without asking again.
Again(r, op, of) == [op |-> op, of |-> of, host |-> call[of].host,
                     action |-> call[of].action, ask |-> FALSE,
                     listed |-> call[of].listed]

\* Mutant of Confirm: the approval is looked up, and deleted only by the dispatch.
ConfirmKeeps(r, id) ==
    /\ pc[r] = "new" /\ id \in approvals
    /\ pc' = [pc EXCEPT ![r] = "taken"]
    /\ call' = [call EXCEPT ![r] = Again(r, "confirm", id)]
    /\ UNCHANGED <<approvals, prompts, job, linkVars, flowVars>>

\* Confirm takes the approval off the list, before it looks at the host.
Confirm(r, id) ==
    /\ pc[r] = "new" /\ id \in approvals
    /\ approvals' = approvals \ {id}
    /\ pc' = [pc EXCEPT ![r] = "taken"]
    /\ call' = [call EXCEPT ![r] = Again(r, "confirm", id)]
    /\ UNCHANGED <<prompts, job, linkVars, flowVars>>

\* Reject takes it and drops it.
Reject(r, id) ==
    /\ pc[r] = "new" /\ id \in approvals
    /\ approvals' = approvals \ {id}
    /\ pc' = [pc EXCEPT ![r] = "done"]
    /\ call' = [call EXCEPT ![r] = Again(r, "reject", id)]
    /\ UNCHANGED <<prompts, job, linkVars, flowVars>>

\* SubmitSudo takes the prompt, to dispatch its action again with the password.
SubmitSudo(r, id) ==
    /\ pc[r] = "new" /\ id \in prompts
    /\ prompts' = prompts \ {id}
    /\ pc' = [pc EXCEPT ![r] = "taken"]
    /\ call' = [call EXCEPT ![r] = Again(r, "submit", id)]
    /\ UNCHANGED <<approvals, job, linkVars, flowVars>>

\* CancelSudo takes it and drops it.
CancelSudo(r, id) ==
    /\ pc[r] = "new" /\ id \in prompts
    /\ prompts' = prompts \ {id}
    /\ pc' = [pc EXCEPT ![r] = "done"]
    /\ call' = [call EXCEPT ![r] = Again(r, "cancel", id)]
    /\ UNCHANGED <<approvals, job, linkVars, flowVars>>

\* The host of what was taken is read; one removed meanwhile ends the request,
\* and the approval or prompt is gone.
Resume(r) ==
    /\ pc[r] = "taken"
    /\ pc' = [pc EXCEPT ![r] = IF call[r].host \in known THEN "read" ELSE "done"]
    /\ UNCHANGED <<call, approvals, prompts, job, linkVars, flowVars>>

-----------------------------------------------------------------------------
(* The host's stream and the associate behind it *)

\* register: the hub accepts commands for the host from here on.
Register(h) ==
    /\ link[h] = "down" /\ h \in known
    /\ link' = [link EXCEPT ![h] = "registered"]
    /\ UNCHANGED <<known, listed, breaks, restarts, runnerVars, job, flowVars>>

\* SetOnline with the manifest of the Hello, then the send loop starts.
SetOnline(h) ==
    /\ link[h] = "registered"
    /\ link' = [link EXCEPT ![h] = "up"]
    /\ listed' = IF h \in known THEN listed \cup {h} ELSE listed
    /\ UNCHANGED <<known, breaks, restarts, runnerVars, job, flowVars>>

Jobs(h) == {r \in Requests : call[r] # NoCall /\ call[r].host = h}

\* What goes down with a stream: the commands and the messages on their way, and
\* whatever the associate, which reports on the stream it was asked on, still does.
CutOff(h) ==
    Range(wire[h]) \cup {m.job : m \in Range(answers[h])}
        \cup {j \in Jobs(h) : work[j] \in {"begun", "running", "claimed"}}

\* The stream ends: Recv fails once the message in hand has been handled.
StreamEnds(h) ==
    /\ link[h] = "up" /\ hook[h] = NoJob
    /\ breaks < MaxBreaks /\ breaks' = breaks + 1
    /\ link' = [link EXCEPT ![h] = "down"]
    /\ lost' = lost \cup CutOff(h)
    /\ wire' = [wire EXCEPT ![h] = <<>>]
    /\ answers' = [answers EXCEPT ![h] = <<>>]
    /\ UNCHANGED <<known, listed, restarts, runnerVars, job, work, hook>>

RemoveHost(h) ==
    /\ h \in known
    /\ known' = known \ {h}
    /\ listed' = listed \ {h}
    /\ UNCHANGED <<link, breaks, restarts, runnerVars, job, flowVars>>

Says(h, m) == answers' = [answers EXCEPT ![h] = Append(@, m)]

\* The associate receives the oldest command, acknowledges it and queues it.
Begin(h) ==
    /\ link[h] = "up" /\ wire[h] # <<>>
    /\ wire' = [wire EXCEPT ![h] = Tail(@)]
    /\ work' = [work EXCEPT ![Head(wire[h])] = "begun"]
    /\ Says(h, Ack(Head(wire[h])))
    /\ UNCHANGED <<lost, hook, runnerVars, job, linkVars>>

\* The session's single worker is busy with a mutating action.
Mutating(h) ==
    \E j \in Jobs(h) \ lost : /\ work[j] \in {"running", "claimed"}
                             /\ call[j].action \notin ReadOnly

\* A read-only action runs at once, any other when the worker is free.
Free(h, j) == call[j].action \in ReadOnly \/ ~Mutating(h)

\* Mutant of Execute: a sudo that wants a password ends the job without a result.
ExecuteSilent(h, j) ==
    /\ link[h] = "up" /\ j \in Jobs(h) \ lost /\ work[j] = "begun"
    /\ Free(h, j)
    /\ \/ /\ call[j].action \in Elevated
          /\ work' = [work EXCEPT ![j] = "paused"]
          /\ UNCHANGED answers
       \/ /\ work' = [work EXCEPT ![j] = "running"]
          /\ Says(h, Event(j, "running"))
    /\ UNCHANGED <<wire, lost, hook, runnerVars, job, linkVars>>

\* runCommand: sudo may want a password; otherwise most modules say they are running.
Execute(h, j) ==
    /\ link[h] = "up" /\ j \in Jobs(h) \ lost /\ work[j] = "begun"
    /\ Free(h, j)
    /\ \/ /\ call[j].action \in Elevated
          /\ work' = [work EXCEPT ![j] = "paused"]
          /\ Says(h, Result(j, "needs_sudo"))
       \/ /\ work' = [work EXCEPT ![j] = "running"]
          /\ Says(h, Event(j, "running"))
    /\ UNCHANGED <<wire, lost, hook, runnerVars, job, linkVars>>

\* Most modules emit their own success before they return it.
Claim(h, j) ==
    /\ link[h] = "up" /\ j \in Jobs(h) \ lost /\ work[j] = "running"
    /\ work' = [work EXCEPT ![j] = "claimed"]
    /\ Says(h, Event(j, "succeeded"))
    /\ UNCHANGED <<wire, lost, hook, runnerVars, job, linkVars>>

\* Execute returns, from a module that has said nothing too.  After a claim it is a
\* success; but the helper process can still fail, or be killed by the deadline.
Finish(h, j) ==
    /\ link[h] = "up" /\ j \in Jobs(h) \ lost
    /\ \E st \in Terminal :
          /\ \/ work[j] = "claimed" /\ st = "succeeded"
             \/ work[j] = "claimed" /\ st = "failed" /\ call[j].action \in Elevated
             \/ work[j] = "running" \/ (work[j] = "begun" /\ Free(h, j))
          /\ work' = [work EXCEPT ![j] = st]
          /\ Says(h, Result(j, st))
    /\ UNCHANGED <<wire, lost, hook, runnerVars, job, linkVars>>

\* Mutant of Handle: any CommandAck is taken for a rejection.
HandleAnyAck(h) ==
    LET m == Head(answers[h])
    IN  /\ link[h] = "up" /\ answers[h] # <<>> /\ hook[h] = NoJob
        /\ answers' = [answers EXCEPT ![h] = Tail(@)]
        /\ job' = Recorded(m.job, IF m.kind = "ack" THEN "failed" ELSE m.state)
        /\ hook' = IF m.kind = "result" /\ InRegistry(m.job)
                   THEN [hook EXCEPT ![h] = m.job] ELSE hook
        /\ UNCHANGED <<wire, work, lost, runnerVars, linkVars>>

\* hub.handle: an accepting ack changes nothing, an event or a result sets the
\* job's state, and a result then runs the hook on the stream's goroutine.
Handle(h) ==
    LET m == Head(answers[h])
    IN  /\ link[h] = "up" /\ answers[h] # <<>> /\ hook[h] = NoJob
        /\ answers' = [answers EXCEPT ![h] = Tail(@)]
        /\ job' = IF m.kind = "ack" THEN job ELSE Recorded(m.job, m.state)
        /\ hook' = IF m.kind = "result" /\ InRegistry(m.job)
                   THEN [hook EXCEPT ![h] = m.job] ELSE hook
        /\ UNCHANGED <<wire, work, lost, runnerVars, linkVars>>

\* The result hook: a job that needs a sudo password raises a prompt.
ResultHook(h) ==
    /\ hook[h] # NoJob
    /\ prompts' = IF job[hook[h]] = "needs_sudo" THEN prompts \cup {hook[h]} ELSE prompts
    /\ hook' = [hook EXCEPT ![h] = NoJob]
    /\ UNCHANGED <<pc, call, approvals, job, linkVars, wire, work, answers, lost>>

-----------------------------------------------------------------------------
\* A job the retention hour has passed over: the request that created it has
\* returned and nothing the associate said of it is still to be handled.
Aged(j) ==
    /\ pc[j] = "done"
    /\ j \in lost \/ work[j] \notin {"begun", "running", "claimed"}
    /\ \A h \in Hosts : hook[h] # j /\ \A m \in Range(answers[h]) : m.job # j

\* Mutant of Prunable: whatever is not queued or running is finished.
PrunableSettled ==
    {j \in Requests : job[j] \in Terminal \cup {"needs_sudo"} /\ Aged(j)}

\* jobs.Prune drops terminal jobs last updated before the retention hour.
Prunable == {j \in Requests : job[j] \in Terminal /\ Aged(j)}

Prune ==
    /\ Prunable # {}
    /\ job' = [j \in Requests |-> IF j \in Prunable THEN "pruned" ELSE job[j]]
    /\ UNCHANGED <<runnerVars, linkVars, flowVars>>

\* The manager restarts: state.json lists the hosts, everything else is lost.
Restart ==
    /\ restarts < MaxRestarts /\ restarts' = restarts + 1
    /\ listed' = {}
    /\ link' = [h \in Hosts |-> "down"]
    /\ pc' = [r \in Requests |-> IF pc[r] = "new" THEN "new" ELSE "done"]
    /\ approvals' = {} /\ prompts' = {}
    /\ job' = [r \in Requests |-> IF job[r] = "none" THEN "none" ELSE "pruned"]
    /\ lost' = lost \cup UNION {CutOff(h) : h \in Hosts}
    /\ wire' = [h \in Hosts |-> <<>>]
    /\ answers' = [h \in Hosts |-> <<>>]
    /\ hook' = [h \in Hosts |-> NoJob]
    /\ UNCHANGED <<known, call, work, breaks>>

RequestStep(r) ==
    \/ \E h \in Hosts, a \in Actions : Run(r, h, a)
    \/ /\ r \notin Scheduled
       /\ \E id \in Requests : \/ Confirm(r, id) \/ Reject(r, id)
                               \/ SubmitSudo(r, id) \/ CancelSudo(r, id)
    \/ Proceed(r) \/ Send(r) \/ Resume(r)

HostStep(h) ==
    \/ Register(h) \/ SetOnline(h) \/ StreamEnds(h) \/ RemoveHost(h)
    \/ Begin(h) \/ \E j \in Requests : Execute(h, j) \/ Claim(h, j) \/ Finish(h, j)
    \/ Handle(h) \/ ResultHook(h)

Next == \/ \E r \in Requests : RequestStep(r)
        \/ \E h \in Hosts : HostStep(h)
        \/ Prune
        \/ Restart

\* Requests and stream goroutines are scheduled; the associate works off what it
\* has accepted, every action having a timeout.  Nothing obliges a host to connect.
Fairness ==
    /\ \A r \in Requests : WF_vars(Proceed(r)) /\ WF_vars(Send(r)) /\ WF_vars(Resume(r))
    /\ \A h \in Hosts :
          /\ WF_vars(SetOnline(h)) /\ WF_vars(Begin(h))
          /\ WF_vars(Handle(h)) /\ WF_vars(ResultHook(h))
          /\ \A j \in Requests : WF_vars(Execute(h, j)) /\ WF_vars(Finish(h, j))

Spec == Init /\ [][Next]_vars /\ Fairness

-----------------------------------------------------------------------------
(* Properties *)

Messages == [job : Requests, kind : {"ack", "event", "result"},
             state : Terminal \cup Open]

TypeOK ==
    /\ known \subseteq Hosts /\ listed \subseteq Hosts
    /\ link \in [Hosts -> {"down", "registered", "up"}]
    /\ pc \in [Requests -> {"new", "read", "taken", "created", "done"}]
    /\ call \in [Requests -> Calls \cup {NoCall}]
    /\ \A r \in Requests : pc[r] \in {"read", "taken", "created"} => call[r] # NoCall
    /\ approvals \subseteq Requests /\ prompts \subseteq Requests
    /\ job \in [Requests -> Terminal \cup Open \cup {"none", "pruned"}]
    /\ wire \in [Hosts -> Seq(Requests)]
    /\ \A h \in Hosts : Len(wire[h]) <= BufferCap
    /\ work \in [Requests -> {"none", "begun", "paused", "running", "claimed"} \cup Terminal]
    /\ answers \in [Hosts -> Seq(Messages)]
    /\ lost \subseteq Requests
    /\ hook \in [Hosts -> Requests \cup {NoJob}]
    /\ breaks \in Nat /\ restarts \in Nat

Takers(id, ops) ==
    {r \in Requests : call[r] # NoCall /\ call[r].op \in ops /\ call[r].of = id}

\* An approval is confirmed or rejected by one request at most, a prompt answered
\* or cancelled by one at most, and what is still pending by none: two operators
\* (or a double click) never dispatch one approval twice.
ResolvedOnce ==
    \A id \in Requests : \A ops \in {{"confirm", "reject"}, {"submit", "cancel"}} :
        /\ \A r, s \in Takers(id, ops) : r = s
        /\ id \in (IF "confirm" \in ops THEN approvals ELSE prompts) => Takers(id, ops) = {}

Reached(r) == work[r] # "none" \/ \E h \in Hosts : r \in Range(wire[h])

\* A job that goes ahead without the host's manifest having been listed is checked
\* against nothing; every other job of a destructive action on its way to a host was
\* opted in when scheduled, or is what a taken approval or a paused job held.
Sanctioned(r) ==
    LET c == call[r] IN
    \/ c.op = "run" /\ r \in Scheduled
    \/ /\ c.op = "confirm" /\ c.of \notin approvals
       /\ call[c.of].op = "run" /\ call[c.of].ask
    \/ /\ c.op = "submit" /\ c.of \notin prompts /\ work[c.of] = "paused"

DestructiveIsSanctioned ==
    \A r \in Requests :
        Reached(r) /\ call[r].action \in Destructive /\ call[r].listed => Sanctioned(r)

\* A job the registry shows as finished is over: its command is not still queued for
\* the host, nor being executed there.  A failed dispatch never runs.
FinishedIsOver ==
    \A j \in Requests : job[j] \in Terminal =>
        /\ work[j] \notin {"begun", "running"}
        /\ \A h \in Hosts : j \notin Range(wire[h])

\* A pending prompt belongs to a job the registry still shows as paused, and a paused
\* job has a prompt, or the result hook about to raise it, or an operator who took it:
\* pruning, restarts and late messages leave no prompt without its job.
PausedHasPrompt ==
    /\ \A j \in prompts : job[j] = "needs_sudo"
    /\ \A j \in Requests : job[j] = "needs_sudo" =>
          \/ j \in prompts
          \/ \E h \in Hosts : hook[h] = j
          \/ Takers(j, {"submit", "cancel"}) # {}

\* A finished job is never shown as queued, running or paused again: no message and
\* no step of a request overtakes another of the same job.
NoResurrection ==
    [][\A j \in Requests : job[j] \in Terminal => job'[j] \in Terminal \cup {"pruned"}]_vars

\* A job whose command failed to be sent, or went down with its stream or the manager.
Dropped(j) == work[j] = "none" /\ (j \in lost \/ job[j] \in {"failed", "pruned"})

\* The associate's last word on a job has arrived: it has one, and nothing is on its way.
HasLastWord(j) ==
    /\ work[j] \in Terminal \cup {"paused"} /\ j \notin lost
    /\ \A h \in Hosts : \A m \in Range(answers[h]) : m.job # j

ShownAs(j) == CASE job[j] = "needs_sudo" -> "paused"
                [] job[j] = "pruned"     -> "forgotten"
                [] OTHER                 -> job[j]

FateOf(j) == IF Dropped(j) THEN "dropped" ELSE work[j]

LifeOf == INSTANCE JobLife WITH
    JobIds <- Requests,
    shown  <- [j \in Requests |-> ShownAs(j)],
    fate   <- [j \in Requests |-> FateOf(j)],
    heard  <- {j \in Requests : HasLastWord(j)}

\* Whatever requests, queues, streams, restarts and pruning do, a job lives a JobLife:
\* its story is shown in order and never ahead of its host, it ends on the host's last
\* word, and one that was refused never happens.
ImplementsJobLife == LifeOf!Spec

\* A dispatched job settles, unless its stream breaks: with the stream up, no command
\* and no answer is forgotten between the queue, the associate and the registry.
DispatchedSettles ==
    \A j \in Requests :
        job[j] \in {"queued", "running"} ~> (job[j] \notin {"queued", "running"} \/ j \in lost)

\* The claim of API.md that destructive actions require confirmation when run manually.
DestructiveNeedsConfirmation ==
    \A r \in Requests : Reached(r) /\ call[r].action \in Destructive => Sanctioned(r)
=============================================================================
