# LabAssistant: a TLA+ model

LabAssistant manages the machines of a small lab. One *manager* (Go, under `manager/`)
serves a dashboard and keeps a bidirectional gRPC stream to an *associate* on every host
(`associate/`), which runs actions of its *modules* (`modules/duo`, `qup`, `sys`) and
reports what they do. This directory models the parts of it where several goroutines,
streams and machines share state: TLA+ modules written from the Go source, TLC
configurations that check them on small instances, and theorems checked by TLAPS.

Source paths below are relative to `src/`. `PROJECT.json` maps every definition to the
lines it stands for, and lists runs, mutants, hazards, findings and theorems.

## 1. Inventory

### The system's parts

| part | state | operations | interacts with |
|---|---|---|---|
| hub (`manager/hub/hub.go`) | `conns`: host -> live stream; a 16-frame send channel per stream; `cfg`, the session config; `logs`, open log streams | `serveStream` (handshake, receive loop), `sendLoop`, `register`, `unregister`, `sendTo`, `broadcast`, `SetIntervals`, `Dispatch`, log streams | called by HTTP handlers, scheduler and certificate loop; calls registry and jobs from stream goroutines |
| host registry (`manager/state/state.go`) | hosts with status, modules (manifest and last status), health, certificate serial; the file of the persistent part | `Add`, `Remove`, `Edit`, `SetOnline`, `SetOffline`, `SetModuleStatus`, `SetHealth` | every manager component; publishes `host_updated` |
| actions runner (`manager/actions`) | pending approvals and sudo prompts, in memory | `Run`, `Confirm`, `Reject`, `SudoRequired`, `SubmitSudo`, `CancelSudo` | registry (manifest), hub (dispatch), jobs, app.go's result hook |
| job registry (`manager/jobs`) | jobs with state, result, event log; a result hook | `Create`, `AddEvent`, `SetResult`, `Subscribe`, `Prune` | runner, hub, quartermaster, SSE |
| associate session (`associate/`) | per stream: `active` jobs, `cmds` and `outbox` channels, a context, `lastStatus`, log followers | receive loop, command worker, read-only goroutines, heartbeat and status loops, send loop | modules, the elevated helper, the manager |
| event feed (`manager/events`, `manager/api/sse.go`, `dashboard/js/core.js`) | sequence number, a ring of 512 messages, subscriber channels of 32; a browser's last id | `Publish`, `Replay`, `Subscribe`; the SSE handler; reconnect and refresh | everything that changes publishes to it |
| scheduler (`manager/scheduler`) | tasks with next run and last outcome; their file | `tick`, `fire`, `Create`, `Update`, `Delete`, `RunNow`, `PruneHosts` | runner (pre-approved runs), registry |
| dialer (`manager/hub/dialer.go`) | running dial loops with their address | `Sync`, `dialLoop`, `stopAll` | registry, hub |
| accounts (`manager/api/auth.go`, `manager/settings`) | sessions in memory; the password hash, API tokens, intervals and their file | login, change of the password, logout, tokens; `manager setpass`, another process | hub (`SetIntervals`) |
| quartermaster (`manager/quartermaster`), certificate authority (`manager/ca`) | enrollments in progress; the serials issued and revoked; the certificate files | `Enroll`, `Revive`, `Upgrade`, `Uninstall`, rotation; `Issue`, `Revoke`, `LoadOrCreate`; backup and restore | registry, jobs, hub, SSH |
| auditor (`manager/auditor`) | the last entries, a hash chain, an append-only file | `Record`, `load`, `compact` | most components record into it |
| log streams (`manager/api/sse.go`, hub, `associate/handlers.go`) | a channel per reader in the hub, a follower per reader on the host | open, chunk, end, cancel | hub, session, duo |
| duo (`modules/duo`) | compose and env files with a `.bak`; the verdicts of the last checks for newer images | read, write with validation, check, update, follow a log | called by the session, partly in the elevated helper |
| qup, sys, elevated helper (`modules/*`, `internal/elevated`) | packages and processes of the host | `Execute`, `Status` | called by the session |
| dashboard, CLI, build, scripts | browser state | | HTTP API |

### What is hard about it

* **Replaced streams.** A host that reconnects has, for a while, two goroutines in
  `serveStream`. They share `conns`, the registry entry and, at the edges, a channel that
  one of them closes while a third goroutine is about to write to it.
* **Work that outlives its messenger.** Nothing is re-delivered: a command, a result or
  a status on a broken stream is gone, while the action on the host goes on.
* **Check, unlock, act.** The runner checks a copy of the host and dispatches later;
  `sendTo` looks up a channel and writes after the unlock; `sendStatus` records under a
  lock and sends after it.
* **Bounded queues everywhere.** 16 frames towards a host (refused when full), 16
  commands and 64 messages in a session (waiting when full), 32 events to a browser
  (dropped when full).
* **Once-only decisions** by several operators: an approval confirmed twice would run a
  destructive action twice.
* **Restarts.** Approvals, prompts, jobs, sessions and manifests live in memory only; a restart of the
  manager falls between any two of a scheduler's, an auditor's or an enrollment's steps.
* **Files written in place.** Certificates, the set of revoked serials and the hosts' compose files are
  truncated and filled, the audit log is appended to; only the registry, the tasks and the settings are replaced by a rename.
* **Copies that share memory.** A task is copied by value, the array behind its list of hosts is not.

### What makes each part correct

* hub: the HelloAck comes first; `conns` names exactly the stream whose channel is open;
  a stream removes only its own entry; an online host has a stream; intervals that were
  set reach every connected host; no call blocks.
* runner and jobs: approvals and prompts are resolved once; a destructive action reaches a host only
  if somebody sanctioned it; a job shown as finished is over and stays finished; a paused
  job can be answered; a dispatched job settles unless its stream breaks.
* session: each accepted job is answered in turn, a duplicate is turned down only while its job is in
  progress, no goroutine is left behind, no deadlock between its queues.
* status: whoever asks gets an answer; what the manager shows settles at the truth.
* event feed: a browser sees every change or is told that it missed some.
* scheduler: a slot is run once, not early, not later than its policy allows; a failed run stays visible.
* dialer: one loop per manager-dial host, at its current address.
* enrollment and certificates: only a host somebody asked to remove is refused, and one that was removed is.
* certificate files: the manager keeps the identity its hosts trust, however its start is cut short.
* accounts: a new password ends the sessions of the old one and survives a restart.
* auditor: the chain breaks nowhere but where an append failed.
* logs: the lines reach their reader in order; a log nobody reads is not followed.
* duo: a save that is alone with its file never loses the version it replaces; an update that is shown can be installed.

## 2. The modules

| module | of | composed with |
|---|---|---|
| `HubStreams` | streams of the hub, liveness in the registry, senders, enrollment and removal, intervals, restarts | `HubStreamsMC` (two hosts), `HubStreamsProofs` |
| `ActionRunner` | requests to the runner, job registry, dispatch over one stream per host, what the associate says of a job, result hook, pruning, restarts | `ActionRunnerMC`, `ActionRunnerProofs` |
| `JobLife` | what an operator is promised of a job: the abstract specification | instantiated by `ActionRunner` |
| `AssociateSession` | receive loop, worker, read-only goroutines and send loop of sessions | `AssociateSessionMC`, `AssociateSessionProofs` |
| `StatusSync` | publishers of a module's status, `sendStatus`, the pipe, the manager's copy | `StatusSyncMC`, `StatusSyncProofs` |
| `EventFeed` | broker, SSE handler, a page's event source, refresh and awaited job | `EventFeedMC`, `EventFeedProofs` |
| `Alarm` | what a scheduled task promises: the abstract specification | instantiated by `Scheduler` |
| `Scheduler` | a task, its ticks, runs, edits and file, the hosts it names, restarts | `ManagerParts`, `SchedulerProofs` |
| `Enrollment` | host records, certificates, jobs of the quartermaster, the machine they work on | `ManagerParts`, `EnrollmentProofs`, `ManagerPartsProofs` |
| `Dialer` | `Sync` against a changing registry, dial loops | `ManagerParts`, `ManagerPartsProofs` |
| `LogStreams` | a log from the follower on the host to the reader's channel | `ManagerParts`, `ManagerPartsProofs` |
| `StackFiles` | saves of a compose and an env file | `ManagerParts`, `ManagerPartsProofs` |
| `ImageUpdates` | checks for newer images beside updates | `ManagerParts`, `ManagerPartsProofs` |
| `Accounts` | sign-in, sessions, change of the password, tokens, the settings file | `ManagerParts`, `ManagerPartsProofs` |
| `AuditLog` | the chain of entries and its file | `ManagerParts`, `ManagerPartsProofs` |
| `CertFiles` | the manager's certificates and keys on disk, backup and restore | `ManagerParts`, `ManagerPartsProofs` |
| `ManagerParts` | the nine modules above, side by side | `ManagerPartsMC`, `SchedulerProofs`, `ManagerPartsProofs` |

They cut the system at its queues. `HubStreams` has several streams per host and frames
without content; `ActionRunner` has one stream per host and follows the content of job
messages through all three parties; `AssociateSession` has the session's goroutines that
`ActionRunner` sums up in `Begin`, `Execute`, `Claim` and `Finish`; `StatusSync` does for statuses
what `ActionRunner` does for jobs. `EventFeed` is what lies between the manager's state and the eyes of
an operator; it takes the state as a counter of changes.

The nine modules put together in `ManagerParts` interact with those five through calls that are inputs to them (a
removed host prunes the tasks, a rotation is pushed down a stream, a scheduled run is a request to the runner), and
not with one another in the ways they model. `ManagerParts` therefore picks one of them in its initial state (`part`)
and lets it run while the others rest: its state space is the sum of theirs, which one run
checks.

### HubStreams

A step is one critical section of `h.mu`, one channel operation or one registry update.

* `pc[s]` is the position of stream `s` in `serveStream`: `new`, `accepted` (Hello checked),
  `registered` (after `register`), `serving` (after `SetOnline`), `ended` (`Recv` failed),
  `unlisted` (first half of `unregister`), `done`. `conns`, `send[s]`, `closed` and `cfg` are the
  variables of the code; `status` is the registry's; `saved` is the settings file.
* A sender is a goroutine in `Dispatch` or `broadcast`: `Lookup` is the locked part of `sendTo`,
  `Push` its select, `PushPanics` the same when the channel was closed in between. A panic
  in an HTTP handler is recovered by net/http; in any other goroutine it is a `Restart`.
* `SendFrame` joins the send loop and the associate's reaction to the frame: the only
  thing kept of the associate is whether it has had its HelloAck and which config it
  applies. A closed channel yields its frames, then empty ones.
* `Hello` can only be sent with the certificate of a host that was once enrolled.

### ActionRunner and JobLife

* A request creates at most one approval and one job, so both carry the request's name.
  `pc[r]` is its position: `read` (a copy of the host taken), `taken` (approval or prompt
  taken), `created` (job registered, not yet dispatched), `done`.
* `call[r].listed` records whether the copy of the host held a manifest: before `SetOnline`
  it does not, and nothing is declared destructive.
* `work[j]` is the associate's progress with a job; `answers[h]` are its messages in stream
  order; `hook[h]` is the result hook running on the stream's goroutine, between the change of
  the job's state and the new prompt.
* `lost` is history: jobs whose command or answer went down with a stream.
* `Aged` replaces the retention hour: a job is prunable once it is finished and no message of it
  is on its way. The code only waits an hour; the model has no clock and assumes that no message
  takes that long.
* `JobLife` knows of a job what the registry shows, what has become of it on its host, and whether its host has
  more to tell; nothing of approvals, queues, streams or messages. A job is shown as queued before its host knows of it, progress is shown
  once it is true and never after what follows it, the host's last word is shown from then on, and a job that was
  refused or lost never happens. `LifeOf` maps `ActionRunner` to it, every request to the job it creates: `FateOf` is the
  associate's progress, or `dropped` for what no host will ever begin; `HasLastWord` says that nothing of the job is on its way any more.
  `ImplementsJobLife` says that every step of `ActionRunner`, a broken stream or a restart included, is a step of that
  life for each job, or none. A restart forgets all jobs at once (`Crash`).

### AssociateSession

* `recv[s]` is the receive loop with the command in `hand[s]`: accepting it (`ack`),
  turning it down (`reject`), waiting for room in `cmds` (`queue`). `running[s]` are the jobs in
  `runCommand`; `active[s]` is `s.active`; `outbox[s]` the channel the send loop empties.
* `Post` is `session.send`: it waits for room, or gives up when the context is cancelled. With
  both possible either may happen, as in Go's `select`.
* `DialsHome` tells the two connection modes apart: a dial-home associate starts a session when
  the previous one has *returned*; its worker need not have.
* Statuses, events and log chunks share the outbox with acknowledgements and results. They are left
  out: `OutCap` = 1 already makes every sender wait. The status published after a result goes with them: in the code a job leaves `active`
  when that status has been posted, in the model with the result.

### StatusSync

* A publisher reads (`Read`), swaps `lastStatus` under the mutex (`Swap`), and sends (`Send`), with
  everybody else in between. `Poller` alone leaves out what is unchanged.
* Statuses are numbered, and the payload of a status is its parity: a third status looks like the
  first, which is what deduplication by checksum can get wrong.
* `stray` holds what an ended stream has delivered and its goroutine has still to store.
* `turns` and `overtaken` are history: whether some status arrived out of the order of the swaps.

### EventFeed

* `seq`, `ring` and `chan` are the broker's and the subscription's; `last` is the variable of the handler, whose
  position is `handler`. The lag ticker's check is three steps, because it reads the length of the channel, the
  broker's position and that position again.
* `es`, `lastId` and `wire` are the browser's `EventSource` and the frames under way. A broken connection takes the
  frames and the handler with it. A frame without an id (a resync) leaves `lastId` alone.
* `pass`, `queued` and `soon` are `_refreshing`, `_refreshQueued` and the debounce timer. A pass reads ten endpoints one
  after the other; the model follows one of those whose failure the page reports, and `truth` and `view` are the numbers of
  its changes at the manager and on screen. The others are left out: the tokens' failure is quiet, the audit log's is reported on its own
  page, and the settings are not read while they are edited (`core.js:199-201`).
* The page's one job: `card` is its record, `waiting` its entry in `_jobWaiters`, `held` its end in
  `_pendingEvents`, which the page may refuse (`Hold`: it holds what came early for 50 jobs at most, other tabs' jobs among them) or
  drop (`HeldExpires`: what is older than 30 s, when another job's event comes). `asked` is `reconcileJobs` waiting for its answer.
* `wanted`, `told` and `passed` are history. `passed` collects what the page may have missed without being told, in
  the five ways the code leaves open: a connection without a `Last-Event-ID` (`sse.go:39`; the initial one races
  with the refresh of `start`, a later one follows a connection that broke before its first message); a message
  published between the lag check's two reads of the position (`sse.go:65-68`); a job store that could not
  be read (`jobs.js:182-185`); an early end that was not held or not kept (`jobs.js:113-116`); and the end of a job that was dropped, when the resync for it arrives before the answer
  to the request that started it: `reconcileJobs` finds nobody waiting, and `watchJob` then waits for an
  end that will not come again (until the next resync or reconnection). Without any one of these five
  exceptions TLC finds `ViewCatchesUp` or `AwaitedSettles` violated.

### Scheduler and Alarm

* One task, because tasks share nothing but a lock, a file and the cap. `now` is the clock, `task` and `file` the stored
  task and `tasks.json`; `fires[f]` is a `go s.fire(copy)`, at host `at` of its list.
* A tick is one of `TickRearm`, `TickSkip`, `TickRun`: each computes the next slot and saves before anything is
  dispatched. `NextHost`, `Dispatch`, `Record`, `FinishFire` are the run.
* A slice is the identity of its array, what the array holds and how much of it is visible. `DecodeEdit` is the API
  handler up to its validation: `json.Decode` writes into the array it finds, which the stored task and the runs under
  way share. `Fresh` is an array nobody has; there is always one, because `Arrays` has more of them than runs, the stored
  list and an edit can hold (an assumption on the bound, not on the code). `Filter` is the loop of `PruneHosts`.
* `Restart` is `Load` followed by the pruning against the registry; `seen` are the hosts whose manifest is
  known, none after a restart.
* `Alarm` knows an instant it is armed for, a policy and the last instant it rang for; it rings at most once for
  an instant, no sooner and no later than its policy allows. `TheAlarm` maps a deleted task to a disarmed alarm;
  `ImplementsAlarm` says that every step of `Scheduler`, restarts included, is a step of the alarm or a stutter.

### Enrollment

* A machine and the host records it has been given: enrolling again makes another record. Certificates are serials in the
  order of issue; `owner` names the host each is for.
* `worker[w]` is the goroutine of a job or a request with the copy of the host it began with, at a position of its
  function; `stage` is the one staging directory all of them upload to; `installed`, `proc` and `conn` are the serial in the
  bundle, in the running associate and on its stream, which may all differ.
* `SystemdRegister` and `OpenrcRegister` are the two service managers: the first leaves a running associate alone.
* `asked` and `excused` are history: removals asked for, and serials whose revocation a crash, a torn file or a rotation
  under way has lost.

### Dialer

* A change of the registry and the `Sync` its notification calls are two steps; `sync[s]` owes a `Sync`, or holds `d.mu` with
  the copy of the registry it read. `active[h]` is the loop `d.active` has for the host, `loops[h]` all that were ever started.

### LogStreams

* `down` and `up` are the messages on the stream, `lookedUp` what `handle` holds between the lookup of the channel and the
  send; `Panic` is the send on a channel closed in between, which ends the manager. `stuck` is a follower whose
  scanner has given up on a long line while docker goes on writing.
* `Lines(r)` is what the manager has of a log: sent to the browser, in the channel, between the lookup and the send. `LogInOrder`
  compares it with the chunks on the stream by their places.
* `refused` is history: readers whose stop could not be queued or was lost.

### StackFiles

* The saves are numbered; `save[s].pc` is a save's position in `writeCompose` or `writeEnvAt`, or its result. Truncating and
  filling are two steps, and the helper may be killed between any two. A content stands for its sum; what an editor
  sends as base is what it opened, or nothing.
* `worker` is the save that the session's worker waits for. A worker runs one save at a time, but `LeaveBehind` (the session
  ends, or the command times out) frees it while the helper goes on: only sudo is ended with the context (`elevated.go:111`). So saves
  of one file may overlap. Two that have truncated the same file and not yet filled it leave either content or a mixture
  (`mixed`, `Filled`).
* `sole` is history: no other save of the file was under way when this one began, and nobody has written it since, neither a
  later save nor an editor on the host. `SavesKeepEdits` is about these saves. It cannot be about all: TLC shows how a helper left behind, which has
  read the file and is still validating, overwrites what the next session's save has left, and the `.bak` of that save with its own
  old copy. The saved version is then in neither, with no edit made on the host. Without helpers left behind no two saves overlap.

### ImageUpdates

* A digest is the number of the publication. A check reads the local digest of an image, then the registry's, and merges
  what it found when it has ended; updates run beside it. `left` are the images of helpers left behind, which pull after
  their update was reported as failed. `overtaken` is history: verdicts an update has overtaken.

### Accounts

* The password is compared and hashed outside the lock (`BeginChange`), swapped in if the hash is still the compared one
  (`Swap`), and the other sessions are dropped in a third step (`DropOthers`). A save may fail. `setpass` is another process
  that loads, asks and saves.
* `bornUnder`, `late` and `setpass` are history: the hash a session goes back to, logins that overlapped a change, and
  whether `setpass` has run since the start.

### AuditLog

* An entry is its number and the number it names as its predecessor. `load` passes over a line that does not parse wherever it
  stands, so `file` holds the entries on lines that do and `torn` counts the others.
* `end` is what the last append left: a line with its end, one cut short (`cut`), or an entry without its last byte (`bare`). The
  next entry continues a line that has no end; run together with a bare entry, both are lost (`Swallowed`).

### CertFiles

* Three pairs of files, loaded or generated in order at the start, each written in place, the manager stopping between any two
  steps. `import` are the files of a backup still to be written, in any order. `pinned` is the CA the manager first ran with, `doubt`
  the faults that cost it.
* `Whole` tells an export that fits together from one made of what an import cut short had left. Importing the second later
  brings its mismatch back, so `IdentityHolds` excepts it.

## 3. The runs

| run | question | instance | distinct states |
|---|---|---|---|
| `hub_streams` | safety of registration, liveness records and config delivery | 2 hosts, 3 streams (two of one host), 1 administrator, 2 configs, queue of 2, 1 restart | 3.6 million |
| `hub_liveness` | handshakes and calls complete; types | 1 host entering by enrollment, 2 streams, 2 senders | 0.16 million |
| `hub_stale_offline` | *violated*: a served host is not shown offline | 1 host, 2 streams | until violated |
| `action_runner` | once-only, sanctioned, finished means over, prompts and paused jobs agree, and each job lives a `JobLife` | 3 manual requests, 1 destructive elevated action, 1 break, 1 restart, symmetry over requests | 1.3 million |
| `action_flow` | dispatched jobs settle | 1 manual and 1 scheduled request, 2 actions, 1 break | 0.35 million |
| `action_unasked` | *violated*: destructive actions need confirmation | as `action_flow` | until violated |
| `associate_session` | answers in turn, duplicates, no deadlock, no leak | 1 session, 4 jobs (one re-sent, one read-only), queues of 1 | 0.39 million |
| `associate_overlap` | *violated*: one mutation per host | 2 sessions, 2 jobs | until violated |
| `status_sync` | answers, and convergence as long as nothing is overtaken | 2 requests, 2 changes, 2 sessions, pipe of 1 | 0.13 million |
| `status_stale` | *violated*: convergence | 1 request, 2 changes, 1 session | until violated |
| `event_feed` | no duplicates, fresh refreshes, page and awaited job catch up | ring and channel of 1, 2 changes and 1 job, 1 fault (drop, failed read or restart) | 0.53 million |
| `manager_parts` | the promises of the nine smaller components, and that a task implements its alarm | see below, one component at a time | 1.5 million |

**Bounds.** `MaxCalls`, `MaxRestarts`, `MaxBreaks`, `MaxChanges` and `MaxSessions` bound what would go on
for ever; streams, requests, sessions and jobs are each used once. Queue capacities are cut
from 16, 16 and 64 to 1 or 2, which makes full queues frequent: a queue with one place
already has the states empty, full and refused or waiting. Two places in the hub's channel leave
room for a frame behind the HelloAck. A broadcast that meets a full queue is not among what `hub_streams` reaches for `ConfigDelivered`, with
one administrator and that queue; that case is covered by its theorem. Two streams of a host are what a replacement
takes, a third of another host is there for broadcasts. Three requests let two operators resolve one
approval and one of them be paused again. Four jobs fill the session's worker, queue
and hand at once. Two changes are the fewest after which a payload returns. In the feed two changes and the end of
a job are three messages, the fewest with one seen, one dropped and one after it; a ring of one then no longer covers
what a page missed. One fault shows each recovery path; with two of them the safety properties were checked as
well (1.6 million states).

In `manager_parts`, the scheduler has one task of up to two hosts, slots two instants apart, four instants, one edit or manual run,
one removal and one restart: enough for an edit or a removal while a run is at its first host, for a second run beside
it, and for a restart between the save of a slot and its run. Enrollment has one machine, two records (one that dials home, one
that is dialed), two jobs at a time and three in all, three certificates: a machine enrolled twice and a rotation
while it is removed. The dialer has one host (hosts are independent in it), two addresses, three changes and as many
concurrent Syncs. Two readers share a stream; a channel of one line is full while the next one arrives. One editor, two contents (one
of them invalid) and two saves give a save over another, or one beside a helper left behind; a second editor would act as an edit outside does.
`MaxCuts` counts the helpers killed or left behind and the edits on the host. With three saves of one file the invariants
were checked as well (0.5 million states). One image, checked
twice at once. Two requests and two passwords, three hashes: two changes at once, and one after another. The
audit log keeps two entries, and records seven: a file of more than twice `Keep` lines is compacted. Seven
key pairs let each of the three be generated twice, and five stops leave room for an import cut short, an export of what it
left, and its import on a manager installed anew.

Because every stream, request or job is used up in the end, the runs do not check for deadlock;
that nothing waits for ever is stated as liveness (`CallsReturn`, `WindsDown`, `AcceptedIsAnswered`).

**Fairness.** Weak fairness for the steps of goroutines only: the Go scheduler runs whoever
can run, a `select` with two ready cases takes each of them sooner or later, and a mutex is released.
`Finish` and `Report` are fair because every action has a timeout after which
`Execute` returns. On the page, timers fire, frames that have been sent arrive and requests are answered unless the
connection breaks. `ManagerParts` states no fairness: its properties are
safety properties. Nothing is assumed of the environment: hosts need not connect, streams need not
end, statuses need not change, operators need not answer.

**Mutants.** Every property of a passing run has a mutant, a plausible bug in the code it is
about, under which TLC finds the property violated. They stand before the definition they mutate.

## 4. Findings

Each is the counterexample of a run that expects a violation; `PROJECT.json` quotes the claim.

1. `hub_stale_offline`: `unregister` removes only its own entry from `conns` but marks the host
   offline in any case (`hub.go:300`). After a quick reconnection the host stays listed offline
   although its stream is served.
2. `action_unasked`: a host is connected from `register` on, but its manifest is listed only by
   `SetOnline`. A destructive action run in between is dispatched without an approval.
3. `associate_overlap`: the worker that serializes mutating actions belongs to the session, not to the
   associate. An action that outlives its session runs beside the first of the next. That is all that can go
   wrong: `MutationsTakeTurns` (section 5) proves that a session runs its mutations one at a time, and that where the associate dials,
   two sessions mutate at once only if one of them is over.
4. `status_stale`: `sendStatus` remembers before it sends. A request's older status can overtake the
   poller's newer one, and the poller then drops the correction as unchanged.

### Observations

What the modules had to say of the code to be faithful to it, and what a property excepts for it. No document claims
otherwise, so none of these is a run that expects a violation.

* Scheduler. The body of an update, even of one that is then refused, is decoded into the list of the stored task and of runs
  that walk it (`tasks.go:42`). Manifests are not stored, so after a restart nothing is destructive to `validateTask` until
  the host connects (`tasks.go:89`). A success after a failure clears `LastError` while the status stays failed. An update
  drops a slot that is due and not yet taken.
* Enrollment. Enrolling a machine again leaves the running associate with its old certificate where the service manager is
  systemd (`ssh.go:452`). SSH jobs share one staging directory (`ssh.go:180`, `437`): one job may install what another has
  uploaded. An uninstall of an old record tears down whatever runs on the machine (`quartermaster.go:320`). It revokes
  the serial of the copy it started with, so a rotation meanwhile leaves one unrevoked (`quartermaster.go:333`), and so does a
  crash between `Remove` and `Revoke` (`hosts_write.go:199-204`). A torn `revoked.json` is read as an empty set
  (`ca.go:140`). The bundle is rewritten in place (`bundle.go:48`). A manager that dials does not ask whether a
  certificate is revoked.
* Accounts. A login that overlaps a change of the password keeps its session (`auth.go:136`). `setpass` overwrites what the
  manager has saved while it asked, and the manager's next save overwrites what `setpass` wrote (`main.go:122-145`).
  A revoked token whose save failed is back after a restart (`settings.go:263`).
* Certificate files. A missing CA key regenerates the CA (`ca.go:241-252`); the CA's key is not compared with its certificate. A
  backup lacks the pair the manager dials with and the revocations; a restore writes file by file, in no order
  (`backup.go:54`).
* Auditor. An entry cut short swallows the one after it (`auditor.go:116`). A backup restored under a running manager replaces `audit.log` while
  the auditor goes on from the entries in memory (`backup.go:54-70`): the next entry then names one that is not there. `AuditLog` has no
  restore, and `ChainHolds` does not speak of one.
* Event feed. The page refuses the early end of a job when it holds what came for 50 others, and drops it after 30 s (`jobs.js:113-116`); the
  promise of that job is settled only by the next resync or reconnection.
* Log streams. A chunk sent to a channel closed meanwhile panics (`hub.go:267`). The end of a log reaches no reader, nor
  does the loss of the stream (`hub.go:262`). After a line longer than 64 KB the scanner stops reading, docker writes
  into a pipe nobody empties and `cmd.Wait` does not return (`docker.go:548`; the same in `docker.go:606` for commands).
* Duo. A failed write of a compose file is not undone, and with no previous file an invalid one stays
  (`docker.go:272-286`). A check that overlaps an update raises the flag the update has cleared (`docker.go:416`).
  Two saves of a file overlap when a helper outlives its session or the timeout of its command, and a version that was saved may be lost from
  both the file and its `.bak` (`env.go:155-228`, `elevated.go:111`).
  `update` passes docker the first compose file and no project name (`docker.go:333-334`), where `composeUpArgs` (306-311) passes them all.

## 5. Proofs

TLAPS checks, for every value of the constants that satisfies the modules' assumptions:

`HubStreamsProofs`
* `TypeCorrect`: `Spec => []TypeOK`, with the capacity of the channels. One step per action. `TypeOK` is
  inductive because `register` writes to a channel nobody else has seen yet.
* `HelloAckIsFirst` and `OneOpenChannelPerHost`, from the inductive invariant `HubInv`. Neither property
  is inductive alone. That no frame overtakes a HelloAck needs that a channel somebody can reach (through
  `conns` or a sender's lookup) starts with the HelloAck until it is written (`AckHeads`), that
  only channels of registered streams can be reached (`Reach`), and that a stream that is not yet
  registered has an untouched channel (`Unregistered`). The lemma `ReachQuiet` settles the
  actions that touch none of this.
* `OnlineImpliesStream`: by induction with `TypeOK`: whatever takes a stream out of the states that end in
  `SetOffline` is that `SetOffline`.
* `OwnerUnlists`: the action property, from `TypeOK`.
* `ConfigIsDelivered`: `ConfigDelivered`, when there is one administrator (with two, the broadcasts of two changes may reach a host in
  either order, and the property does not hold). `ConfigInv` adds to `HubInv` what the frames of senders may be (`CarriersInv`) and the
  argument itself (`DeliveryInv`): a connected host whose channel lost nothing either ends up with `cfg` once it has read its
  channel (`EndsWith`: the last frame that is no request carries it, or there is none and it is applied), or the broadcast under way has still to
  come to it (`Due`). The lemmas `EndsAppend`, `EndsTail` and `EndsIsLast` say how `EndsWith` behaves at both ends of a channel.

`ActionRunnerProofs`
* `RunnerInvariant`: `Spec => []RunnerInv`, the inductive invariant all its other theorems follow from. None of
  the checked properties is inductive by itself; `RunnerInv` adds what ties the three parties together:
  `RequestOK` (a request that has yet to dispatch has nothing on its way), `CallOK` and `DecidedOnce` (what a
  decision takes was asked for and is off its list, and taken once), `WireOK` (a queued command is
  there once, on its own host's queue, with nothing come of it), `DispatchedOK` (what was queued or begun was not
  to be asked about), `MessagesOK` (the messages of a job come from its host, agree with the work
  behind them, and tell its story in order: a result is the last), `JobOK` (what the registry shows agrees with
  the work and with what is still to be said) and `PromptOK` (prompt, hook and answer exclude each other). The
  lemmas `KeptStep`, `GainedStep`, `ShrunkOrSpoken` and `JobMovesStep` say once, by cases over the
  actions, what any step keeps, adds, says and records; the conjuncts are then proved from them. TLC checked
  `RunnerInv` on the instances of `action_runner` and `action_flow` before it was proved.
* `RunnerTypeCorrect`, `DecisionsOnce`, `DestructiveSanctioned`, `FinishedJobsAreOver` and `PausesHavePrompts`: the
  invariants of the run `action_runner`. `NeverResurrected`: no step takes a finished job back.
* `JobsLive`: `ImplementsJobLife`, the refinement of `JobLife`. `RunnerInv` is not enough for it: `LifeInv` adds that a job
  shown as queued, and neither lost nor begun, is in its host's queue or about to be dispatched (`QueuedOK`); that what is lost is neither queued nor
  spoken of any more (`LostOK`); that a message is true of the work behind it, a claim of success excepted, which the
  module makes before it knows (`TruthOK`); that what is shown is true in the same sense (`ShownOK`); and that the last word, once it has
  arrived, is what is shown (`LastOK`). Each action is then one step of `JobLife` for the job it is about and none for the others; a broken
  stream drops the jobs of one host's queue together and a restart those of all, which is why `Next` of `JobLife` lets every job move at
  once. TLC checked `LifeInv` before it was proved.

`AssociateSessionProofs`
* `SessionTypeCorrect`: `Spec => []TypeOK`, with the capacities of `cmds` and `outbox`.
* `ActiveJobs`: `Spec => []ActiveIsInProgress`. As an equation between `active` and the places a job can be in, the
  property is not inductive: a job that is taken from one place might still be in another. `AtOnePlace` adds that a job in
  progress is in one of them, once. `LocalStep` and `OwnStep` separate what a step does to its own session from what it leaves
  of the others.
* `TurnsKept`: `Spec => []AnswersInTurn`. What has been heard of a job (`told`) says nothing of what it will be; `InTurn` says that there is a
  story which begins with what was heard, goes on through the messages in the outbox, each of them in its turn (`Story`, a
  function over the places of the outbox), and ends where the job is: accepted exactly if it is in progress. `StoryAppend` and
  `StoryTail` extend it when a message is posted and shorten it when one is sent.
* `MutationsTakeTurns`: `Spec => []MutationsInTurn`, what holds of the claim that the run `associate_overlap` refutes. `OneWorker` says that
  only mutations are queued and that a worker that is not busy has left none running; `OneAtATime` that an associate that dials
  has one session that has begun and not returned. No run lists it; TLC checked it with two sessions and a read-only job beside two mutations.

`StatusSyncProofs`
* `StatusTypes` and `StatusLast`: `Spec => []TypeOK` and `Spec => []LastIsShown`. `LastIsShown` speaks of quiet moments only; `StatusInv`
  says what leads there (`Remembered`): while nothing was overtaken, what the associate remembers is the payload of the status the manager will
  show in the end (`Latest`: that of the last publisher to have had the lock, else the last one in the pipe, else the one shown). A publisher
  has its turn once, has read a status by then, and a stream that is down has left no turn and nothing in the pipe.

`EventFeedProofs`
* `FeedTypes`: `Spec => []TypeOK`, with the sizes of the ring and of a subscriber's channel. `TrimmedFacts` and `NewerFacts` say what
  a publication leaves in the ring and what a replay copies from it.
* `FeedFresh`: `RefreshIsFresh`. `FreshInv` follows the pass: what it has asked for, and then read, is as new as the last request for a
  refresh, or another pass is queued behind it, or it has failed.
* `FeedOrder`: `NothingTwice`. `OrderInv` says that the ring holds the last messages without a gap (`RingInSequence`), and of a connection to the
  manager the page was started against (`Current`) that everything on the wire has a number up to `last`, later than what the page has
  seen, in order, and that what waits in the channel is covered by `last` or new to the page (`Accounted`, `Increasing`). What the replay and the
  channel both hold is told apart by `last` alone: that is why it has to be set to the end of the replay before the channel is read.

`SchedulerProofs` (about the scheduler in `ManagerParts`)
* `SchedulerIsAlarm`: `ImplementsAlarm`, the refinement of `Alarm`. Each step of the code is shown to be one of four things to the
  alarm (`AlarmStep`): it keeps slot and policy, arms it for an instant to come, disarms it, or rings; `SchedulerAlarms` maps these to steps
  of `Alarm`. `SchedulerInv` is what a restart needs: the file has the slot and the policy of the stored task (`SameAlarm`), and the
  slot is later than the last one that was run. The lists of hosts are left open: nothing the decoder writes into a shared array reaches the alarm.
* `SchedulerFailureStands`: the action property `FailureStands`, by the same case distinction (`Stands`).
* `SchedulerKeepsTypes`: the types of the scheduler. What could go wrong in them is a list that shows more hosts than its
  array has, since arrays are shared and decodes write into them: `SchedulerTypes` adds to `TypeOK` that
  the copy a PUT is decoding into, which becomes the task, is no such list (`Holds`). `SchedulerFresh` is a pigeonhole argument: an array that nobody holds exists
  (`SchedulerFinite` counts those that are held), so that `CHOOSE` in `Fresh` means something. `FilterTyped` says that what is kept of
  a list are entries of it, with `Least` to find the first place up to which a given number is kept.

`EnrollmentProofs`
* `EnrollmentCorrect`: `Spec => [](TypeOK /\ RevokedIsRemoved)`. `EnrollmentInv` says of every job that its serial was issued
  to its host and that it comes near a revocation only if it was asked to remove the host (`JobOK`), that the serial recorded for a host
  is one of its own (`RecordedOK`), and sharpens `RevokedIsRemoved`: whoever is still to revoke for a host that is gone will
  revoke the certificate recorded for it (`GoneOK`).

`ManagerPartsProofs` proves the invariants of the smaller components where the run checks them. `PartStep`: a step of `ManagerParts` is
a step of the part that was picked, or leaves its variables alone.
* `PartsKeepTypes`: `TypeOK`, of all nine together. It combines `SchedulerKeepsTypes` with the invariants below, most of which contain the types
  of their part, and adds those of the logs (`LogTyped`: a chunk that was looked up is a line, never the end of a log, so
  that a reader's channel holds lines only) and of the audit log (`AuditTyped`: the number the chain goes on from after a
  restart, and what is marked as lost, were recorded).
* `EnrollmentPart`: `EnrollmentCorrect`, carried over.
* `DialerPart`: `DialsTheListed`. `DialerInv` adds that one Sync holds `d.mu`, that the loop a host has goes on until the manager stops, and
  the reason why changes are never missed (`DialerSomeoneWill`): a Sync is owed, or the one that holds the lock has read the registry as it is, or
  the loops match it already. That is what breaks when the hosts are read before the lock is taken.
* `AccountsPart`: `SignedOut`. `AccountsInv` names who will end a session of an old password: the request that made the present one, which
  has carried its own session over (`AccountsStaleAwaitsSweeper`).
* `LogsPart`: `LogInOrder`. `LogInv` puts the lines of a log in one order from the browser to those the host has still to read (`LogSent`,
  `LogUnderWay`), and says that a request is under way before it is followed and ahead of its stop (`LogStopped`).
* `FilesPart`: `SavesKeepEdits`, however many helpers are left behind. `FileInv` says of a save that is alone with its file at which stage the
  file is still the one it found, and from which on the copy of it is there (`FileStage`): truncating waits for the copy. That it stays so rests on
  `FileAlone`: a live save beside a sole one is of another file, because whoever begins a save, or edits on the host, ends `sole` for the file.
* `ImagesPart`: `FlagIsNews`. `ImageInv` says that no verdict, read or merged, is ahead of the registry or of the host, and that one whose
  image the host still runs has seen the registry no earlier than it was pulled (`ImageReads`).
* `AuditPart`: `ChainHolds`. `AuditInv` says that what is not on file is lost or older than a whole window of what is (`AuditKept`); the window is one
  longer while the last entry lacks its end, because the next append may swallow it.
* `CertsPart`: `IdentityHolds`. `CertInv` says in which order the files come (`CertOrder`), what of a pair is in memory while it is written
  (`CertWriting`), what an import has written so far (`CertImporting`), and what the files and the pairs in memory agree on as
  long as no fault is in doubt (`CertFiled`, `CertLoaded`). The proof is what found the export of a mismatch (`Whole`): the property without it
  held within the bounds first chosen and fails with two more stops.

**Only model-checked.** Every invariant, action property and refinement that a passing run checks is proved. What is left to the runs is liveness:
`HandshakeCompletes`, `CallsReturn`, `DispatchedSettles`, `WindsDown`, `AcceptedIsAnswered`, `RequestIsAnswered`, `SettlesInOrder`, `ViewCatchesUp` and
`AwaitedSettles` rest on fairness, which is out of TLAPS' reach here; what the finite instances show of them is all
there is. `ConfigIsDelivered` is proved for one administrator, as the run has it. The assumptions (`HubAssumption`, `RunnerAssumption`,
`PartsAssumption`, ...) say what the constants are and nothing about behaviour; TLC evaluates them in every run.

## 6. Plan

Done: `HubStreams`, `ActionRunner`, `AssociateSession`, `StatusSync`, `EventFeed`, in the order of what matters most:
which stream speaks for a host, what is run on it, how the host runs it, what it reports, what a page sees of it. Then
what surrounds them, each with its faults: `Scheduler` (with `Alarm`), `Enrollment`, `Dialer`, `LogStreams`, `StackFiles`,
`ImageUpdates`, `Accounts`, `AuditLog`, `CertFiles`. Two abstract specifications, `Alarm` and `JobLife`, are
implemented by `Scheduler` and `ActionRunner`. Every safety property of the passing runs is proved.

Left, in this order:

1. Abstract specifications: what `ActionRunner` takes an associate to be (`Begin`, `Execute`, `Claim`, `Finish`), as a module
   that `AssociateSession` implements. `AnswersInTurn` and `MutationsInTurn` are the parts of it that are stated now. For `StatusSync` there is
   little to promise beyond `LastIsShown`: a status read earlier may be swapped in later, so that what is shown may go back.
2. Compositions: `Dialer` with `HubStreams`' registration for a host whose address changes; `Enrollment` with it for a host
   that is enrolled again while its old stream is up.
3. The installer of the manager's own machine (`quartermaster/local.go`).

## 7. Not modelled

* `quartermaster/local.go`, a child process that installs an associate beside the manager, with its prompt for a password;
  `knownhosts.go` (a file of host keys, read and replaced whole under one mutex) and `autherr.go` (the wording of login errors).
* `qup` and `sys`: they run a package manager or read `/proc` and keep no state. What they may emit and return is in
  `ActionRunner`'s `Execute`, `Claim` and `Finish`. `sys`' and the associate's health samples are overwritten by the next one.
* Versions, fingerprints, the stale-build check and the self-update scripts: pure functions of the source tree, and
  scripts that replace the running program.
* Configuration files read once at start, `modconfig` (read and replaced whole under one mutex), paths.
* A certificate of the CA that is there and cannot be read: the start fails (`ca.go:249`). An unreadable file of any other kind is taken for a
  missing one, in the code and in `CertFiles`.
* X.509: a certificate is who signed what for whom. Lifetimes are left out; the manager's own certificate, valid for a year, is not
  renewed by any code.
* The rendering of the dashboard and its form editors. Generated protocol code stands for the messages it carries.
* Host I/O (docker, package managers, SSH, sudo, `/proc`) is reduced to its outcomes where they matter and left out
  elsewhere. Except for the scheduler's clock, time is absent: timers are actions that may happen, and no property
  depends on how long something takes.
