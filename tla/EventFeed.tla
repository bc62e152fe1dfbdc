------------------------------ MODULE EventFeed ------------------------------
(***************************************************************************)
(* How a dashboard learns of a change: the broker (manager/events), the    *)
(* handler of /api/v1/events (manager/api/sse.go) and one page (dashboard/ *)
(* js/core.js, jobs.js), which re-reads the endpoints when it is told of a *)
(* change and waits for a job it has started.                              *)
(*                                                                         *)
(* A message only says that something has changed: what counts is when it  *)
(* comes.  Of the endpoints a refresh reads in turn the model has any one  *)
(* of those whose failure the page reports: not the tokens, which fail     *)
(* quietly, nor the settings while they are being edited.  Its content is  *)
(* the number of its changes.  The one job is the page's own.  The frames  *)
(* on the wire are in order and lost together with the connection; a       *)
(* handler ends with its connection.                                       *)
(***************************************************************************)
EXTENDS Naturals, Sequences

CONSTANTS
    RingSize,       \* messages the broker can replay
    ChanCap,        \* capacity of a subscriber's channel
    MaxMessages,    \* bound: changes
    MaxFaults       \* bound: connections that break, reads that fail, restarts

ASSUME FeedAssumption ==
    /\ RingSize \in Nat \ {0} /\ ChanCap \in Nat \ {0}
    /\ MaxMessages \in Nat /\ MaxFaults \in Nat

VARIABLES
    truth,      \* what the endpoint would answer
    job,        \* the page's job at the manager: none, live, over, gone
    unsent,     \* changes made whose message is still to be published
    seq, ring,  \* the broker's position and replay buffer
    chan,       \* the handler's subscription
    handler,    \* none, subscribed, loop, or where it is in the lag check
    last,       \* the last sequence number it accounts for
    told,       \* history: the broker's position when it last wrote a resync
    wire,       \* frames on their way to the page
    es,         \* the page's EventSource: closed, waiting to (re)connect, open
    lastId,     \* the EventSource's last event id
    view,       \* what the page shows of it
    pass,       \* its refresh: none, begun, asked the endpoint, read it
    reply,      \* the answer on its way
    queued, soon,   \* a refresh queued behind the running one; the debounce timer
    failed,     \* the last refresh could not read it
    wanted,     \* history: the endpoint's content when a refresh was last asked for
    card,       \* the page's record of the job: none, live, over
    waiting,    \* something on the page awaits the job
    held,       \* the job's end arrived before there was a record
    asked,      \* reconcileJobs has asked the job store
    instance,   \* the manager the page was started against
    stale,      \* the page knows that the manager restarted since
    passed,     \* history: what of the page it may have missed messages about, untold
    restarts,   \* the manager that runs now
    made, faults    \* bounds

managerVars == <<truth, job, unsent>>
brokerVars  == <<seq, ring>>
handlerVars == <<chan, handler, last, told>>
refreshVars == <<view, pass, reply, queued, failed, wanted>>
jobVars     == <<card, waiting, held, asked>>
pageVars    == <<refreshVars, soon, jobVars, instance, stale>>
linkVars    == <<wire, es, lastId>>
counts      == <<restarts, made, faults>>
vars == <<managerVars, brokerVars, handlerVars, pageVars, linkVars, passed, counts>>

Kinds == {"change", "over"}

Init ==
    /\ truth = 0 /\ job = "none" /\ unsent = [k \in Kinds |-> 0]
    /\ seq = 0 /\ ring = <<>>
    /\ chan = <<>> /\ handler = "none" /\ last = 0 /\ told = 0 /\ passed = {}
    /\ wire = <<>> /\ es = "closed" /\ lastId = 0
    /\ view = 0 /\ pass = "none" /\ reply = 0 /\ queued = FALSE /\ soon = FALSE
    /\ failed = FALSE /\ wanted = 0
    /\ card = "none" /\ waiting = FALSE /\ held = FALSE /\ asked = FALSE
    /\ instance = 0 /\ stale = FALSE
    /\ restarts = 0 /\ made = 0 /\ faults = 0

-----------------------------------------------------------------------------
(* The manager *)

\* Something the endpoint shows changes; the message follows when the lock is released.
Change ==
    /\ made < MaxMessages /\ made' = made + 1
    /\ truth' = truth + 1
    /\ unsent' = [unsent EXCEPT !["change"] = @ + 1]
    /\ UNCHANGED <<job, brokerVars, handlerVars, pageVars, linkVars, passed, restarts, faults>>

\* The job ends: AddEvent publishes after it has let go of the job.
JobEnds ==
    /\ job = "live" /\ job' = "over"
    /\ unsent' = [unsent EXCEPT !["over"] = @ + 1]
    /\ UNCHANGED <<truth, brokerVars, handlerVars, pageVars, linkVars, passed, counts>>

\* Mutant of Trimmed: the ring keeps one message more than it should.
TrimmedLate(s) == IF Len(s) > RingSize + 1 THEN Tail(s) ELSE s

Trimmed(s) == IF Len(s) > RingSize THEN Tail(s) ELSE s

\* Publish numbers the message, remembers it and offers it to the subscriber, whose
\* full channel drops it.
Publish(kind) ==
    LET m == [id |-> seq + 1, kind |-> kind] IN
    /\ unsent[kind] > 0
    /\ unsent' = [unsent EXCEPT ![kind] = @ - 1]
    /\ seq' = m.id
    /\ ring' = Trimmed(Append(ring, m))
    /\ chan' = IF handler # "none" /\ Len(chan) < ChanCap THEN Append(chan, m) ELSE chan
    /\ UNCHANGED <<truth, job, handler, last, told, pageVars, linkVars, passed, counts>>

-----------------------------------------------------------------------------
(* The handler of one connection *)

Resync == [id |-> 0, kind |-> "resync"]
Write(frames) == wire' = wire \o frames

\* What a page may miss with the messages so far.
Missed == {"view"} \cup (IF job \in {"over", "gone"} THEN {"job"} ELSE {})

\* The page connects: the subscription is taken before anything is replayed.  A page
\* without an id has no place to resume from: it is told nothing of what went before.
Subscribe ==
    /\ es = "waiting" /\ es' = "open"
    /\ handler' = "subscribed" /\ chan' = <<>> /\ last' = 0
    /\ passed' = IF lastId = 0 /\ seq > 0 THEN passed \cup Missed ELSE passed
    /\ UNCHANGED <<told, wire, lastId, managerVars, brokerVars, pageVars, counts>>

\* Replay covers every message after a sequence number or says that it does not.
Covered(n) == n >= seq \/ (ring # <<>> /\ ring[1].id <= n + 1)

\* Of the ring, which is in the order of the numbers, it then copies what comes after
\* the first k.
Older(n, k) == \A i \in 1 .. Len(ring) : ring[i].id > n <=> i > k

\* A page that comes back with an id is handed what it missed, or a resync.
Resume ==
    /\ handler = "subscribed" /\ handler' = "loop"
    /\ IF lastId = 0
       THEN UNCHANGED <<wire, last, told>>
       ELSE IF Covered(lastId)
       THEN \E k \in 0 .. Len(ring) :
            LET newer == SubSeq(ring, k + 1, Len(ring)) IN
            /\ Older(lastId, k)
            /\ Write(newer)
            /\ last' = IF newer = <<>> THEN 0 ELSE newer[Len(newer)].id
            /\ UNCHANGED told
       ELSE /\ Write(<<Resync>>)
            /\ told' = seq
            /\ UNCHANGED last
    /\ UNCHANGED <<chan, es, lastId, managerVars, brokerVars, pageVars, passed, counts>>

\* Mutant of Deliver: what the replay has handed over is written again.
DeliverAgain ==
    LET m == Head(chan) IN
    /\ handler = "loop" /\ chan # <<>> /\ chan' = Tail(chan)
    /\ Write(IF last # 0 /\ m.id # last + 1 THEN <<Resync, m>> ELSE <<m>>)
    /\ last' = m.id
    /\ UNCHANGED <<handler, told, es, lastId, managerVars, brokerVars, pageVars, passed, counts>>

\* Mutant of Deliver: a jump in the sequence goes unremarked.
DeliverBlindly ==
    LET m == Head(chan) IN
    /\ handler = "loop" /\ chan # <<>> /\ chan' = Tail(chan)
    /\ IF m.id <= last
       THEN UNCHANGED <<wire, last>>
       ELSE /\ Write(<<m>>)
            /\ last' = m.id
    /\ UNCHANGED <<handler, told, es, lastId, managerVars, brokerVars, pageVars, passed, counts>>

\* The next message: a duplicate of the replay is dropped, a jump in the sequence
\* is announced by a resync.
Deliver ==
    LET m    == Head(chan)
        jump == last # 0 /\ m.id # last + 1
    IN
    /\ handler = "loop" /\ chan # <<>> /\ chan' = Tail(chan)
    /\ IF m.id <= last
       THEN UNCHANGED <<wire, last>>
       ELSE /\ Write(IF jump THEN <<Resync, m>> ELSE <<m>>)
            /\ last' = m.id
    /\ UNCHANGED <<handler, told, es, lastId, managerVars, brokerVars, pageVars, passed, counts>>

\* Every few seconds, with an empty channel, the handler compares its position with
\* the broker's ...
LagLook ==
    /\ handler = "loop" /\ chan = <<>> /\ last # 0
    /\ handler' = "looked"
    /\ UNCHANGED <<chan, last, told, linkVars, managerVars, brokerVars,
                   pageVars, passed, counts>>

\* Mutant of LagCompare: there is always something newer to wait for.
LagOverlooked ==
    /\ handler = "looked" /\ handler' = "loop"
    /\ UNCHANGED <<chan, last, told, linkVars, managerVars, brokerVars, pageVars, passed, counts>>

\* ... tells the page that it is behind ...
LagCompare ==
    /\ handler = "looked"
    /\ IF seq > last
       THEN /\ handler' = "lagged" /\ Write(<<Resync>>)
            /\ told' = seq
       ELSE /\ handler' = "loop"
            /\ UNCHANGED <<wire, told>>
    /\ UNCHANGED <<chan, last, es, lastId, managerVars, brokerVars, pageVars, passed, counts>>

\* ... and then reads the broker's position again, which may have moved on.
LagMark ==
    /\ handler = "lagged" /\ handler' = "loop"
    /\ last' = seq
    /\ passed' = IF seq > told THEN passed \cup Missed ELSE passed
    /\ UNCHANGED <<chan, told, linkVars, managerVars, brokerVars, pageVars, counts>>

HandlerEnds ==
    /\ handler' = "none" /\ chan' = <<>> /\ last' = 0 /\ told' = 0
    /\ wire' = <<>>

-----------------------------------------------------------------------------
(* The page's refresh: single-flight, with one more queued behind the running one *)

Asked == wanted' = truth

StartPass == pass' = "begun" /\ failed' = FALSE /\ UNCHANGED queued

\* Mutant of Refresh: whoever asks during a pass is given that pass.
RefreshShared ==
    /\ Asked
    /\ IF pass = "none" THEN StartPass ELSE UNCHANGED <<pass, failed, queued>>

Refresh ==
    /\ Asked
    /\ IF pass = "none" THEN StartPass ELSE queued' = TRUE /\ UNCHANGED <<pass, failed>>

\* The endpoint answers with what there is now; the answer takes its time.
Fetch ==
    /\ pass = "begun" /\ pass' = "asked"
    /\ reply' = truth
    /\ UNCHANGED <<view, queued, failed, wanted, soon, jobVars, instance, stale, managerVars,
                   brokerVars, handlerVars, linkVars, passed, counts>>

Load ==
    /\ pass = "asked" /\ pass' = "read"
    /\ view' = reply /\ reply' = 0
    /\ UNCHANGED <<queued, failed, wanted, soon, jobVars, instance, stale, managerVars,
                   brokerVars, handlerVars, linkVars, passed, counts>>

\* What cannot be read keeps the value on screen, and the page says so.
LoadFails ==
    /\ pass \in {"begun", "asked"} /\ pass' = "read"
    /\ faults < MaxFaults /\ faults' = faults + 1
    /\ failed' = TRUE /\ reply' = 0
    /\ UNCHANGED <<view, queued, wanted, soon, jobVars, instance, stale, managerVars,
                   brokerVars, handlerVars, linkVars, passed, restarts, made>>

\* The pass is through with the other endpoints as well; one that was queued begins.
PassEnds ==
    /\ pass = "read"
    /\ IF queued
       THEN pass' = "begun" /\ queued' = FALSE /\ failed' = FALSE
       ELSE pass' = "none" /\ UNCHANGED <<queued, failed>>
    /\ UNCHANGED <<view, reply, wanted, soon, jobVars, instance, stale, managerVars,
                   brokerVars, handlerVars, linkVars, passed, counts>>

SoonFires ==
    /\ soon /\ soon' = FALSE
    /\ Refresh
    /\ UNCHANGED <<view, reply, jobVars, instance, stale, managerVars, brokerVars, handlerVars,
                   linkVars, passed, counts>>

-----------------------------------------------------------------------------
(* The page's job *)

\* The page posts an action: the manager has the job before the answer is back.
Post ==
    /\ es # "closed" /\ job = "none" /\ card = "none"
    /\ job' = "live"
    /\ UNCHANGED <<truth, unsent, brokerVars, handlerVars, pageVars, linkVars, passed, counts>>

\* The answer is there: watchJob makes a record, drains what has been held for it,
\* and waits for the end unless that was among it.
Watch ==
    /\ es # "closed" /\ job # "none" /\ card = "none"
    /\ card' = IF held THEN "over" ELSE "live"
    /\ waiting' = ~held
    /\ held' = FALSE
    /\ soon' = (soon \/ held)
    /\ UNCHANGED <<asked, refreshVars, instance, stale, managerVars, brokerVars, handlerVars,
                   linkVars, passed, counts>>

\* reconcileJobs asks the job store, if anything is awaited ...
Reconcile == asked' = (asked \/ waiting)

\* ... and what is over or gone settles whoever awaits it.  The answer is taken as it is
\* given: jobs do not come back, so one that is late is none the worse for it.
Reconciled ==
    /\ asked /\ asked' = FALSE
    /\ waiting' = (waiting /\ job = "live")
    /\ card' = IF waiting /\ job # "live" THEN "over" ELSE card
    /\ UNCHANGED <<held, refreshVars, soon, instance, stale, managerVars, brokerVars,
                   handlerVars, linkVars, passed, counts>>

ReconcileFails ==
    /\ asked /\ asked' = FALSE
    /\ faults < MaxFaults /\ faults' = faults + 1
    /\ passed' = passed \cup {"job"}
    /\ UNCHANGED <<card, waiting, held, refreshVars, soon, instance, stale, managerVars,
                   brokerVars, handlerVars, linkVars, restarts, made>>

-----------------------------------------------------------------------------
(* The page and its feed *)

\* start(): refresh and connect at the same time.
Start ==
    /\ es = "closed" /\ ~stale /\ es' = "waiting" /\ instance' = restarts
    /\ Refresh
    /\ UNCHANGED <<view, reply, soon, jobVars, stale, wire, lastId, managerVars, brokerVars,
                   handlerVars, passed, counts>>

\* A resync comes for nothing when the job is over and nothing awaits it yet.
MissedEnd == IF job \in {"over", "gone"} /\ card = "none" THEN {"job"} ELSE {}

\* onmessage: a resync re-reads everything ...
OnResync ==
    /\ Refresh /\ Reconcile /\ passed' = MissedEnd
    /\ UNCHANGED <<soon, card, waiting, held>>

\* bufferJobEvent: the end of a job without a record is held, unless the page holds what
\* came of as many other jobs as it may, those of other tabs among them.
Hold ==
    \/ held' = TRUE /\ UNCHANGED passed
    \/ ~held /\ held' = FALSE /\ passed' = passed \cup {"job"}

\* ... the end of a job settles who awaits it, or is held until there is a record ...
OnJobEnd ==
    /\ \/ /\ card # "none"
          /\ soon' = TRUE /\ card' = "over" /\ waiting' = FALSE
          /\ passed' = passed \ {"view"}
          /\ UNCHANGED held
       \/ card = "none" /\ Hold /\ UNCHANGED <<soon, card, waiting>>
    /\ UNCHANGED <<pass, queued, failed, wanted, asked>>

\* What another job's event finds held for longer than it is kept is dropped.
HeldExpires ==
    /\ held /\ held' = FALSE
    /\ passed' = passed \cup {"job"}
    /\ UNCHANGED <<card, waiting, asked, refreshVars, soon, instance, stale, managerVars,
                   brokerVars, handlerVars, linkVars, counts>>

\* ... and any other change asks for a refresh soon.
OnChange ==
    /\ soon' = TRUE /\ passed' = passed \ {"view"}
    /\ UNCHANGED <<pass, queued, failed, wanted, card, waiting, held, asked>>

\* The browser remembers the last id it was given.
Receive ==
    LET f == Head(wire) IN
    /\ es = "open" /\ wire # <<>> /\ wire' = Tail(wire)
    /\ lastId' = IF f.id = 0 THEN lastId ELSE f.id
    /\ \/ f.kind = "resync" /\ OnResync
       \/ f.kind = "over"   /\ OnJobEnd
       \/ f.kind = "change" /\ OnChange
    /\ UNCHANGED <<view, reply, instance, stale, es, managerVars, brokerVars, handlerVars, counts>>

\* The connection breaks: onerror reconciles, and the EventSource comes back with its
\* last id.
Drop ==
    /\ es = "open" /\ faults < MaxFaults /\ faults' = faults + 1
    /\ es' = "waiting" /\ HandlerEnds /\ Reconcile
    /\ UNCHANGED <<refreshVars, soon, card, waiting, held, instance, stale, lastId, managerVars,
                   brokerVars, passed, restarts, made>>

\* The manager restarts: its numbering and its jobs start over.
Restart ==
    /\ faults < MaxFaults /\ faults' = faults + 1 /\ restarts' = restarts + 1
    /\ seq' = 0 /\ ring' = <<>> /\ unsent' = [k \in Kinds |-> 0]
    /\ job' = IF job = "none" THEN "none" ELSE "gone"
    /\ IF es = "open"
       THEN es' = "waiting" /\ HandlerEnds /\ Reconcile
       ELSE UNCHANGED <<es, wire, handlerVars, asked>>
    /\ UNCHANGED <<truth, refreshVars, soon, card, waiting, held, instance, stale, lastId,
                   passed, made>>

\* checkInstance finds another manager than the one the page was started against: the
\* page closes its feed and says that it is out of date.
CheckInstance ==
    /\ es # "closed" /\ restarts # instance
    /\ stale' = TRUE /\ es' = "closed" /\ soon' = FALSE /\ HandlerEnds
    /\ UNCHANGED <<refreshVars, jobVars, instance, lastId, managerVars, brokerVars, passed, counts>>

ManagerStep == Change \/ JobEnds \/ \E kind \in Kinds : Publish(kind)

HandlerStep == Subscribe \/ Resume \/ Deliver \/ LagLook \/ LagCompare \/ LagMark

PageStep == \/ Start \/ Receive \/ SoonFires \/ Fetch \/ Load \/ LoadFails \/ PassEnds
            \/ Post \/ Watch \/ HeldExpires \/ Reconciled \/ ReconcileFails \/ CheckInstance

Next == ManagerStep \/ HandlerStep \/ PageStep \/ Drop \/ Restart

\* Goroutines run, frames arrive, timers fire and requests are answered.  Nothing
\* obliges the manager to change or the connection to hold.
Fairness ==
    /\ \A kind \in Kinds : WF_vars(Publish(kind))
    /\ WF_vars(Subscribe) /\ WF_vars(Resume) /\ WF_vars(Deliver)
    /\ WF_vars(LagLook) /\ WF_vars(LagCompare) /\ WF_vars(LagMark)
    /\ WF_vars(Receive) /\ WF_vars(SoonFires) /\ WF_vars(Fetch) /\ WF_vars(Load) /\ WF_vars(PassEnds)
    /\ WF_vars(Watch) /\ WF_vars(Reconciled) /\ WF_vars(CheckInstance)

Spec == Init /\ [][Next]_vars /\ Fairness

-----------------------------------------------------------------------------
(* Properties *)

Messages == [id : Nat \ {0}, kind : Kinds]
Frames   == Messages \cup {Resync}

TypeOK ==
    /\ truth \in Nat /\ view \in Nat /\ wanted \in Nat
    /\ job \in {"none", "live", "over", "gone"} /\ unsent \in [Kinds -> Nat]
    /\ seq \in Nat /\ ring \in Seq(Messages) /\ Len(ring) <= RingSize
    /\ chan \in Seq(Messages) /\ Len(chan) <= ChanCap
    /\ handler \in {"none", "subscribed", "loop", "looked", "lagged"}
    /\ last \in Nat /\ told \in Nat
    /\ wire \in Seq(Frames)
    /\ es \in {"closed", "waiting", "open"} /\ lastId \in Nat
    /\ pass \in {"none", "begun", "asked", "read"} /\ reply \in Nat
    /\ queued \in BOOLEAN /\ soon \in BOOLEAN /\ failed \in BOOLEAN
    /\ card \in {"none", "live", "over"} /\ waiting \in BOOLEAN /\ held \in BOOLEAN
    /\ asked \in BOOLEAN
    /\ instance \in Nat /\ stale \in BOOLEAN /\ passed \subseteq {"view", "job"}
    /\ restarts \in Nat /\ made \in Nat /\ faults \in Nat

\* A page is never handed a message twice or out of order, however the replay of a
\* reconnection and the live channel overlap.
NothingTwice ==
    es = "open" /\ instance = restarts =>
        \A k \in 1 .. Len(wire) : wire[k].id # 0 =>
            /\ lastId < wire[k].id
            /\ \A i \in 1 .. k - 1 : wire[i].id < wire[k].id

\* When no refresh is running or queued, what the page shows is no older than the moment
\* anybody last asked for a refresh (and changes in the meantime are on their way), unless
\* it could not be read.
RefreshIsFresh == pass = "none" => view >= wanted \/ failed

\* Whatever changes, an open page comes to show it, or says that it could not read it or
\* that the manager restarted; the exception is what went before a connection without an
\* id, and what is published between the lag check's two reads of the broker's position.
ViewCatchesUp ==
    (es # "closed" /\ view # truth) ~>
        \/ view = truth \/ (pass = "none" /\ failed)
        \/ stale \/ "view" \in passed

\* Nobody on the page waits for ever for a job that is over, through lost connections,
\* dropped messages and ends that arrive before the job has a record; the exceptions are
\* those of ViewCatchesUp, a job store that could not be read, and an end that was lost
\* before watchJob was there to await it: by the feed (a resync then reconciles nothing), or
\* by the page, which holds no more than so many jobs and none for long.
AwaitedSettles ==
    (waiting /\ job \in {"over", "gone"}) ~> (~waiting \/ stale \/ "job" \in passed)
=============================================================================
