----------------------------- MODULE HubStreams -----------------------------
(***************************************************************************)
(* The manager's hub (manager/hub/hub.go) and the liveness it records in   *)
(* the host registry (manager/state/state.go).                             *)
(*                                                                         *)
(* One stream is one accepted (dial-home) or dialed (manager-dial) gRPC    *)
(* connection to a host, served by its own goroutine.  Each stream owns a  *)
(* buffered send channel; the hub's map conns names, per host, the stream  *)
(* whose channel is written to.  Senders are the goroutines that call      *)
(* sendTo: HTTP handlers, the scheduler, the certificate rotation loop.    *)
(* A step is what the code does between two points where another goroutine *)
(* can run: one critical section of h.mu, one channel operation, one store *)
(* update.                                                                 *)
(***************************************************************************)
EXTENDS Naturals, Sequences

CONSTANTS
    Hosts,          \* host ids
    Enrolled,       \* the hosts state.json lists when the manager starts
    Streams,        \* connections; each is used once
    HostOf,         \* the host a stream's peer certificate names
    Senders,        \* goroutines that call into the hub
    Admins,         \* those of them that serve PUT /settings
    Cfgs,           \* values of the heartbeat and status intervals
    DefaultCfg,     \* the intervals of a fresh settings file
    NoStream,       \* not a stream
    QueueCap,       \* capacity of a stream's send channel
    MaxCalls,       \* bound: calls each sender makes
    MaxRestarts     \* bound: restarts of the manager

ASSUME HubAssumption ==
    /\ HostOf \in [Streams -> Hosts]
    /\ Enrolled \subseteq Hosts
    /\ Admins \subseteq Senders
    /\ DefaultCfg \in Cfgs
    /\ NoStream \notin Streams
    /\ QueueCap \in Nat \ {0}
    /\ MaxCalls \in Nat /\ MaxRestarts \in Nat

VARIABLES
    status,     \* liveness of a host in the registry ("absent"/"removed": not in it)
    enrolling,  \* hosts whose provisioning goroutine is running
    conns,      \* the hub's registry: host -> stream, or NoStream
    cfg,        \* h.cfg, the session config of the next HelloAck
    saved,      \* the intervals in the settings file
    pc,         \* where the goroutine serving a stream stands
    send,       \* a stream's send channel
    closed,     \* streams whose send channel has been closed
    peer,       \* the associate's end: awaiting its HelloAck, up, or given up
    applied,    \* the session config the associate has been handed last
    lossy,      \* streams that a full channel or a panic cost a frame
    sender,     \* where a sender stands in its call
    calls,      \* calls a sender has made
    restarts    \* restarts so far

hostVars   == <<status, enrolling>>
peerVars   == <<peer, applied>>
vars == <<hostVars, conns, cfg, saved, pc, peerVars, send, closed, lossy, sender,
          calls, restarts>>

-----------------------------------------------------------------------------
Ack(c)    == [kind |-> "ack", cfg |-> c]        \* HelloAck with its SessionConfig
Config(c) == [kind |-> "config", cfg |-> c]     \* a pushed SessionConfig
Request   == [kind |-> "request", cfg |-> DefaultCfg]
                        \* Command, RotateCert, Uninstall, StatusRequest, LogRequest
Nil       == [kind |-> "nil", cfg |-> DefaultCfg]      \* an empty ManagerMessage
Frames    == [kind : {"ack", "config", "request"}, cfg : Cfgs]

Idle == [pc |-> "idle", frame |-> Request, todo |-> {}, conn |-> NoStream]

Known(h) == status[h] \notin {"absent", "removed"}

\* Store.update: a host that is not in the registry is left alone.
Updated(h, st) == IF Known(h) THEN [status EXCEPT ![h] = st] ELSE status

Init ==
    /\ status = [h \in Hosts |-> IF h \in Enrolled THEN "offline" ELSE "absent"]
    /\ enrolling = {}
    /\ conns = [h \in Hosts |-> NoStream]
    /\ cfg = DefaultCfg
    /\ saved = DefaultCfg
    /\ pc = [s \in Streams |-> "new"]
    /\ send = [s \in Streams |-> <<>>]
    /\ closed = {}
    /\ peer = [s \in Streams |-> "waiting"]
    /\ applied = [s \in Streams |-> DefaultCfg]
    /\ lossy = {}
    /\ sender = [p \in Senders |-> Idle]
    /\ calls = [p \in Senders |-> 0]
    /\ restarts = 0

-----------------------------------------------------------------------------
(* The host registry's own callers: enrollment and removal.                *)

\* Quartermaster.Enroll: the host enters the registry, provisioning starts.
Enroll(h) ==
    /\ status[h] = "absent"
    /\ status' = [status EXCEPT ![h] = "enrolling"]
    /\ enrolling' = enrolling \cup {h}
    /\ UNCHANGED <<conns, cfg, saved, pc, peerVars, send, closed, lossy, sender,
                   calls, restarts>>

\* Quartermaster.run returns: a failure marks the host, a success leaves its
\* status to the associate's first connection.
EnrollReturns(h) ==
    /\ h \in enrolling
    /\ enrolling' = enrolling \ {h}
    /\ \/ status' = Updated(h, "error")
       \/ UNCHANGED status
    /\ UNCHANGED <<conns, cfg, saved, pc, peerVars, send, closed, lossy, sender,
                   calls, restarts>>

\* Store.Remove, from DELETE /hosts/{id} and from the end of an uninstall.  The
\* host's live stream, if any, is not touched.
RemoveHost(h) ==
    /\ Known(h)
    /\ status' = [status EXCEPT ![h] = "removed"]
    /\ UNCHANGED <<enrolling, conns, cfg, saved, pc, peerVars, send, closed,
                   lossy, sender, calls, restarts>>

-----------------------------------------------------------------------------
(* serveStream: the goroutine of one stream.                               *)

\* The Hello has arrived and names the peer; an unknown host is turned away.
Hello(s) ==
    /\ pc[s] = "new"
    /\ status[HostOf[s]] # "absent"
    /\ pc' = [pc EXCEPT ![s] = IF Known(HostOf[s]) THEN "accepted" ELSE "done"]
    /\ UNCHANGED <<hostVars, conns, cfg, saved, peerVars, send, closed,
                   lossy, sender, calls, restarts>>

\* Mutant of Register: the stream is published before its HelloAck is queued.
RegisterAckLate(s) ==
    LET h == HostOf[s]
    IN  /\ pc[s] = "accepted"
        /\ IF conns[h] = s
           THEN /\ send' = [send EXCEPT ![s] = Append(@, Ack(cfg))]
                /\ pc' = [pc EXCEPT ![s] = "registered"]
                /\ UNCHANGED <<conns, closed>>
           ELSE /\ closed' = closed \cup ({conns[h]} \ {NoStream})
                /\ conns' = [conns EXCEPT ![h] = s]
                /\ UNCHANGED <<send, pc>>
        /\ UNCHANGED <<hostVars, cfg, saved, peerVars, lossy, sender, calls,
                       restarts>>

\* Mutant of Register: the superseded stream's channel stays open.
RegisterKeepsOld(s) ==
    /\ pc[s] = "accepted"
    /\ pc' = [pc EXCEPT ![s] = "registered"]
    /\ send' = [send EXCEPT ![s] = <<Ack(cfg)>>]
    /\ conns' = [conns EXCEPT ![HostOf[s]] = s]
    /\ UNCHANGED <<hostVars, cfg, saved, peerVars, closed, lossy, sender, calls,
                   restarts>>

\* register: queue the HelloAck, close the channel of the stream this one
\* supersedes, publish the new one; all under h.mu.
Register(s) ==
    LET h == HostOf[s]
    IN  /\ pc[s] = "accepted"
        /\ pc' = [pc EXCEPT ![s] = "registered"]
        /\ send' = [send EXCEPT ![s] = <<Ack(cfg)>>]
        /\ closed' = closed \cup ({conns[h]} \ {NoStream})
        /\ conns' = [conns EXCEPT ![h] = s]
        /\ UNCHANGED <<hostVars, cfg, saved, peerVars, lossy, sender, calls,
                       restarts>>

\* Store.SetOnline, then the send loop is started and the receive loop entered.
SetOnline(s) ==
    /\ pc[s] = "registered"
    /\ pc' = [pc EXCEPT ![s] = "serving"]
    /\ status' = Updated(HostOf[s], "online")
    /\ UNCHANGED <<enrolling, conns, cfg, saved, peerVars, send, closed,
                   lossy, sender, calls, restarts>>

\* Mutant of StreamEnds: the cleanup is not deferred, an early return skips it.
StreamEndsUnclean(s) ==
    /\ pc[s] = "serving"
    /\ pc' = [pc EXCEPT ![s] = "done"]
    /\ UNCHANGED <<hostVars, conns, cfg, saved, peerVars, send, closed,
                   lossy, sender, calls, restarts>>

\* stream.Recv fails: the peer closed the stream or the connection broke.
StreamEnds(s) ==
    /\ pc[s] = "serving"
    /\ pc' = [pc EXCEPT ![s] = "ended"]
    /\ UNCHANGED <<hostVars, conns, cfg, saved, peerVars, send, closed,
                   lossy, sender, calls, restarts>>

\* Mutant of Unlist: the cur == c check is dropped.
UnlistAny(s) ==
    /\ pc[s] = "ended"
    /\ pc' = [pc EXCEPT ![s] = "unlisted"]
    /\ conns' = [conns EXCEPT ![HostOf[s]] = NoStream]
    /\ UNCHANGED <<hostVars, cfg, saved, peerVars, send, closed, lossy,
                   sender, calls, restarts>>

\* unregister, first part, under h.mu: drop the entry if it is still this one.
Unlist(s) ==
    LET h == HostOf[s]
    IN  /\ pc[s] = "ended"
        /\ pc' = [pc EXCEPT ![s] = "unlisted"]
        /\ conns' = IF conns[h] = s THEN [conns EXCEPT ![h] = NoStream]
                                    ELSE conns
        /\ UNCHANGED <<hostVars, cfg, saved, peerVars, send, closed, lossy,
                       sender, calls, restarts>>

\* unregister, second part: Store.SetOffline, whoever else is connected.
SetOffline(s) ==
    /\ pc[s] = "unlisted"
    /\ pc' = [pc EXCEPT ![s] = "done"]
    /\ status' = Updated(HostOf[s], "offline")
    /\ UNCHANGED <<enrolling, conns, cfg, saved, peerVars, send, closed,
                   lossy, sender, calls, restarts>>

\* Mutant of SendFrame: the loop stops at once when the channel is closed.
SendFrameUntilClosed(s) ==
    /\ pc[s] = "serving" /\ send[s] # <<>> /\ s \notin closed
    /\ peer' = [peer EXCEPT ![s] = "up"]
    /\ send' = [send EXCEPT ![s] = Tail(@)]
    /\ UNCHANGED <<hostVars, conns, cfg, saved, pc, applied, closed, lossy,
                   sender, calls, restarts>>

\* sendLoop takes the oldest queued frame, nil once the channel is closed and
\* drained, and writes it; the associate's runStream requires a HelloAck first
\* and hands the config of a HelloAck or a SessionConfig to its timers.  What is
\* written once Recv has failed reaches nobody.
SendFrame(s) ==
    /\ pc[s] = "serving"
    /\ send[s] # <<>> \/ s \in closed
    /\ LET f == IF send[s] = <<>> THEN Nil ELSE Head(send[s])
       IN  /\ peer' = [peer EXCEPT ![s] =
                          IF @ = "waiting"
                          THEN IF f.kind = "ack" THEN "up" ELSE "refused"
                          ELSE @]
           /\ applied' = IF f.kind = "ack" \/ (f.kind = "config" /\ peer[s] = "up")
                         THEN [applied EXCEPT ![s] = f.cfg] ELSE applied
    /\ send' = [send EXCEPT ![s] = IF @ = <<>> THEN @ ELSE Tail(@)]
    /\ UNCHANGED <<hostVars, conns, cfg, saved, pc, closed, lossy, sender,
                   calls, restarts>>

-----------------------------------------------------------------------------
(* Senders.  frame is what is being sent, todo the hosts still to send to, *)
(* conn the stream sendTo has looked up and is about to write to.          *)

Calling(p, where, f, hs) ==
    /\ sender[p].pc = "idle" /\ calls[p] < MaxCalls
    /\ calls' = [calls EXCEPT ![p] = @ + 1]
    /\ sender' = [sender EXCEPT ![p] =
                     [pc |-> where, frame |-> f, todo |-> hs, conn |-> NoStream]]

\* Dispatch, RotateCert, Uninstall and the log requests: one frame to one host.
Dispatch(p, h) ==
    /\ Calling(p, "each", Request, {h})
    /\ UNCHANGED <<hostVars, conns, cfg, saved, pc, peerVars, send, closed,
                   lossy, restarts>>

\* RefreshAll broadcasts a StatusRequest.
RefreshAll(p) ==
    /\ Calling(p, "snapshot", Request, {})
    /\ UNCHANGED <<hostVars, conns, cfg, saved, pc, peerVars, send, closed,
                   lossy, restarts>>

\* putSettings has stored the new intervals and calls SetIntervals.
PutSettings(p, c) ==
    /\ Calling(p, "set", Config(c), {})
    /\ saved' = c
    /\ UNCHANGED <<hostVars, conns, cfg, pc, peerVars, send, closed, lossy,
                   restarts>>

\* SetIntervals records the config for the HelloAcks to come.
SetIntervals(p) ==
    /\ sender[p].pc = "set"
    /\ cfg' = sender[p].frame.cfg
    /\ sender' = [sender EXCEPT ![p].pc = "snapshot"]
    /\ UNCHANGED <<hostVars, conns, saved, pc, peerVars, send, closed, lossy,
                   calls, restarts>>

\* A sender that has nothing left to send to returns to its caller.
Continue(rec, hs) ==
    IF hs = {} THEN Idle
               ELSE [pc |-> "each", frame |-> rec.frame, todo |-> hs,
                     conn |-> NoStream]

\* Mutant of Snapshot: only the hosts already marked online are listed.
SnapshotOnline(p) ==
    /\ sender[p].pc = "snapshot"
    /\ sender' = [sender EXCEPT ![p] =
                     Continue(sender[p], {h \in Hosts : conns[h] # NoStream
                                                     /\ status[h] = "online"})]
    /\ UNCHANGED <<hostVars, conns, cfg, saved, pc, peerVars, send, closed,
                   lossy, calls, restarts>>

\* broadcast lists the connected hosts under h.mu.
Snapshot(p) ==
    /\ sender[p].pc = "snapshot"
    /\ sender' = [sender EXCEPT ![p] =
                     Continue(sender[p], {h \in Hosts : conns[h] # NoStream})]
    /\ UNCHANGED <<hostVars, conns, cfg, saved, pc, peerVars, send, closed,
                   lossy, calls, restarts>>

\* sendTo looks the host's stream up under h.mu; none is ErrNotConnected.
Lookup(p, h) ==
    /\ sender[p].pc = "each" /\ h \in sender[p].todo
    /\ sender' = [sender EXCEPT ![p] =
                     IF conns[h] = NoStream
                     THEN Continue(sender[p], sender[p].todo \ {h})
                     ELSE [pc |-> "push", frame |-> sender[p].frame,
                           todo |-> sender[p].todo \ {h}, conn |-> conns[h]]]
    /\ UNCHANGED <<hostVars, conns, cfg, saved, pc, peerVars, send, closed,
                   lossy, calls, restarts>>

\* Mutant of Push: no capacity, an unbounded queue.
PushUnbounded(p) ==
    LET s == sender[p].conn
    IN  /\ sender[p].pc = "push" /\ s \notin closed
        /\ send' = [send EXCEPT ![s] = Append(@, sender[p].frame)]
        /\ sender' = [sender EXCEPT ![p] = Continue(sender[p], sender[p].todo)]
        /\ UNCHANGED <<hostVars, conns, cfg, saved, pc, peerVars, closed, lossy,
                       calls, restarts>>

\* Mutant of Push: the select has no default, a full channel blocks the sender.
PushBlocking(p) ==
    LET s == sender[p].conn
    IN  /\ sender[p].pc = "push" /\ s \notin closed
        /\ Len(send[s]) < QueueCap
        /\ send' = [send EXCEPT ![s] = Append(@, sender[p].frame)]
        /\ sender' = [sender EXCEPT ![p] = Continue(sender[p], sender[p].todo)]
        /\ UNCHANGED <<hostVars, conns, cfg, saved, pc, peerVars, closed, lossy,
                       calls, restarts>>

\* sendTo's select: the frame is queued, or refused when the channel is full.
Push(p) ==
    LET s == sender[p].conn
    IN  /\ sender[p].pc = "push" /\ s \notin closed
        /\ IF Len(send[s]) < QueueCap
           THEN /\ send' = [send EXCEPT ![s] = Append(@, sender[p].frame)]
                /\ UNCHANGED lossy
           ELSE /\ lossy' = lossy \cup {s}
                /\ UNCHANGED send
        /\ sender' = [sender EXCEPT ![p] = Continue(sender[p], sender[p].todo)]
        /\ UNCHANGED <<hostVars, conns, cfg, saved, pc, peerVars, closed, calls,
                       restarts>>

\* The channel was closed after the lookup: the send panics.  In an HTTP handler
\* net/http recovers, and the hosts the call has not reached go without; in any
\* other goroutine the manager dies, which is a Restart.
PushPanics(p) ==
    /\ sender[p].pc = "push" /\ sender[p].conn \in closed
    /\ lossy' = lossy \cup ({conns[h] : h \in sender[p].todo} \ {NoStream})
    /\ sender' = [sender EXCEPT ![p] = Idle]
    /\ UNCHANGED <<hostVars, conns, cfg, saved, pc, peerVars, send, closed,
                   calls, restarts>>

-----------------------------------------------------------------------------
\* The manager stops (an unrecovered panic among the reasons) and starts again:
\* every stream and goroutine is gone, state.Load lists every host offline, and
\* NewApp sets the hub's config from the settings file.
Restart ==
    /\ restarts < MaxRestarts
    /\ restarts' = restarts + 1
    /\ status' = [h \in Hosts |-> IF Known(h) THEN "offline" ELSE status[h]]
    /\ enrolling' = {}
    /\ conns' = [h \in Hosts |-> NoStream]
    /\ cfg' = saved
    /\ pc' = [s \in Streams |-> IF pc[s] = "new" THEN "new" ELSE "done"]
    /\ sender' = [p \in Senders |-> Idle]
    /\ UNCHANGED <<saved, peerVars, send, closed, lossy, calls>>

HostStep(h)   == Enroll(h) \/ EnrollReturns(h) \/ RemoveHost(h)

StreamStep(s) == \/ Hello(s) \/ Register(s) \/ SetOnline(s) \/ StreamEnds(s)
                 \/ Unlist(s) \/ SetOffline(s)
                 \/ SendFrame(s)

SenderStep(p) == \/ \E h \in Hosts : Dispatch(p, h) \/ Lookup(p, h)
                 \/ RefreshAll(p)
                 \/ p \in Admins /\ \E c \in Cfgs : PutSettings(p, c)
                 \/ SetIntervals(p) \/ Snapshot(p) \/ Push(p) \/ PushPanics(p)

Next == \/ \E h \in Hosts : HostStep(h)
        \/ \E s \in Streams : StreamStep(s)
        \/ \E p \in Senders : SenderStep(p)
        \/ Restart

\* A goroutine that can run is scheduled; a peer need never connect or hang up.
Fairness ==
    /\ \A s \in Streams : /\ WF_vars(Register(s)) /\ WF_vars(SetOnline(s))
                          /\ WF_vars(Unlist(s)) /\ WF_vars(SetOffline(s))
                          /\ WF_vars(SendFrame(s))
    /\ \A p \in Senders : /\ WF_vars(SetIntervals(p)) /\ WF_vars(Snapshot(p))
                          /\ WF_vars(\E h \in Hosts : Lookup(p, h))
                          /\ WF_vars(Push(p)) /\ WF_vars(PushPanics(p))

Spec == Init /\ [][Next]_vars /\ Fairness

-----------------------------------------------------------------------------
(* Properties *)

SenderType == [pc : {"idle", "set", "snapshot", "each", "push"}, frame : Frames,
               todo : SUBSET Hosts, conn : Streams \cup {NoStream}]

\* The types, and that a send channel never holds more than its capacity
\* (make(chan, 16) in serveStream).
TypeOK ==
    /\ status \in [Hosts -> {"absent", "enrolling", "online", "offline",
                             "error", "removed"}]
    /\ enrolling \subseteq Hosts
    /\ conns \in [Hosts -> Streams \cup {NoStream}]
    /\ cfg \in Cfgs /\ saved \in Cfgs
    /\ pc \in [Streams -> {"new", "accepted", "registered", "serving", "ended",
                           "unlisted", "done"}]
    /\ send \in [Streams -> Seq(Frames)]
    /\ \A s \in Streams : Len(send[s]) <= QueueCap
    /\ closed \subseteq Streams /\ lossy \subseteq Streams
    /\ peer \in [Streams -> {"waiting", "up", "refused"}]
    /\ applied \in [Streams -> Cfgs]
    /\ sender \in [Senders -> SenderType]
    /\ \A p \in Senders : sender[p].pc = "push" => sender[p].conn \in Streams
    /\ calls \in [Senders -> Nat] /\ restarts \in Nat

\* The associate requires HelloAck to be the first frame of a stream and drops
\* the connection otherwise: whatever senders race with the registration, no
\* frame overtakes the HelloAck queued by register.
HelloAckFirst == \A s \in Streams : peer[s] # "refused"

\* The streams between register and unregister whose channel is open are exactly
\* those conns names: a host never has two channels commands could be split over,
\* and none that is served and open is out of the dispatcher's reach.
OneOpenChannel ==
    \A s \in Streams :
        conns[HostOf[s]] = s
            <=> pc[s] \in {"registered", "serving", "ended"} /\ s \notin closed

\* A host shown online has a stream that has still to mark it offline: no host
\* stays online after its last stream is gone.
OnlineHasStream ==
    \A h \in Hosts : status[h] = "online" =>
        \E s \in Streams : HostOf[s] = h /\ pc[s] \in {"serving", "ended", "unlisted"}

\* The config an associate ends up with when its stream has drained.
LastConfig(s) ==
    LET pushed == {i \in 1..Len(send[s]) : send[s][i].kind # "request"}
    IN  IF pushed = {} THEN applied[s]
        ELSE send[s][CHOOSE i \in pushed : \A j \in pushed : j <= i].cfg

\* With one administrator, once no call is in progress every connected host has
\* been sent the current intervals, in its HelloAck or after it, unless a full
\* channel or a panic cost it a frame: a host that connects while SetIntervals
\* runs does not slip between the HelloAck and the broadcast.
ConfigDelivered ==
    (\A p \in Senders : sender[p].pc = "idle") =>
        \A h \in Hosts : conns[h] \notin lossy \cup {NoStream} =>
            LastConfig(conns[h]) = cfg

\* A stream that ends late does not unlist the one that superseded it: the only
\* entry a stream's unregister removes is its own (the cur == c check).
OnlyOwnerUnlists ==
    [][\A h \in Hosts : conns[h] # NoStream /\ conns'[h] = NoStream =>
           \/ restarts' # restarts
           \/ pc[conns[h]] = "ended" /\ pc'[conns[h]] = "unlisted"
      ]_vars

\* The HelloAck of a stream that keeps being served is written, even when the
\* stream is superseded before its send loop runs: a closed channel still drains.
HandshakeCompletes ==
    \A s \in Streams : pc[s] = "serving" ~> (peer[s] = "up" \/ pc[s] # "serving")

\* Every call into the hub returns: one dead or slow host never blocks a
\* broadcast to the others.
CallsReturn ==
    \A p \in Senders : sender[p].pc # "idle" ~> sender[p].pc = "idle"

\* The claim of state.go and of the README that status is the stream's liveness:
\* a served host whose other streams are all over is not shown offline.
ConnectedIsOnline ==
    \A s \in Streams : LET h == HostOf[s] IN
        /\ conns[h] = s /\ pc[s] = "serving"
        /\ \A t \in Streams \ {s} : HostOf[t] = h => pc[t] \in {"new", "done"}
        => status[h] # "offline"
=============================================================================
