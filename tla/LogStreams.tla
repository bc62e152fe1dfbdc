------------------------------ MODULE LogStreams ------------------------------
(***************************************************************************)
(* A log read through the dashboard (api/sse.go), the hub                  *)
(* (manager/hub/hub.go), the host's stream and the associate               *)
(* (associate/handlers.go) from the module that follows it                 *)
(* (modules/duo/).                                                         *)
(*                                                                         *)
(* A line is its number; 0 stands for the end of the log.  The stream      *)
(* itself (who is connected, how it is replaced) is HubStreams; here it    *)
(* breaks and comes back.                                                  *)
(***************************************************************************)
EXTENDS Naturals, Sequences

CONSTANTS
    Reads,          \* requests to read a log, each with its stream id
    None,
    ChanCap,        \* size of a log channel (128)
    QueueCap,       \* bound: messages under way, either direction
    MaxLines,       \* bound: lines of a log
    MaxBreaks       \* bound: losses of the stream

LogsAssumption == {ChanCap, QueueCap, MaxLines, MaxBreaks} \subseteq Nat

VARIABLES
    reader,         \* each request: new, reading, leaving, or over
    chan,           \* its channel in the hub: none, open or closed
    buffer,         \* the lines in the channel
    got,            \* the lines sent to the browser
    lookedUp,       \* what handle() holds between the lookup and the send, or None
    connected, breaks,
    down,           \* requests and stops under way to the host
    up,             \* chunks under way to the manager
    follower,       \* the goroutine on the host: none, running, stopping, stuck, or over
    line,           \* lines it has read
    refused         \* history: reads whose stop could not be sent, or was lost

hubVars == <<reader, chan, buffer, got, lookedUp>>
hostVars == <<follower, line>>
vars == <<hubVars, hostVars, connected, breaks, down, up, refused>>

Init ==
    /\ reader = [r \in Reads |-> "new"] /\ chan = [r \in Reads |-> "none"]
    /\ buffer = [r \in Reads |-> <<>>] /\ got = [r \in Reads |-> <<>>]
    /\ lookedUp = None
    /\ connected = TRUE /\ breaks = 0 /\ down = <<>> /\ up = <<>>
    /\ follower = [r \in Reads |-> "none"] /\ line = [r \in Reads |-> 0]
    /\ refused = {}
-----------------------------------------------------------------------------
(* The manager. *)

Asked(r, stop) ==
    /\ connected /\ Len(down) < QueueCap
    /\ down' = Append(down, [read |-> r, stop |-> stop])

(* OpenLogStream: without a stream, or with its buffer full, the channel is  *)
(* closed again.                                                             *)
Open(r) ==
    /\ reader[r] = "new"
    /\ \/ /\ Asked(r, FALSE)
          /\ reader' = [reader EXCEPT ![r] = "reading"] /\ chan' = [chan EXCEPT ![r] = "open"]
       \/ /\ reader' = [reader EXCEPT ![r] = "over"] /\ chan' = [chan EXCEPT ![r] = "closed"]
          /\ UNCHANGED down
    /\ UNCHANGED <<buffer, got, lookedUp, hostVars, connected, breaks, up, refused>>

Read(r) ==
    /\ reader[r] = "reading" /\ buffer[r] # <<>>
    /\ got' = [got EXCEPT ![r] = Append(@, Head(buffer[r]))]
    /\ buffer' = [buffer EXCEPT ![r] = Tail(@)]
    /\ UNCHANGED <<reader, chan, lookedUp, hostVars, connected, breaks, down, up, refused>>

(* The browser has gone: cancel sends the stop, if it can, ... *)
Leave(r) ==
    /\ reader[r] = "reading" /\ reader' = [reader EXCEPT ![r] = "leaving"]
    /\ \/ Asked(r, TRUE) /\ UNCHANGED refused
       \/ refused' = refused \cup {r} /\ UNCHANGED down
    /\ UNCHANGED <<chan, buffer, got, lookedUp, hostVars, connected, breaks, up>>

(* ... and closes the channel (closeLog). *)
CloseLog(r) ==
    /\ reader[r] = "leaving" /\ reader' = [reader EXCEPT ![r] = "over"]
    /\ chan' = [chan EXCEPT ![r] = "closed"]
    /\ UNCHANGED <<buffer, got, lookedUp, hostVars, connected, breaks, down, up, refused>>

(* handle, a chunk: the lookup under logMu; the end carries no data. *)
Lookup ==
    LET chunk == Head(up) IN
    /\ up # <<>> /\ lookedUp = None /\ up' = Tail(up)
    /\ lookedUp' = IF chan[chunk.read] = "open" /\ chunk.line # 0 THEN chunk ELSE None
    /\ UNCHANGED <<reader, chan, buffer, got, hostVars, connected, breaks, down, refused>>

(* Mutant of Deliver: the send does not look at the room in the channel. *)
DeliverUnbounded ==
    /\ lookedUp # None /\ lookedUp' = None /\ chan[lookedUp.read] = "open"
    /\ buffer' = [buffer EXCEPT ![lookedUp.read] = Append(@, lookedUp.line)]
    /\ UNCHANGED <<reader, chan, got, hostVars, connected, breaks, down, up, refused>>

(* The send, after the unlock: a full channel loses the line. *)
Deliver ==
    LET r == lookedUp.read IN
    /\ lookedUp # None /\ lookedUp' = None
    /\ chan[r] = "open"
    /\ buffer' = IF Len(buffer[r]) < ChanCap
                 THEN [buffer EXCEPT ![r] = Append(@, lookedUp.line)] ELSE buffer
    /\ UNCHANGED <<reader, chan, got, hostVars, connected, breaks, down, up, refused>>

(* A send on a channel closed since: the manager panics.  It starts again   *)
(* without any read, and the stream is lost.                                *)
Broken ==
    /\ down' = <<>> /\ up' = <<>>
    /\ follower' = [r \in Reads |-> IF follower[r] = "none" THEN "none" ELSE "over"]
    /\ refused' = refused \cup {r \in Reads : \E i \in DOMAIN down : down[i].read = r}
    /\ UNCHANGED line

Panic ==
    /\ lookedUp # None /\ chan[lookedUp.read] = "closed" /\ lookedUp' = None
    /\ reader' = [r \in Reads |-> IF reader[r] = "new" THEN "new" ELSE "over"]
    /\ chan' = [r \in Reads |-> IF reader[r] = "new" THEN "none" ELSE "closed"]
    /\ connected' = FALSE /\ Broken
    /\ UNCHANGED <<buffer, got, breaks>>
-----------------------------------------------------------------------------
(* The stream and the associate. *)

(* The session ends and with it its followers; a reader is told nothing. *)
Break ==
    /\ connected /\ connected' = FALSE
    /\ breaks < MaxBreaks /\ breaks' = breaks + 1
    /\ Broken /\ UNCHANGED hubVars

Reconnect ==
    /\ ~connected /\ connected' = TRUE
    /\ UNCHANGED <<hubVars, hostVars, breaks, down, up, refused>>

(* Mutant of OnLogRequest: a stop goes unheeded. *)
OnLogRequestDeaf ==
    LET r == Head(down).read IN
    /\ down # <<>> /\ down' = Tail(down)
    /\ follower' = IF Head(down).stop THEN follower ELSE [follower EXCEPT ![r] = "running"]
    /\ UNCHANGED <<hubVars, line, connected, breaks, up, refused>>

(* stopLog: docker is killed.  A follower that is stuck never gets to say so. *)
StopLog(r) ==
    follower' = [follower EXCEPT ![r] = IF @ = "running" THEN "stopping"
                                        ELSE IF @ = "stuck" THEN "over" ELSE @]

(* onLogRequest: requests are handled one after another, so that a stop      *)
(* finds the follower of the request before it.  A module that has no logs   *)
(* is not followed, and nobody is told.                                      *)
OnLogRequest ==
    LET r == Head(down).read IN
    /\ down # <<>> /\ down' = Tail(down)
    /\ IF Head(down).stop THEN StopLog(r)
       ELSE follower' \in {[follower EXCEPT ![r] = f] : f \in {"running", "over"}}
    /\ UNCHANGED <<hubVars, line, connected, breaks, up, refused>>

Chunk(r, n) == Len(up) < QueueCap /\ up' = Append(up, [read |-> r, line |-> n])

(* A cancelled follower may still have lines in its hands. *)
Emit(r) ==
    /\ follower[r] \in {"running", "stopping"} /\ line[r] < MaxLines
    /\ line' = [line EXCEPT ![r] = @ + 1]
    /\ Chunk(r, line[r] + 1)
    /\ UNCHANGED <<hubVars, follower, connected, breaks, down, refused>>

(* The log ends, is cancelled, or there is no such container: the last      *)
(* chunk is the end.                                                        *)
Ends(r) ==
    /\ follower[r] \in {"running", "stopping"} /\ follower' = [follower EXCEPT ![r] = "over"]
    /\ Chunk(r, 0)
    /\ UNCHANGED <<hubVars, line, connected, breaks, down, refused>>

(* dockerStreamLogs: a line too long for the scanner is the last one that   *)
(* is read; docker goes on writing into a pipe nobody empties.              *)
TooLong(r) ==
    /\ follower[r] = "running" /\ follower' = [follower EXCEPT ![r] = "stuck"]
    /\ UNCHANGED <<hubVars, line, connected, breaks, down, up, refused>>

Next ==
    \/ \E r \in Reads :
        Open(r) \/ Read(r) \/ Leave(r) \/ CloseLog(r) \/ Emit(r) \/ Ends(r) \/ TooLong(r)
    \/ Lookup \/ Deliver \/ Panic \/ Break \/ Reconnect \/ OnLogRequest

Spec == Init /\ [][Next]_vars
-----------------------------------------------------------------------------
(* Properties. *)

Chunks == [read : Reads, line : 0..MaxLines]

TypeOK ==
    /\ reader \in [Reads -> {"new", "reading", "leaving", "over"}]
    /\ chan \in [Reads -> {"none", "open", "closed"}]
    /\ got \in [Reads -> Seq(1..MaxLines)]
    /\ \A r \in Reads : buffer[r] \in Seq(1..MaxLines) /\ Len(buffer[r]) <= ChanCap
    /\ lookedUp \in Chunks \cup {None}
    /\ connected \in BOOLEAN /\ up \in Seq(Chunks)
    /\ down \in Seq([read : Reads, stop : BOOLEAN])
    /\ follower \in [Reads -> {"none", "running", "stopping", "stuck", "over"}]
    /\ line \in [Reads -> 0..MaxLines]

Increasing(s) == \A i, j \in DOMAIN s : i < j => s[i] < s[j]

\* The lines the manager has of a log, and whether a chunk under way is one.
Pending(r) == IF lookedUp # None /\ lookedUp.read = r THEN <<lookedUp.line>> ELSE <<>>
Lines(r) == got[r] \o buffer[r] \o Pending(r)
OnTheWay(r, i) == i \in DOMAIN up /\ up[i].read = r /\ up[i].line # 0

(* Whatever is lost on the way, a reader sees the lines of the log it asked  *)
(* for, each at most once and in order; and a log nobody reads any more is   *)
(* not followed any more, unless the stop was refused or lost                *)
(* (hub.go:152-161, 262-272, handlers.go:145-184).                           *)
LogInOrder ==
    \A r \in Reads :
        /\ Increasing(Lines(r))
        /\ \A k \in DOMAIN Lines(r) : Lines(r)[k] <= line[r]
        /\ \A i \in DOMAIN up : OnTheWay(r, i) =>
            /\ \A k \in DOMAIN Lines(r) : Lines(r)[k] < up[i].line
            /\ \A j \in DOMAIN up : i < j /\ OnTheWay(r, j) => up[i].line < up[j].line
        /\ reader[r] = "over" /\ follower[r] \in {"running", "stuck"} =>
            r \in refused \/ \E i \in DOMAIN down : down[i] = [read |-> r, stop |-> TRUE]
=============================================================================
