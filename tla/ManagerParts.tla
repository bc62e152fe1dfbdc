----------------------------- MODULE ManagerParts -----------------------------
(***************************************************************************)
(* The smaller components, each of which has its own state and promises,   *)
(* put together for one model-checking run.  They do not interact in the   *)
(* ways their modules model (what connects them to the hub, the runner and *)
(* the sessions is in the modules of those), so that a behavior is that of *)
(* one of them while the others rest: the states are the sum of theirs.    *)
(***************************************************************************)
EXTENDS Naturals, Sequences

CONSTANTS
    \* Scheduler
    Targets, Gated, Bodies, Arrays, MaxFires, Period, Grace, Window, Retry,
    Cap, MaxTime, MaxEdits, MaxRemovals, MaxCrashes,
    \* Enrollment
    Hosts, Dialed, Workers, MaxSerials, MaxBegun, MaxReboots,
    \* Dialer
    DialedHosts, Addrs, Syncers, MaxLoops, MaxChanges,
    \* LogStreams
    Reads, ChanCap, QueueCap, MaxLines, MaxBreaks,
    \* StackFiles
    Files, EnvFiles, Editors, Contents, Invalid, Missing, MaxSaves, MaxCuts,
    \* ImageUpdates
    Images, Checks, MaxDigest, MaxBadCommands,
    \* Accounts
    Passwords, Tokens, Requests, MaxHashes, MaxSessions, MaxBadSaves,
    \* AuditLog
    Keep, MaxEntries, MaxBadAppends,
    \* CertFiles
    MaxKeys, MaxStops,
    \* several of them
    None, Torn, Unset

VARIABLES
    part,       \* the component that runs
    schNow, schListed, schSeen, schPruning, schTask, schFile, schFires, schEdit,
    schRung, schEdits, schCrashes,
    enrListed, enrGone, enrRecorded, enrOwner, enrRevoked, enrWorker, enrStage,
    enrInstalled, enrProc, enrConn, enrInbox, enrAsked, enrExcused, enrBegun,
    enrFailures,
    diaAddress, diaParent, diaSync, diaActive, diaLoops, diaChanges,
    logReader, logChan, logBuffer, logGot, logLookedUp, logConnected, logBreaks,
    logDown, logUp, logFollower, logLine, logRefused,
    staFile, staBak, staBase, staSaves, staSave, staWorker, staCuts,
    imgRemote, imgLocal, imgUpdates, imgCheck, imgUpdate, imgPulled, imgLeft,
    imgFailures, imgOvertaken,
    accHash, accTokens, accDisk, accSessions, accCreated, accRequest, accPrompt, accHashes,
    accFailures, accBornUnder, accLate, accSetpass,
    audEntries, audPrevHash, audFile, audTorn, audEnd, audRecorded, audFailures, audLost,
    cerFile, cerLoaded, cerStage, cerWriting, cerFresh, cerFailures, cerBackup,
    cerImport, cerPinned, cerDoubt

schVars ==
    <<schNow, schListed, schSeen, schPruning, schTask, schFile, schFires, schEdit, schRung,
    schEdits, schCrashes>>
enrVars ==
    <<enrListed, enrGone, enrRecorded, enrOwner, enrRevoked, enrWorker, enrStage,
    enrInstalled, enrProc, enrConn, enrInbox, enrAsked, enrExcused, enrBegun, enrFailures>>
diaVars ==
    <<diaAddress, diaParent, diaSync, diaActive, diaLoops, diaChanges>>
logVars ==
    <<logReader, logChan, logBuffer, logGot, logLookedUp, logConnected, logBreaks, logDown,
    logUp, logFollower, logLine, logRefused>>
staVars ==
    <<staFile, staBak, staBase, staSaves, staSave, staWorker, staCuts>>
imgVars ==
    <<imgRemote, imgLocal, imgUpdates, imgCheck, imgUpdate, imgPulled, imgLeft,
    imgFailures, imgOvertaken>>
accVars ==
    <<accHash, accTokens, accDisk, accSessions, accCreated, accRequest, accPrompt, accHashes,
    accFailures, accBornUnder, accLate, accSetpass>>
audVars ==
    <<audEntries, audPrevHash, audFile, audTorn, audEnd, audRecorded, audFailures, audLost>>
cerVars ==
    <<cerFile, cerLoaded, cerStage, cerWriting, cerFresh, cerFailures, cerBackup, cerImport,
    cerPinned, cerDoubt>>
vars ==
    <<part, schVars, enrVars, diaVars, logVars, staVars, imgVars, accVars, audVars, cerVars>>

Sch == INSTANCE Scheduler WITH
    now <- schNow, listed <- schListed, seen <- schSeen, pruning <- schPruning,
    task <- schTask, file <- schFile, fires <- schFires, edit <- schEdit, rung <- schRung,
    edits <- schEdits, crashes <- schCrashes
Enr == INSTANCE Enrollment WITH
    MaxFailures <- MaxReboots, listed <- enrListed, gone <- enrGone,
    recorded <- enrRecorded, owner <- enrOwner, revoked <- enrRevoked, worker <- enrWorker,
    stage <- enrStage, installed <- enrInstalled, proc <- enrProc, conn <- enrConn,
    inbox <- enrInbox, asked <- enrAsked, excused <- enrExcused, begun <- enrBegun,
    failures <- enrFailures
Dia == INSTANCE Dialer WITH
    Hosts <- DialedHosts, address <- diaAddress, parent <- diaParent, sync <- diaSync,
    active <- diaActive, loops <- diaLoops, changes <- diaChanges
Log == INSTANCE LogStreams WITH
    reader <- logReader, chan <- logChan, buffer <- logBuffer, got <- logGot,
    lookedUp <- logLookedUp, connected <- logConnected, breaks <- logBreaks,
    down <- logDown, up <- logUp, follower <- logFollower, line <- logLine,
    refused <- logRefused
Sta == INSTANCE StackFiles WITH
    file <- staFile, bak <- staBak, base <- staBase, saves <- staSaves, save <- staSave,
    worker <- staWorker, cuts <- staCuts
Img == INSTANCE ImageUpdates WITH
    MaxFailures <- MaxBadCommands, remote <- imgRemote, local <- imgLocal,
    updates <- imgUpdates, check <- imgCheck, update <- imgUpdate, pulled <- imgPulled,
    left <- imgLeft, failures <- imgFailures, overtaken <- imgOvertaken
Acc == INSTANCE Accounts WITH
    MaxFailures <- MaxBadSaves, hash <- accHash, tokens <- accTokens, disk <- accDisk,
    sessions <- accSessions, created <- accCreated, request <- accRequest, prompt <- accPrompt,
    hashes <- accHashes, failures <- accFailures, bornUnder <- accBornUnder,
    late <- accLate, setpass <- accSetpass
Aud == INSTANCE AuditLog WITH
    MaxFailures <- MaxBadAppends, entries <- audEntries, prevHash <- audPrevHash,
    file <- audFile, torn <- audTorn, end <- audEnd, recorded <- audRecorded,
    failures <- audFailures, lost <- audLost
Cer == INSTANCE CertFiles WITH
    MaxFailures <- MaxStops, file <- cerFile, loaded <- cerLoaded, stage <- cerStage,
    writing <- cerWriting, fresh <- cerFresh, failures <- cerFailures, backup <- cerBackup,
    import <- cerImport, pinned <- cerPinned, doubt <- cerDoubt

ASSUME PartsAssumption ==
    /\ Sch!SchedulerAssumption /\ Enr!SerialsAssumption /\ Dia!DialerAssumption
    /\ Log!LogsAssumption /\ Sta!FilesAssumption /\ Img!ImagesAssumption /\ Acc!BoundsAssumption /\ Aud!KeepAssumption
    /\ Cer!CertsAssumption

Parts == {"scheduler", "enrollment", "dialer", "logs", "files", "images", "accounts", "audit", "certs"}

Init ==
    /\ part \in Parts
    /\ Sch!Init /\ Enr!Init /\ Dia!Init /\ Log!Init /\ Sta!Init
    /\ Img!Init /\ Acc!Init /\ Aud!Init /\ Cer!Init
    /\ part # "files" => staFile = [f \in Files |-> Missing]

SchedulerStep ==
    /\ part = "scheduler" /\ Sch!Next
    /\ UNCHANGED <<part, enrVars, diaVars, logVars, staVars, imgVars, accVars, audVars, cerVars>>
EnrollmentStep ==
    /\ part = "enrollment" /\ Enr!Next
    /\ UNCHANGED <<part, schVars, diaVars, logVars, staVars, imgVars, accVars, audVars, cerVars>>
DialerStep ==
    /\ part = "dialer" /\ Dia!Next
    /\ UNCHANGED <<part, schVars, enrVars, logVars, staVars, imgVars, accVars, audVars, cerVars>>
LogStreamsStep ==
    /\ part = "logs" /\ Log!Next
    /\ UNCHANGED <<part, schVars, enrVars, diaVars, staVars, imgVars, accVars, audVars, cerVars>>
StackFilesStep ==
    /\ part = "files" /\ Sta!Next
    /\ UNCHANGED <<part, schVars, enrVars, diaVars, logVars, imgVars, accVars, audVars, cerVars>>
ImageUpdatesStep ==
    /\ part = "images" /\ Img!Next
    /\ UNCHANGED <<part, schVars, enrVars, diaVars, logVars, staVars, accVars, audVars, cerVars>>
AccountsStep ==
    /\ part = "accounts" /\ Acc!Next
    /\ UNCHANGED <<part, schVars, enrVars, diaVars, logVars, staVars, imgVars, audVars, cerVars>>
AuditLogStep ==
    /\ part = "audit" /\ Aud!Next
    /\ UNCHANGED <<part, schVars, enrVars, diaVars, logVars, staVars, imgVars, accVars, cerVars>>
CertFilesStep ==
    /\ part = "certs" /\ Cer!Next
    /\ UNCHANGED <<part, schVars, enrVars, diaVars, logVars, staVars, imgVars, accVars, audVars>>

Next ==
    \/ SchedulerStep \/ EnrollmentStep \/ DialerStep \/ LogStreamsStep
    \/ StackFilesStep \/ ImageUpdatesStep \/ AccountsStep \/ AuditLogStep \/ CertFilesStep

Spec == Init /\ [][Next]_vars
-----------------------------------------------------------------------------
(* The properties of the components, each stated and explained in its module.*)

(* Every component keeps to its types. *)
TypeOK ==
    /\ part = "scheduler" => Sch!TypeOK
    /\ part = "enrollment" => Enr!TypeOK
    /\ part = "dialer" => Dia!TypeOK
    /\ part = "logs" => Log!TypeOK
    /\ part = "files" => Sta!TypeOK
    /\ part = "images" => Img!TypeOK
    /\ part = "accounts" => Acc!TypeOK
    /\ part = "audit" => Aud!TypeOK
    /\ part = "certs" => Cer!TypeOK

(* A scheduled task is an Alarm: see Scheduler. *)
ImplementsAlarm == Sch!ImplementsAlarm

(* A failed run stays visible: see Scheduler. *)
FailureStands == Sch!FailureStands

(* Certificates are refused if, and only if, the host was removed: see      *)
(* Enrollment.                                                              *)
RevokedIsRemoved == part = "enrollment" => Enr!RevokedIsRemoved

(* The hosts of the registry are dialed where it says: see Dialer. *)
DialsTheListed == part = "dialer" => Dia!DialsTheListed

(* A log reaches its reader in order: see LogStreams. *)
LogInOrder == part = "logs" => Log!LogInOrder

(* No save loses the version it replaces: see StackFiles. *)
SavesKeepEdits == part = "files" => Sta!SavesKeepEdits

(* An update that is shown can be installed: see ImageUpdates. *)
FlagIsNews == part = "images" => Img!FlagIsNews

(* A new password ends the old sign-ins: see Accounts. *)
SignedOut == part = "accounts" => Acc!SignedOut

(* The audit log is an unbroken chain: see AuditLog. *)
ChainHolds == part = "audit" => Aud!ChainHolds

(* The manager keeps its identity: see CertFiles. *)
IdentityHolds == part = "certs" => Cer!IdentityHolds
=============================================================================
