---------------------------- MODULE DesktopUpdates ----------------------------
(***************************************************************************)
(* The native host of Desktop (apps/desktop/src): it owns the engine       *)
(* process, native saves, an explicit quit and the installation of         *)
(* updates.  Start, monitor, quit and install are threads of their own;    *)
(* they meet in a few flags (closing, State, Saves) and in the mutex of    *)
(* the child process.  Another instance may share the user's data.         *)
(***************************************************************************)
EXTENDS Naturals, FiniteSets

CONSTANTS
    Savers,         \* native saves that may be under way
    MaxEngines,     \* bound: engines this host spawns
    MaxReleases,    \* bound: releases that appear
    MaxUpdFaults    \* bound: failures of steps that can fail

ASSUME UpdatesAssumption == MaxEngines \in Nat \ {0} /\ MaxReleases \in Nat /\ MaxUpdFaults \in Nat

VARIABLES
    updPhase,       \* Snapshot.phase
    updRelease,     \* UpdateState.update: the release that was found, or 0
    updBytes,       \* UpdateState.bytes: the release whose installer is in memory, or 0
    fetched,        \* the release a check or a download brings, or 0
    installing,     \* program counter of install
    starting,       \* ... of the thread that starts the first engine
    quitting,       \* ... of the thread that shuts down
    monitor,        \* ... of the thread that watches the engine
    hostClosing,    \* Engine.closing
    hostError,      \* State.error is set
    windowClosing,  \* State.closing
    connection,     \* State.connection: the engine the page talks to, or 0
    child,          \* Engine.child: the engine whose process is owned, or 0
    childReady,     \* Backend.ready
    engine,         \* each engine process; it is gone before, or has ended after announcing itself
    gate,           \* who has closed admission in the newest engine
    work,           \* whether it has mutations or jobs under way
    saving,         \* state of each save
    savesClosed,    \* Activity.closing
    lease,          \* how the host holds the lock of the shared profile
    other,          \* another instance on the same profile, or the engine it left behind
    spawned, updFaults

updRows == <<updPhase, updRelease, updBytes, fetched>>
updHost == <<hostClosing, hostError, windowClosing, connection>>
updEngine == <<child, childReady, engine, gate, work, spawned>>
updSaves == <<saving, savesClosed>>
updThreads == <<installing, starting, quitting, monitor>>
updProfile == <<lease, other>>
updVars == <<updRows, updHost, updEngine, updSaves, updThreads, updProfile, updFaults>>

Engines == 1..MaxEngines
Releases == 0..MaxReleases

UpdatesTypeOK ==
    /\ updPhase \in {"idle", "checking", "current", "available", "downloading", "ready", "installing", "error"}
    /\ updRelease \in Releases /\ updBytes \in Releases /\ fetched \in Releases
    /\ installing \in {"none", "begin", "lease", "claim", "saves", "prepare", "decide", "plan", "cancel",
                       "stop", "quiesce", "snapshot", "installer", "recover", "wait", "broken",
                       "window", "reopen", "unclaim", "failed", "restarted"}
    /\ starting \in {"spawn", "wait", "report", "done"}
    /\ quitting \in {"none", "close", "drain", "take", "leave", "exited"}
    /\ monitor \in {"look", "check", "report", "reported"}
    /\ hostClosing \in BOOLEAN /\ hostError \in BOOLEAN /\ windowClosing \in BOOLEAN
    /\ connection \in 0..spawned /\ child \in 0..spawned
    /\ childReady \in BOOLEAN
    /\ engine \in [Engines -> {"none", "booting", "serving", "gone", "ended"}]
    /\ gate \in {"open", "closing", "host", "plugin"} /\ work \in BOOLEAN
    /\ saving \in [Savers -> {"none", "pending", "active"}] /\ savesClosed \in BOOLEAN
    /\ lease \in {"shared", "exclusive"} /\ other \in {"absent", "open", "orphan"}
    /\ spawned \in 0..MaxEngines /\ updFaults \in 0..MaxUpdFaults

UpdatesInit ==
    /\ updPhase = "idle" /\ updRelease = 0 /\ updBytes = 0 /\ fetched = 0
    /\ installing = "none" /\ starting = "spawn" /\ quitting = "none" /\ monitor = "look"
    /\ hostClosing = FALSE /\ hostError = FALSE /\ windowClosing = FALSE /\ connection = 0
    /\ child = 0 /\ childReady = FALSE /\ engine = [e \in Engines |-> "none"]
    /\ gate = "open" /\ work = FALSE /\ spawned = 0
    /\ saving = [s \in Savers |-> "none"] /\ savesClosed = FALSE
    /\ lease = "shared" /\ other = "absent"
    /\ updFaults = 0

Alive(e) == engine[e] \in {"booting", "serving"}
HostRuns == quitting # "exited" /\ installing # "restarted"
HostServes(e) == e # 0 /\ e = spawned /\ engine[e] = "serving"
UpdFails == updFaults < MaxUpdFaults /\ updFaults' = updFaults + 1
Busy == updPhase \in {"checking", "downloading", "installing"}

Exited(e) == [engine EXCEPT ![e] = CASE @ = "booting" -> "gone" [] @ = "serving" -> "ended" [] OTHER -> @]

\* shutdown of the owned child: it ends by itself or is killed, or the kill fails.
ShutChildDown ==
    \/ child = 0 /\ UNCHANGED <<engine, work, updFaults>>
    \/ child # 0 /\ engine' = Exited(child) /\ work' = FALSE /\ UNCHANGED updFaults
    \/ child # 0 /\ Alive(child) /\ UpdFails /\ UNCHANGED <<engine, work>>

-----------------------------------------------------------------------------
(* Checking and downloading                                                *)

BeginCheck ==
    /\ HostRuns /\ ~Busy
    /\ updPhase' = "checking" /\ updRelease' = 0 /\ updBytes' = 0
    /\ UNCHANGED <<fetched, updHost, updEngine, updSaves, updThreads, updProfile, updFaults>>

\* The release that was found, none, or a failure.
EndCheck ==
    /\ HostRuns /\ updPhase = "checking"
    /\ \/ \E r \in 1..MaxReleases : updRelease' = r /\ updPhase' = "available"
       \/ updPhase' \in {"current", "error"} /\ UNCHANGED updRelease
    /\ UNCHANGED <<updBytes, fetched, updHost, updEngine, updSaves, updThreads, updProfile, updFaults>>

BeginDownload ==
    /\ HostRuns /\ updPhase = "available"
    /\ updPhase' = "downloading" /\ fetched' = updRelease
    /\ UNCHANGED <<updRelease, updBytes, updHost, updEngine, updSaves, updThreads, updProfile, updFaults>>

EndDownload ==
    /\ HostRuns /\ fetched # 0
    /\ \/ updBytes' = fetched /\ updPhase' = "ready"
       \/ updPhase' = "available" /\ UNCHANGED updBytes
    /\ fetched' = 0
    /\ UNCHANGED <<updRelease, updHost, updEngine, updSaves, updThreads, updProfile, updFaults>>

-----------------------------------------------------------------------------
(* The engine process and what goes on in it                               *)

\* spawn, under the mutex of the child, which refuses while an earlier one may run.
Spawn ==
    /\ spawned < MaxEngines
    /\ spawned' = spawned + 1
    /\ child' = spawned' /\ childReady' = FALSE
    /\ engine' = [engine EXCEPT ![spawned'] = "booting"]
    /\ gate' = "open" /\ work' = FALSE

SpawnAllowed == \A e \in Engines : e = child => ~Alive(e)

StartEngine ==
    /\ HostRuns /\ starting = "spawn"
    /\ \/ ~hostClosing /\ SpawnAllowed /\ Spawn /\ starting' = "wait" /\ UNCHANGED updFaults
       \/ /\ hostClosing \/ ~SpawnAllowed
          /\ starting' = "report" /\ UNCHANGED <<updEngine, updFaults>>
       \/ UpdFails /\ starting' = "report" /\ UNCHANGED updEngine
    /\ UNCHANGED <<updRows, updHost, updSaves, installing, quitting, monitor, updProfile>>

\* The engine has announced itself (it may have ended since): mark_ready, connected.
EngineConnects ==
    /\ engine[spawned] \in {"serving", "ended"}
    /\ childReady' = (child # 0)
    /\ connection' = spawned /\ hostError' = FALSE
    /\ UNCHANGED <<child, engine, gate, work, spawned, updFaults>>

\* It ends before that or does not do it in time: it is shut down, and forgotten once it has exited.
EngineDoesNotConnect ==
    /\ \/ engine[spawned] = "gone" /\ UNCHANGED <<engine, updFaults>>
       \/ engine[spawned] = "booting" /\ UpdFails
          /\ engine' \in {Exited(spawned), engine}
    /\ child' = IF child # 0 /\ engine'[child] \notin {"booting", "serving"} THEN 0 ELSE child
    /\ UNCHANGED <<childReady, gate, work, spawned, connection, hostError>>

StartEnds ==
    /\ HostRuns /\ starting = "wait"
    /\ \/ EngineConnects /\ starting' = "done"
       \/ EngineDoesNotConnect /\ starting' = "report"
    /\ UNCHANGED <<updRows, hostClosing, windowClosing, updSaves, installing, quitting, monitor, updProfile>>

StartReports ==
    /\ HostRuns /\ starting = "report"
    /\ hostError' = TRUE /\ starting' = "done"
    /\ UNCHANGED <<updRows, hostClosing, windowClosing, connection, updEngine, updSaves, installing,
                   quitting, monitor, updProfile, updFaults>>

\* profile_lock: the engine registers as a writer before it opens anything.
EngineRegisters ==
    /\ spawned # 0 /\ engine[spawned] = "booting"
    /\ engine' = [engine EXCEPT ![spawned] = IF lease = "shared" THEN "serving" ELSE "gone"]
    /\ UNCHANGED <<updRows, updHost, child, childReady, gate, work, spawned, updSaves, updThreads,
                   updProfile, updFaults>>

EngineCrashes ==
    /\ spawned # 0 /\ Alive(spawned)
    /\ UpdFails
    /\ engine' = Exited(spawned) /\ work' = FALSE
    /\ UNCHANGED <<updRows, updHost, child, childReady, gate, spawned, updSaves, updThreads, updProfile>>

\* Requests of the page, jobs, and the plugin's own use of the admission gate.
EngineWorks ==
    /\ HostServes(spawned) /\ gate = "open"
    /\ \/ work' = ~work /\ UNCHANGED gate
       \/ ~work /\ gate' = "plugin" /\ UNCHANGED work
    /\ UNCHANGED <<updRows, updHost, child, childReady, engine, spawned, updSaves, updThreads,
                   updProfile, updFaults>>

\* The verdict of UpdateGuard.prepare, which has closed the gate before it looked.
EngineDecides ==
    /\ HostServes(spawned) /\ gate = "closing"
    /\ gate' = IF work THEN "open" ELSE "host"
    /\ UNCHANGED <<updRows, updHost, child, childReady, engine, work, spawned, updSaves, updThreads,
                   updProfile, updFaults>>

\* What was admitted before the gate closed comes to its end.
EngineFinishesWork ==
    /\ HostServes(spawned) /\ gate = "closing" /\ work
    /\ work' = FALSE
    /\ UNCHANGED <<updRows, updHost, child, childReady, engine, gate, spawned, updSaves, updThreads,
                   updProfile, updFaults>>

PluginOpensGate ==
    /\ HostServes(spawned) /\ gate = "plugin"
    /\ gate' = "open"
    /\ UNCHANGED <<updRows, updHost, child, childReady, engine, work, spawned, updSaves, updThreads,
                   updProfile, updFaults>>

-----------------------------------------------------------------------------
(* Native saves                                                            *)

ReserveSave(s) ==
    /\ HostRuns /\ saving[s] = "none"
    /\ connection # 0 /\ ~hostError /\ ~windowClosing
    /\ ~savesClosed
    /\ saving' = [saving EXCEPT ![s] = "pending"]
    /\ UNCHANGED <<updRows, updHost, updEngine, savesClosed, updThreads, updProfile, updFaults>>

\* The dialogs are answered: begin refuses when saving is closed.
ConfirmSave(s) ==
    /\ HostRuns /\ saving[s] = "pending"
    /\ \/ ~savesClosed /\ saving' = [saving EXCEPT ![s] = "active"]
       \/ saving' = [saving EXCEPT ![s] = "none"]
    /\ UNCHANGED <<updRows, updHost, updEngine, savesClosed, updThreads, updProfile, updFaults>>

EndSave(s) ==
    /\ HostRuns /\ saving[s] = "active"
    /\ saving' = [saving EXCEPT ![s] = "none"]
    /\ UNCHANGED <<updRows, updHost, updEngine, savesClosed, updThreads, updProfile, updFaults>>

-----------------------------------------------------------------------------
(* The other instance, the watch over the engine, and an explicit quit     *)

\* It opens unless the admission gate of the profile is taken; it closes, or crashes
\* and leaves an engine that writes until it notices.
OtherChanges ==
    /\ \/ other = "absent" /\ lease = "shared" /\ other' = "open"
       \/ other = "open" /\ other' \in {"absent", "orphan"}
       \/ other = "orphan" /\ other' = "absent"
    /\ UNCHANGED <<updRows, updHost, updEngine, updSaves, updThreads, lease, updFaults>>

Monitor ==
    /\ HostRuns
    /\ \/ monitor = "look" /\ ~hostClosing /\ monitor' = "check" /\ UNCHANGED hostError
       \/ /\ monitor = "check"
          /\ monitor' = IF child # 0 /\ childReady /\ ~Alive(child) THEN "report" ELSE "look"
          /\ UNCHANGED hostError
       \/ monitor = "report" /\ hostError' = TRUE /\ monitor' = "reported"
       \/ monitor = "reported" /\ hostClosing /\ monitor' = "look" /\ UNCHANGED hostError
    /\ UNCHANGED <<updRows, hostClosing, windowClosing, connection, updEngine, updSaves, installing,
                   starting, quitting, updProfile, updFaults>>

RequestQuit ==
    /\ HostRuns /\ quitting = "none" /\ ~hostClosing
    /\ hostClosing' = TRUE /\ quitting' = "close"
    /\ UNCHANGED <<updRows, hostError, windowClosing, connection, updEngine, updSaves, installing,
                   starting, monitor, updProfile, updFaults>>

QuitCloses ==
    /\ quitting = "close"
    /\ savesClosed' = TRUE /\ windowClosing' = TRUE /\ quitting' = "drain"
    /\ UNCHANGED <<updRows, hostClosing, hostError, connection, updEngine, saving, installing, starting,
                   monitor, updProfile, updFaults>>

QuitWaits ==
    /\ quitting = "drain" /\ \A s \in Savers : saving[s] # "active"
    /\ quitting' = "take"
    /\ UNCHANGED <<updRows, updHost, updEngine, updSaves, installing, starting, monitor, updProfile,
                   updFaults>>

\* The child is taken and shut down under its mutex.
QuitStopsEngine ==
    /\ quitting = "take"
    /\ ShutChildDown /\ child' = 0 /\ quitting' = "leave"
    /\ UNCHANGED <<updRows, updHost, childReady, gate, spawned, updSaves, installing, starting, monitor,
                   updProfile>>

QuitLeaves ==
    /\ quitting = "leave" /\ quitting' = "exited"
    /\ UNCHANGED <<updRows, updHost, updEngine, updSaves, installing, starting, monitor, updProfile,
                   updFaults>>

-----------------------------------------------------------------------------
(* Installing                                                              *)

BeginInstall ==
    /\ HostRuns /\ updPhase = "ready"
    /\ updPhase' = "installing" /\ installing' = "begin"
    /\ UNCHANGED <<updRelease, updBytes, fetched, updHost, updEngine, updSaves, starting, quitting,
                   monitor, updProfile, updFaults>>

InstallGoesTo(from, to) ==
    /\ quitting # "exited" /\ installing = from /\ installing' = to
    /\ UNCHANGED <<updRows, starting, quitting, monitor>>

ReadConnection ==
    /\ InstallGoesTo("begin", IF windowClosing \/ hostError \/ connection = 0 THEN "failed" ELSE "lease")
    /\ UNCHANGED <<updHost, updEngine, updSaves, updProfile, updFaults>>

OthersAreQuiet ==
    other = "absent" /\ \A e \in Engines : engine[e] = "serving" => e = child /\ childReady

\* exclusive: neither a second host nor an engine that is not the owned one.
TakeProfile ==
    /\ InstallGoesTo("lease", IF OthersAreQuiet THEN "claim" ELSE "failed")
    /\ lease' = IF OthersAreQuiet THEN "exclusive" ELSE "shared"
    /\ UNCHANGED <<updHost, updEngine, updSaves, other, updFaults>>

Claim ==
    /\ InstallGoesTo("claim", IF hostClosing THEN "failed" ELSE "saves")
    /\ hostClosing' = TRUE
    /\ UNCHANGED <<hostError, windowClosing, connection, updEngine, updSaves, updProfile, updFaults>>

Idle == ~savesClosed /\ \A s \in Savers : saving[s] = "none"

CloseSaves ==
    /\ InstallGoesTo("saves", IF Idle THEN "prepare" ELSE "failed")
    /\ IF Idle THEN savesClosed' = TRUE /\ windowClosing' = TRUE /\ UNCHANGED hostClosing
       ELSE hostClosing' = FALSE /\ UNCHANGED <<savesClosed, windowClosing>>
    /\ UNCHANGED <<hostError, connection, updEngine, saving, updProfile, updFaults>>

\* The request reaches an open gate, or is refused or lost.
Prepare ==
    /\ \/ /\ HostServes(connection) /\ gate = "open"
          /\ InstallGoesTo("prepare", "decide") /\ gate' = "closing" /\ UNCHANGED updFaults
       \/ /\ ~HostServes(connection) \/ gate # "open"
          /\ InstallGoesTo("prepare", "cancel") /\ UNCHANGED <<gate, updFaults>>
       \/ UpdFails /\ InstallGoesTo("prepare", "cancel") /\ UNCHANGED gate
    /\ UNCHANGED <<updHost, child, childReady, engine, work, spawned, updSaves, updProfile>>

PrepareReply ==
    /\ \/ HostServes(connection) /\ gate = "host" /\ InstallGoesTo("decide", "plan") /\ UNCHANGED updFaults
       \/ (~HostServes(connection) \/ gate \notin {"closing", "host"})
          /\ InstallGoesTo("decide", "cancel") /\ UNCHANGED updFaults
       \/ UpdFails /\ InstallGoesTo("decide", "cancel")
    /\ UNCHANGED <<updHost, updEngine, updSaves, updProfile>>

BackupPlan ==
    /\ \/ HostServes(connection) /\ InstallGoesTo("plan", "stop") /\ UNCHANGED updFaults
       \/ ~HostServes(connection) /\ InstallGoesTo("plan", "cancel") /\ UNCHANGED updFaults
       \/ UpdFails /\ InstallGoesTo("plan", "cancel")
    /\ UNCHANGED <<updHost, updEngine, updSaves, updProfile>>

Unavailable ==
    /\ connection' = 0 /\ hostError' = TRUE /\ windowClosing' = FALSE /\ hostClosing' = FALSE

\* Cancelling waits for the verdict; what cannot be confirmed ends the session.
CancelPreparation ==
    /\ ~(HostServes(connection) /\ gate = "closing")
    /\ LET opened == HostServes(connection) /\ gate # "plugin" IN
       \/ opened /\ gate' = "open" /\ InstallGoesTo("cancel", "window") /\ UNCHANGED <<updHost, updFaults>>
       \/ ~opened /\ UNCHANGED <<gate, updFaults>> /\ InstallGoesTo("cancel", "failed") /\ Unavailable
       \/ /\ opened /\ UpdFails /\ gate' \in {gate, "open"}
          /\ InstallGoesTo("cancel", "failed") /\ Unavailable
    /\ UNCHANGED <<child, childReady, engine, work, spawned, updSaves, updProfile>>

StopEngine ==
    /\ ShutChildDown
    /\ IF child # 0 /\ engine'[child] \in {"booting", "serving"}
       THEN InstallGoesTo("stop", "failed") /\ Unavailable /\ UNCHANGED child
       ELSE InstallGoesTo("stop", "quiesce") /\ child' = 0 /\ UNCHANGED updHost
    /\ UNCHANGED <<childReady, gate, spawned, updSaves, updProfile>>

\* quiescent, the verified copy, the installer: a failure of each leads to recovery.
Quiesce ==
    /\ \/ /\ InstallGoesTo("quiesce", IF OthersAreQuiet THEN "snapshot" ELSE "recover")
          /\ UNCHANGED updFaults
       \/ UpdFails /\ InstallGoesTo("quiesce", "recover")
    /\ UNCHANGED <<updHost, updEngine, updSaves, updProfile>>

Snapshot ==
    /\ \/ InstallGoesTo("snapshot", "installer") /\ UNCHANGED updFaults
       \/ UpdFails /\ InstallGoesTo("snapshot", "recover")
    /\ UNCHANGED <<updHost, updEngine, updSaves, updProfile>>

Installer ==
    /\ \/ InstallGoesTo("installer", "restarted") /\ UNCHANGED updFaults
       \/ UpdFails /\ InstallGoesTo("installer", "recover")
    /\ UNCHANGED <<updHost, updEngine, updSaves, updProfile>>

\* The lease is released, then an engine started: the flag of closing is this thread's own.
Recover ==
    /\ lease' = "shared" /\ connection' = 0
    /\ \/ SpawnAllowed /\ Spawn /\ InstallGoesTo("recover", "wait") /\ UNCHANGED updFaults
       \/ UpdFails /\ InstallGoesTo("recover", "broken") /\ UNCHANGED updEngine
    /\ UNCHANGED <<hostClosing, hostError, windowClosing, updSaves, other>>

RecoveryEnds ==
    /\ \/ InstallGoesTo("wait", "window") /\ EngineConnects
       \/ InstallGoesTo("wait", "broken") /\ EngineDoesNotConnect
    /\ UNCHANGED <<hostClosing, windowClosing, updSaves, updProfile>>

RecoveryFails ==
    /\ InstallGoesTo("broken", "unclaim")
    /\ windowClosing' = FALSE /\ hostError' = TRUE
    /\ UNCHANGED <<hostClosing, connection, updEngine, updSaves, updProfile, updFaults>>

OpenWindow ==
    /\ InstallGoesTo("window", "reopen")
    /\ windowClosing' = FALSE
    /\ UNCHANGED <<hostClosing, hostError, connection, updEngine, updSaves, updProfile, updFaults>>

ReopenSaves ==
    /\ InstallGoesTo("reopen", "unclaim")
    /\ savesClosed' = FALSE
    /\ UNCHANGED <<updHost, updEngine, saving, updProfile, updFaults>>

Unclaim ==
    /\ InstallGoesTo("unclaim", "failed")
    /\ hostClosing' = FALSE
    /\ UNCHANGED <<hostError, windowClosing, connection, updEngine, updSaves, updProfile, updFaults>>

\* The lease ends with the call; the installer is kept for another attempt.
InstallFails ==
    /\ quitting # "exited" /\ installing = "failed"
    /\ installing' = "none" /\ updPhase' = "ready" /\ lease' = "shared"
    /\ UNCHANGED <<updRelease, updBytes, fetched, updHost, updEngine, updSaves, starting, quitting,
                   monitor, other, updFaults>>

InstallStep ==
    \/ ReadConnection \/ TakeProfile \/ Claim \/ CloseSaves \/ Prepare \/ PrepareReply \/ BackupPlan
    \/ CancelPreparation \/ StopEngine \/ Quiesce \/ Snapshot \/ Installer \/ Recover \/ RecoveryEnds
    \/ RecoveryFails \/ OpenWindow \/ ReopenSaves \/ Unclaim \/ InstallFails

QuitStep == QuitCloses \/ QuitWaits \/ QuitStopsEngine \/ QuitLeaves

UpdatesNext ==
    \/ BeginCheck \/ EndCheck \/ BeginDownload \/ EndDownload
    \/ StartEngine \/ StartEnds \/ StartReports
    \/ EngineRegisters \/ EngineCrashes \/ EngineWorks \/ EngineDecides \/ EngineFinishesWork
    \/ PluginOpensGate
    \/ \E s \in Savers : ReserveSave(s) \/ ConfirmSave(s) \/ EndSave(s)
    \/ OtherChanges \/ Monitor \/ RequestQuit \/ QuitStep
    \/ BeginInstall \/ InstallStep

\* Threads and processes run; a user may leave the application open, and an instance on
\* another desktop too.
UpdatesFairness ==
    /\ WF_updVars(StartEngine \/ StartEnds \/ StartReports)
    /\ WF_updVars(EngineRegisters) /\ WF_updVars(EngineDecides)
    /\ \A s \in Savers : WF_updVars(EndSave(s))
    /\ WF_updVars(QuitStep) /\ WF_updVars(InstallStep)

-----------------------------------------------------------------------------
(* Properties                                                              *)

\* What is copied before the installation, and replaced by it, nobody writes any more
\* (profile.rs exclusive, quiescent; updates.rs snapshot).
BackupsAreOfQuietData ==
    installing \in {"snapshot", "installer", "restarted"} =>
        lease = "exclusive" /\ other = "absent" /\ \A e \in Engines : ~Alive(e)

\* An installation that goes on interrupts neither saves nor work of the engine
\* (close_if_idle, UpdateGuard.prepare).
UpdateInterruptsNothing ==
    installing \in {"plan", "stop", "quiesce", "snapshot", "installer", "restarted"} =>
        ~work /\ \A s \in Savers : saving[s] = "none"

\* An explicit quit is not taken back, waits for saves, and leaves no engine it owns.
QuitStaysQuit ==
    /\ quitting # "none" => hostClosing
    /\ quitting \in {"drain", "take", "leave", "exited"} => savesClosed /\ windowClosing
    /\ quitting \in {"take", "leave", "exited"} => \A s \in Savers : saving[s] # "active"
    /\ quitting \in {"leave", "exited"} => child = 0

\* There is one engine, the host owns it while it runs, and the page talks to no older one.
OneEngine ==
    /\ \A e \in Engines : Alive(e) => e = child \/ quitting \in {"leave", "exited"}
    /\ connection \in {0, spawned}

\* Saving, requests and quitting are refused only while somebody installs or quits, or
\* in a session that tells its user to quit.
ClosedDoorsHaveOwner ==
    installing = "none" /\ quitting = "none" =>
        /\ ~hostClosing /\ ~windowClosing
        /\ savesClosed \/ gate \in {"closing", "host"} => hostError

\* What would be installed is the release that is shown.
BytesBelongToRelease ==
    updPhase \in {"ready", "installing"} => updBytes # 0 /\ updBytes = updRelease

\* The native host: see its parts.
UpdatesAreSafe ==
    /\ BackupsAreOfQuietData /\ UpdateInterruptsNothing /\ QuitStaysQuit
    /\ OneEngine /\ ClosedDoorsHaveOwner /\ BytesBelongToRelease

\* An installation that was begun ends, in a new application or in the old one, and so
\* does a quit.
UpdatesEnd ==
    /\ installing # "none" ~> installing \in {"none", "restarted"} \/ quitting = "exited"
    /\ quitting # "none" ~> quitting = "exited"

=============================================================================
