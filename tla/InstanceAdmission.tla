--------------------------- MODULE InstanceAdmission ---------------------------
(***************************************************************************)
(* Who may open a Desktop workspace and the user's profile (instance.rs,   *)
(* profile.rs, migration/ownership.py): native hosts and the engines they  *)
(* start, engines that are started alone, and the update of a host, which  *)
(* needs the profile for itself.  Everything rests on locks the operating  *)
(* system releases when a process dies, and on a discovery record it does  *)
(* not remove.                                                             *)
(***************************************************************************)
EXTENDS Naturals, FiniteSets

CONSTANTS
    Hosts,            \* launches of the application; each starts at most one engine
    Lone,             \* engines started without a host
    Places,           \* Desktop workspaces of one user
    Home,             \* the workspace of each host and lone engine
    Ports,            \* loopback ports
    MaxHostCrashes    \* bound: hosts that die

ASSUME InstanceAdmissionAssumption ==
    /\ Hosts \cap Lone = {} /\ Home \in [Hosts \cup Lone -> Places]
    /\ "nobody" \notin Hosts \cup Lone \cup Ports /\ MaxHostCrashes \in Nat

VARIABLES
    host,        \* each host: where it is
    port,        \* the port its listener is bound to
    pendingWake, \* Dispatch.pending: an activation before the handler is installed
    launch,      \* what a launch that is not the first was told, and by whom
    record,      \* .desktop-instance.json of each workspace: a port and a generation
    workspaceLock, \* .desktop-instance.lock of each workspace
    sidecar,     \* the engine of each host, and each lone engine
    runtimeLock, \* .desktop.lock of each workspace
    upgrade,     \* the host that holds the admission gate, and how far it is
    shown,       \* history: hosts whose window has been restored for a launch
    notified,    \* history: hosts that told their user it could not be restored
    hostCrashes

launchVars == <<pendingWake, launch, shown, notified>>
hostVars == <<host, port, record, workspaceLock>>
engineVars == <<sidecar, runtimeLock>>
instVars == <<hostVars, launchVars, engineVars, upgrade, hostCrashes>>

Nobody == "nobody"
AnyEngine == Hosts \cup Lone
NoUpgrade == [host |-> Nobody, at |-> "none"]
NoRecord == [port |-> Nobody, generation |-> Nobody]

InstTypeOK ==
    /\ host \in [Hosts -> {"none", "entering", "locked", "bound", "profile", "running", "closing",
                       "gone"}]
    /\ port \in [Hosts -> Ports \cup {Nobody}]
    /\ pendingWake \in [Hosts -> BOOLEAN] /\ shown \subseteq Hosts /\ notified \subseteq Hosts
    /\ launch \in [Hosts -> [reply : {"none", "starting", "activated", "closing", "unreachable"},
                             by : Hosts \cup {Nobody}]]
    /\ record \in [Places -> [port : Ports \cup {Nobody}, generation : Hosts \cup {Nobody}]]
    /\ workspaceLock \in [Places -> Hosts \cup {Nobody}]
    /\ sidecar \in [AnyEngine -> {"none", "spawned", "proved", "leased", "writing", "dead"}]
    /\ runtimeLock \in [Places -> AnyEngine \cup {Nobody}]
    /\ upgrade \in [host : Hosts \cup {Nobody}, at : {"none", "exclusive", "quiet"}]
    /\ hostCrashes \in 0..MaxHostCrashes

InstInit ==
    /\ host = [h \in Hosts |-> "none"] /\ port = [h \in Hosts |-> Nobody]
    /\ pendingWake = [h \in Hosts |-> FALSE] /\ shown = {} /\ notified = {}
    /\ launch = [h \in Hosts |-> [reply |-> "none", by |-> Nobody]]
    /\ record = [w \in Places |-> NoRecord]
    /\ workspaceLock = [w \in Places |-> Nobody]
    /\ sidecar = [e \in AnyEngine |-> "none"] /\ runtimeLock = [w \in Places |-> Nobody]
    /\ upgrade = NoUpgrade /\ hostCrashes = 0

Listening(h) == port[h] # Nobody
FreePorts == {n \in Ports : \A h \in Hosts : port[h] # n}
HostAt(h, at) == host[h] = at
HostGoes(h, at) == host' = [host EXCEPT ![h] = at]
EngineGoes(e, at) == sidecar' = [sidecar EXCEPT ![e] = at]
\* A handle that is closed, by the process or by its death.
Unlocked(locks, holder) == [w \in Places |-> IF locks[w] = holder THEN Nobody ELSE locks[w]]

\* Profile.file: the shared lock of running hosts and lone engines.
Sharers == {h \in Hosts : host[h] \in {"profile", "running", "closing"}}
           \cup {e \in Lone : sidecar[e] \in {"leased", "writing"}}
\* .desktop-writers: the locked leases of engines that have a host.
LiveWriters == {e \in Hosts : sidecar[e] \in {"leased", "writing"}}
GateIsFree == upgrade.host = Nobody

-----------------------------------------------------------------------------
(* Launching                                                               *)

Launch(h) ==
    /\ HostAt(h, "none") /\ HostGoes(h, "entering")
    /\ UNCHANGED <<port, record, workspaceLock, launchVars, engineVars, upgrade, hostCrashes>>

\* enter: the lock decides.  start looks whether an engine still works there.
EnterWorkspace(h) ==
    LET w == Home[h] IN
    /\ HostAt(h, "entering") /\ workspaceLock[w] = Nobody
    /\ IF runtimeLock[w] # Nobody
       THEN /\ HostGoes(h, "gone") /\ launch' = [launch EXCEPT ![h].reply = "closing"]
            /\ UNCHANGED workspaceLock
       ELSE /\ HostGoes(h, "locked") /\ workspaceLock' = [workspaceLock EXCEPT ![w] = h]
            /\ UNCHANGED launch
    /\ UNCHANGED <<port, record, pendingWake, shown, notified, engineVars, upgrade, hostCrashes>>

\* The listener is bound before the record leads to it.
Bind(h, n) ==
    /\ HostAt(h, "locked") /\ n \in FreePorts
    /\ HostGoes(h, "bound") /\ port' = [port EXCEPT ![h] = n]
    /\ record' = [record EXCEPT ![Home[h]] = [port |-> n, generation |-> h]]
    /\ UNCHANGED <<workspaceLock, launchVars, engineVars, upgrade, hostCrashes>>

\* respond: a request that names another generation gets no answer.
Answers(w, o) == Listening(o) /\ record[w].port = port[o] /\ record[w].generation = o

\* Activation.request, without a handler and with one: the window is restored, is not, or
\* is after the time the handler waits for it.
WakeEarly(o, h) ==
    /\ launch' = [launch EXCEPT ![h] = [reply |-> "starting", by |-> o]]
    /\ pendingWake' = [pendingWake EXCEPT ![o] = TRUE] /\ UNCHANGED <<shown, notified>>
WakeRunning(o, h) ==
    \/ /\ launch' = [launch EXCEPT ![h] = [reply |-> "activated", by |-> o]]
       /\ shown' = shown \cup {o} /\ UNCHANGED <<pendingWake, notified>>
    \/ /\ launch' = [launch EXCEPT ![h] = [reply |-> "unreachable", by |-> o]]
       /\ shown' \in {shown, shown \cup {o}} /\ UNCHANGED <<pendingWake, notified>>

WakeClosing(o, h) ==
    /\ launch' = [launch EXCEPT ![h] = [reply |-> "closing", by |-> o]]
    /\ UNCHANGED <<pendingWake, shown, notified>>

\* forward: the lock is held; its owner is asked to show its window.
Forward(h, o) ==
    LET w == Home[h] IN
    /\ HostAt(h, "entering") /\ workspaceLock[w] # Nobody /\ Answers(w, o)
    /\ HostGoes(h, "gone")
    /\ CASE HostAt(o, "running") -> WakeRunning(o, h)
         [] HostAt(o, "closing") -> WakeClosing(o, h)
         [] OTHER -> WakeEarly(o, h)
    /\ UNCHANGED <<port, record, workspaceLock, engineVars, upgrade, hostCrashes>>

\* Nobody answers within WAKE_TIMEOUT.
GiveUp(h) ==
    /\ HostAt(h, "entering") /\ workspaceLock[Home[h]] # Nobody /\ HostGoes(h, "gone")
    /\ launch' = [launch EXCEPT ![h].reply = "unreachable"]
    /\ UNCHANGED <<port, record, workspaceLock, pendingWake, shown, notified, engineVars, upgrade,
                   hostCrashes>>

-----------------------------------------------------------------------------
(* The profile, the engine and the end of a host                           *)

HostEnds(h) ==
    /\ HostGoes(h, "gone") /\ port' = [port EXCEPT ![h] = Nobody]
    /\ workspaceLock' = Unlocked(workspaceLock, h)
    /\ UNCHANGED record

\* Profile::enter: while an update has the gate, the launch ends with a notice.
EnterProfile(h) ==
    /\ HostAt(h, "bound")
    /\ IF GateIsFree THEN HostGoes(h, "profile") /\ UNCHANGED <<port, record, workspaceLock>>
       ELSE HostEnds(h)
    /\ UNCHANGED <<launchVars, engineVars, upgrade, hostCrashes>>

\* activate_instance: installing the handler and taking earlier requests are one step; a
\* window that cannot be restored for them is reported here.
Ready(h) ==
    /\ HostAt(h, "profile") /\ HostGoes(h, "running")
    /\ pendingWake' = [pendingWake EXCEPT ![h] = FALSE]
    /\ \/ ~pendingWake[h] /\ UNCHANGED <<shown, notified>>
       \/ pendingWake[h] /\ shown' = shown \cup {h} /\ UNCHANGED notified
       \/ pendingWake[h] /\ notified' = notified \cup {h} /\ UNCHANGED shown
    /\ UNCHANGED <<port, record, workspaceLock, launch, engineVars, upgrade, hostCrashes>>

\* A thread of setup starts the engine, an update that was given up starts another.
StartHostEngine(h) ==
    /\ host[h] \in {"profile", "running"} /\ sidecar[h] \in {"none", "dead"} /\ upgrade.host # h
    /\ EngineGoes(h, "spawned")
    /\ UNCHANGED <<hostVars, launchVars, runtimeLock, upgrade, hostCrashes>>

\* NativeOwner.valid: parent, record and a proof from the socket of the owner.
OwnerIsValid(e) == Answers(Home[e], e)

ReadProof(e) ==
    /\ sidecar[e] = "spawned"
    /\ EngineGoes(e, IF OwnerIsValid(e) THEN "proved" ELSE "dead")
    /\ UNCHANGED <<hostVars, launchVars, runtimeLock, upgrade, hostCrashes>>

\* profile_lock: behind the gate, the owner is verified again and the lease is locked.
TakeLease(e) ==
    /\ sidecar[e] = "proved"
    /\ EngineGoes(e, IF GateIsFree /\ OwnerIsValid(e) THEN "leased" ELSE "dead")
    /\ UNCHANGED <<hostVars, launchVars, runtimeLock, upgrade, hostCrashes>>

\* profile_lock of an engine without an owner.
StartLone(e) ==
    /\ e \in Lone /\ sidecar[e] = "none"
    /\ EngineGoes(e, IF GateIsFree THEN "leased" ELSE "dead")
    /\ UNCHANGED <<hostVars, launchVars, runtimeLock, upgrade, hostCrashes>>

\* LocalRuntime: one engine of a workspace.
LockRuntime(e) ==
    LET w == Home[e] IN
    /\ sidecar[e] = "leased"
    /\ IF runtimeLock[w] = Nobody
       THEN EngineGoes(e, "writing") /\ runtimeLock' = [runtimeLock EXCEPT ![w] = e]
       ELSE EngineGoes(e, "dead") /\ UNCHANGED runtimeLock
    /\ UNCHANGED <<hostVars, launchVars, upgrade, hostCrashes>>

\* It stops, fails or is killed; an orphan does when it sees the end of its pipe.
EngineEnds(e) ==
    /\ sidecar[e] \notin {"none", "dead"} /\ EngineGoes(e, "dead")
    /\ runtimeLock' = Unlocked(runtimeLock, e)
    /\ UNCHANGED <<hostVars, launchVars, upgrade, hostCrashes>>

QuitHost(h) ==
    /\ HostAt(h, "running") /\ upgrade.host # h /\ HostGoes(h, "closing")
    /\ UNCHANGED <<port, record, workspaceLock, launchVars, engineVars, upgrade, hostCrashes>>

\* The engine was told to stop; one that cannot be killed is left behind.
FinishQuit(h) ==
    /\ HostAt(h, "closing") /\ HostEnds(h)
    /\ UNCHANGED <<launchVars, engineVars, upgrade, hostCrashes>>

HostCrashes(h) ==
    /\ host[h] \notin {"none", "gone"} /\ hostCrashes < MaxHostCrashes
    /\ hostCrashes' = hostCrashes + 1 /\ HostEnds(h)
    /\ upgrade' = IF upgrade.host = h THEN NoUpgrade ELSE upgrade
    /\ UNCHANGED <<launchVars, engineVars>>

-----------------------------------------------------------------------------
(* An update                                                               *)

\* Profile.exclusive: no other host or lone engine, no engine but the own one.
TakeExclusive(h) ==
    /\ HostAt(h, "running") /\ GateIsFree /\ Sharers = {h} /\ LiveWriters \subseteq {h}
    /\ upgrade' = [host |-> h, at |-> "exclusive"]
    /\ UNCHANGED <<hostVars, launchVars, engineVars, hostCrashes>>

\* Mutant: the engine that was told to stop is taken to have stopped.
FindQuietUnchecked(h) ==
    /\ upgrade = [host |-> h, at |-> "exclusive"]
    /\ upgrade' = [host |-> h, at |-> "quiet"]
    /\ UNCHANGED <<hostVars, launchVars, engineVars, hostCrashes>>

\* Upgrade.quiescent, after the own engine was stopped: the profile is copied and the new
\* version installed.
FindQuiet(h) ==
    /\ upgrade = [host |-> h, at |-> "exclusive"] /\ LiveWriters = {}
    /\ upgrade' = [host |-> h, at |-> "quiet"]
    /\ UNCHANGED <<hostVars, launchVars, engineVars, hostCrashes>>

\* Drop of Upgrade: the shared lock is restored behind the gate.
EndUpgrade(h) ==
    /\ upgrade.host = h /\ upgrade' = NoUpgrade
    /\ UNCHANGED <<hostVars, launchVars, engineVars, hostCrashes>>

InstNext ==
    \/ \E h \in Hosts :
          \/ Launch(h) \/ EnterWorkspace(h) \/ GiveUp(h) \/ EnterProfile(h) \/ Ready(h)
          \/ StartHostEngine(h) \/ ReadProof(h) \/ TakeLease(h) \/ QuitHost(h) \/ FinishQuit(h)
          \/ HostCrashes(h)
          \/ TakeExclusive(h) \/ FindQuiet(h) \/ EndUpgrade(h)
          \/ \E n \in Ports : Bind(h, n)
          \/ \E o \in Hosts : Forward(h, o)
    \/ \E e \in AnyEngine : StartLone(e) \/ LockRuntime(e) \/ EngineEnds(e)

-----------------------------------------------------------------------------
(* Properties                                                              *)

\* While the profile is copied for an update nobody writes in it: no engine of another host,
\* none that outlived its host, none without a host, and not the own one (Profile.exclusive,
\* Upgrade.quiescent, profile_lock).
UpgradesAreAlone ==
    upgrade.at = "quiet" =>
        /\ \A e \in AnyEngine : sidecar[e] \notin {"leased", "writing"}
        /\ Sharers = {upgrade.host}

\* A launch that ends because the application runs already has reached the host of its own
\* workspace.  If it was told that the window is shown, it was; if it was told to wait, the
\* window was shown or the user told that it could not be, or one of them will happen when
\* the host is up, or the host is gone (forward, respond, Activation, activate_instance).
LaunchesReachTheOwner ==
    \A h \in Hosts :
        LET o == launch[h].by IN
        /\ launch[h].reply = "activated" => Home[o] = Home[h] /\ o \in shown
        /\ launch[h].reply = "starting" =>
             /\ Home[o] = Home[h]
             /\ \/ o \in shown \cup notified \/ HostAt(o, "gone")
                \/ pendingWake[o] /\ host[o] \in {"bound", "profile"}

=============================================================================
