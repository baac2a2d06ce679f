---------------------------- MODULE AgentManager ----------------------------
(***************************************************************************)
(* How the desktop shell reaches a local Agent (apps/desktop/src/main/     *)
(* agent-manager.ts): it attaches to the service of the machine when there *)
(* is one, and otherwise owns a private backend.  start runs on every      *)
(* refresh and before every change of a setting; its steps are separated   *)
(* by requests, file operations and process events, and nothing keeps two  *)
(* calls apart.                                                            *)
(***************************************************************************)
EXTENDS Integers, FiniteSets

CONSTANTS
    Calls,          \* calls of start and stop under way at a time
    MaxCalls,       \* in a run
    MaxPrivate,     \* private backends spawned in a run
    MaxOutages      \* starts and stops of the service of the machine

ASSUME ManagerAssumption == MaxCalls \in Nat /\ MaxPrivate \in Nat /\ MaxOutages \in Nat

VARIABLES
    service,        \* it listens
    tokenReadable,  \* this user may read its control token
    privates,       \* per backend "none", "running", "ending" (told to) or "exited"
    ownChild,       \* this.child, 0 for null
    baseUrl,        \* 0 for null, a private backend, or Service
    attached, readOnly,
    attachCache,    \* "none", or a result that is still young: "absent", "full" or "readonly"
    calls,          \* per call where it is, and the process or status it has in hand
    quitting,       \* the shell is shutting down
    callsMade, outages,
    overlapped,     \* history: a call began while another was under way
    serviceStopped  \* history: the shell has shut the service down

managerVars == <<service, tokenReadable, privates, ownChild, baseUrl, attached, readOnly, attachCache, calls,
                 quitting, callsMade, outages, overlapped, serviceStopped>>
environment == <<tokenReadable, outages>>

Service == -1
Resting == [at |-> "rest", child |-> 0]
At(label, c) == [at |-> label, child |-> c]
Running == {c \in 1 .. MaxPrivate : privates[c] = "running"}
Spawned == Cardinality({c \in 1 .. MaxPrivate : privates[c] # "none"})

----------------------------------------------------------------------------
(* Stopping a private backend.                                             *)

\* The request to shut down goes to whatever the shell is connected to; the
\* service obeys it when it comes with the token.
ShutdownRequest(url, authorized) ==
    /\ IF url = Service /\ service /\ authorized
       THEN service' = FALSE /\ serviceStopped' = TRUE
       ELSE UNCHANGED <<service, serviceStopped>>
    /\ privates' = IF url > 0 /\ privates[url] = "running" THEN [privates EXCEPT ![url] = "ending"] ELSE privates

\* stopChildIfRunning up to its wait.
BeginStopChild(p, url, authorized) ==
    /\ ShutdownRequest(url, authorized)
    /\ calls' = [calls EXCEPT ![p] = At("stopping", ownChild)]

\* forceStop.
ForceStopped(c) == IF privates[c] = "running" THEN [privates EXCEPT ![c] = "ending"] ELSE privates

\* It has exited, or its time is up.
StopChildEnds(p) ==
    /\ calls[p].at = "stopping"
    /\ privates' = ForceStopped(calls[p].child)
    /\ ownChild' = 0 /\ baseUrl' = 0
    /\ calls' = [calls EXCEPT ![p] = Resting]
    /\ UNCHANGED <<environment, service, attached, readOnly, attachCache, quitting, callsMade, overlapped,
                   serviceStopped>>

----------------------------------------------------------------------------
(* start.                                                                  *)

Begun(p) ==
    /\ calls[p] = Resting /\ callsMade < MaxCalls
    /\ callsMade' = callsMade + 1
    /\ overlapped' = (overlapped \/ \E q \in Calls : calls[q] # Resting)

\* Mutant: a child of one's own is kept when a service is found.
KeepsChild == FALSE

\* A service was found: a private backend is stopped.
HasChild == ownChild # 0

\* start goes on with a service; it has just become what the shell is connected to.
GoOnAttached(p, ro) ==
    /\ attached' = TRUE /\ readOnly' = ro /\ baseUrl' = Service /\ UNCHANGED ownChild
    /\ IF HasChild
       THEN BeginStopChild(p, Service, ~ro)
       ELSE calls' = [calls EXCEPT ![p] = Resting] /\ UNCHANGED <<service, serviceStopped, privates>>

\* A private backend that runs is kept.
KeptRunning == ownChild # 0 /\ privates[ownChild] \in {"running", "ending"}

\* start goes on without a service.
GoOnAlone(p) ==
    /\ calls' = [calls EXCEPT ![p] = IF KeptRunning THEN Resting ELSE At("spawning", 0)]
    /\ UNCHANGED <<service, serviceStopped, privates, ownChild, baseUrl, attached, readOnly>>

\* A young result is used again.
StartCached(p) ==
    /\ ~quitting /\ attachCache # "none" /\ Begun(p)
    /\ IF attachCache = "absent" THEN GoOnAlone(p) ELSE GoOnAttached(p, attachCache = "readonly")
    /\ UNCHANGED <<environment, attachCache, quitting>>

\* Otherwise the service is asked for its status.
StartProbe(p) ==
    /\ ~quitting /\ attachCache = "none" /\ Begun(p)
    /\ calls' = [calls EXCEPT ![p] = At("probing", 0)]
    /\ UNCHANGED <<environment, service, privates, ownChild, baseUrl, attached, readOnly, attachCache, quitting,
                   serviceStopped>>

\* It does not answer.
ProbeAbsent(p) ==
    /\ calls[p].at = "probing" /\ ~service
    /\ attachCache' = "absent"
    /\ GoOnAlone(p)
    /\ UNCHANGED <<environment, quitting, callsMade, overlapped>>

\* It answers: the token is read and the state asked for.
ProbeFound(p) ==
    /\ calls[p].at = "probing" /\ service
    /\ calls' = [calls EXCEPT ![p] = At("attaching", 0)]
    /\ UNCHANGED <<environment, service, privates, ownChild, baseUrl, attached, readOnly, attachCache, quitting,
                   callsMade, overlapped, serviceStopped>>

\* With the token and an answer the shell may write, else it only reads.
AttachEnds(p) ==
    /\ calls[p].at = "attaching"
    /\ LET ro == ~(tokenReadable /\ service) IN
        /\ attachCache' = IF ro THEN "readonly" ELSE "full"
        /\ GoOnAttached(p, ro)
    /\ UNCHANGED <<environment, quitting, callsMade, overlapped>>

\* spawn: the binary, a port and the token file are ready.
SpawnChild(p) ==
    /\ calls[p].at = "spawning" /\ Spawned < MaxPrivate
    /\ privates' = [privates EXCEPT ![Spawned + 1] = "running"]
    /\ ownChild' = Spawned + 1 /\ baseUrl' = Spawned + 1
    /\ attached' = FALSE /\ readOnly' = FALSE
    /\ calls' = [calls EXCEPT ![p] = At("waiting", Spawned + 1)]
    /\ UNCHANGED <<environment, service, attachCache, quitting, callsMade, overlapped, serviceStopped>>

\* There is no binary, or no port.
SpawnFails(p) ==
    /\ calls[p].at = "spawning"
    /\ calls' = [calls EXCEPT ![p] = Resting]
    /\ UNCHANGED <<environment, service, privates, ownChild, baseUrl, attached, readOnly, attachCache, quitting,
                   callsMade, overlapped, serviceStopped>>

\* The backend answers, or it does not in time and is stopped.
SpawnEnds(p) ==
    /\ calls[p].at = "waiting"
    /\ calls' = [calls EXCEPT ![p] = Resting]
    /\ privates' \in {privates, ForceStopped(calls[p].child)}
    /\ UNCHANGED <<environment, service, ownChild, baseUrl, attached, readOnly, attachCache, quitting, callsMade,
                   overlapped, serviceStopped>>

----------------------------------------------------------------------------
(* stop, and what happens around.                                          *)

Stop(p) ==
    /\ ~quitting /\ Begun(p)
    /\ quitting' = TRUE /\ attachCache' = "none"
    /\ \/ /\ attached
          /\ attached' = FALSE /\ readOnly' = FALSE /\ baseUrl' = 0
          /\ UNCHANGED <<service, serviceStopped, privates, calls>>
       \/ /\ ~attached /\ ownChild # 0
          /\ BeginStopChild(p, baseUrl, TRUE)
          /\ UNCHANGED <<attached, readOnly, baseUrl>>
       \/ /\ ~attached /\ ownChild = 0
          /\ UNCHANGED <<service, serviceStopped, privates, calls, attached, readOnly, baseUrl>>
    /\ UNCHANGED <<environment, ownChild>>

\* The exit handler.
ChildAfterExit(c) == IF ownChild = c THEN 0 ELSE ownChild

\* A private backend ends, by itself or as it was told.
BackendExit(c) ==
    /\ privates[c] \in {"running", "ending"}
    /\ privates' = [privates EXCEPT ![c] = "exited"]
    /\ ownChild' = ChildAfterExit(c)
    /\ baseUrl' = IF ownChild = c THEN 0 ELSE baseUrl
    /\ UNCHANGED <<environment, service, attached, readOnly, attachCache, calls, quitting, callsMade, overlapped,
                   serviceStopped>>

\* The result of an attachment is too old.
CacheExpires ==
    /\ attachCache # "none"
    /\ attachCache' = "none"
    /\ UNCHANGED <<environment, service, privates, ownChild, baseUrl, attached, readOnly, calls, quitting,
                   callsMade, overlapped, serviceStopped>>

\* The service of the machine is installed, started, stopped or restarted.
ServiceChanges ==
    /\ outages < MaxOutages
    /\ outages' = outages + 1 /\ service' = ~service
    /\ UNCHANGED <<tokenReadable, privates, ownChild, baseUrl, attached, readOnly, attachCache, calls, quitting,
                   callsMade, overlapped, serviceStopped>>

ManagerInit ==
    /\ service \in BOOLEAN /\ tokenReadable \in BOOLEAN
    /\ privates = [c \in 1 .. MaxPrivate |-> "none"] /\ ownChild = 0 /\ baseUrl = 0
    /\ attached = FALSE /\ readOnly = FALSE /\ attachCache = "none"
    /\ calls = [p \in Calls |-> Resting] /\ quitting = FALSE /\ callsMade = 0 /\ outages = 0
    /\ overlapped = FALSE /\ serviceStopped = FALSE

ManagerNext ==
    \/ \E p \in Calls :
        \/ StartCached(p) \/ StartProbe(p) \/ ProbeAbsent(p) \/ ProbeFound(p) \/ AttachEnds(p)
        \/ SpawnChild(p) \/ SpawnFails(p) \/ SpawnEnds(p) \/ StopChildEnds(p) \/ Stop(p)
    \/ \E c \in 1 .. MaxPrivate : BackendExit(c)
    \/ CacheExpires \/ ServiceChanges

ManagerSpec == ManagerInit /\ [][ManagerNext]_managerVars

----------------------------------------------------------------------------
(* Properties.                                                             *)

AtRest == \A p \in Calls : calls[p] = Resting

\* The shell never runs two private backends, however they exit, are found
\* slow or are replaced, unless two calls of start overlap (start, spawn).
OneBackend == ~overlapped => Cardinality(Running) <= 1

\* A shell that is attached to the service of the machine has no private
\* backend that collects next to it (the comment on attach), and one that has
\* stopped leaves none behind (stop).
NoSecondCollector == AtRest /\ ~overlapped /\ (attached \/ quitting) => Running = {}

\* Types; between calls a running backend is the one the shell knows and talks to.
ManagerTypeOK ==
    /\ privates \in [1 .. MaxPrivate -> {"none", "running", "ending", "exited"}]
    /\ ownChild \in 0 .. MaxPrivate /\ baseUrl \in Service .. MaxPrivate
    /\ attachCache \in {"none", "absent", "full", "readonly"} /\ (readOnly => attached)
    /\ ownChild # 0 => privates[ownChild] \in {"running", "ending"}
    /\ AtRest /\ ~overlapped => \A c \in Running : ownChild = c /\ (attached \/ baseUrl = c)

\* One collector on the machine on behalf of the shell, and the shell knows it.
ManagerSound == ManagerTypeOK /\ OneBackend /\ NoSecondCollector

\* The shell stops only a backend it has spawned; the service of the machine
\* keeps running (the comment on AgentManager.stop).
ServiceKeepsRunning == ~serviceStopped
=============================================================================
