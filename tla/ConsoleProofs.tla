---------------------------- MODULE ConsoleProofs ---------------------------
(***************************************************************************)
(* Machine-checked theorems about the consoles: AgentManager, for any      *)
(* number of calls, backends and outages of the service of the machine,    *)
(* ReadQueue, for any resources, lifetimes and size of the queue, and      *)
(* WebConsole, for any sessions, devices, events and queue of the storage. *)
(***************************************************************************)
EXTENDS AgentManager, ReadQueue, WebConsole, SublistLemmas

Places == {"rest", "probing", "attaching", "spawning", "waiting", "stopping"}

\* Types that hold however calls overlap; the backend that the shell owns has
\* not exited, or its exit handler would have cleared it.
ManagerTypes ==
    /\ privates \in [1 .. MaxPrivate -> {"none", "running", "ending", "exited"}]
    /\ ownChild \in 0 .. MaxPrivate /\ baseUrl \in Service .. MaxPrivate
    /\ attachCache \in {"none", "absent", "full", "readonly"} /\ (readOnly => attached)
    /\ calls \in [Calls -> [at : Places, child : 0 .. MaxPrivate]]
    /\ ownChild # 0 => privates[ownChild] \in {"running", "ending"}
    /\ attached \in BOOLEAN /\ readOnly \in BOOLEAN /\ quitting \in BOOLEAN /\ overlapped \in BOOLEAN

Stopping == \E p \in Calls : calls[p].at = "stopping"

\* As long as no two calls have overlapped, one call at most is under way, what
\* runs is what the shell owns, and the call that stops knows it.
OneCallKnowsAll ==
    /\ \A p, q \in Calls : calls[p] # Resting /\ calls[q] # Resting => p = q
    /\ Running \subseteq {ownChild}
    /\ \A p \in Calls : calls[p].at = "stopping" => calls[p].child = ownChild \/ Running = {}
    /\ \A p \in Calls : calls[p].at = "spawning" => ownChild = 0
    /\ ownChild # 0 => Stopping \/ (baseUrl = ownChild /\ ~attached)
    /\ quitting => \A p \in Calls : calls[p] = Resting \/ calls[p].at = "stopping"
    /\ quitting /\ ownChild # 0 => Stopping

ManagerInv == ManagerTypes /\ (~overlapped => OneCallKnowsAll)

-----------------------------------------------------------------------------
(* What the steps have in common                                           *)

LEMMA SpawnedIsCount == Spawned \in Nat
<1>1. IsFiniteSet(1 .. MaxPrivate)
  BY ManagerAssumption, FS_Interval
<1>2. IsFiniteSet({c \in 1 .. MaxPrivate : privates[c] # "none"})
  BY <1>1, FS_Subset
<1>3. QED
  BY <1>2, FS_CardinalityType DEF Spawned

LEMMA InitHolds == ManagerInit => ManagerInv
<1> SUFFICES ASSUME ManagerInit PROVE ManagerInv
  OBVIOUS
<1>1. ManagerTypes
  <2>1. 0 \in 0 .. MaxPrivate /\ 0 \in Service .. MaxPrivate
    BY ManagerAssumption DEF Service
  <2>2. Resting \in [at : Places, child : 0 .. MaxPrivate]
    BY <2>1 DEF Resting, Places
  <2>3. calls \in [Calls -> [at : Places, child : 0 .. MaxPrivate]]
    BY <2>2 DEF ManagerInit
  <2>4. QED
    BY <2>1, <2>3 DEF ManagerInit, ManagerTypes
<1>2. OneCallKnowsAll
  BY DEF ManagerInit, OneCallKnowsAll, Resting, Running
<1>3. QED
  BY <1>1, <1>2 DEF ManagerInv

\* What has to hold after a step of the one call that is under way.
LEMMA SoleCall ==
    ASSUME ManagerTypes, OneCallKnowsAll, NEW p \in Calls, NEW next, calls' = [calls EXCEPT ![p] = next],
           calls[p] # Resting \/ \A q \in Calls : calls[q] = Resting,
           Running' \subseteq {ownChild'},
           next.at = "stopping" => next.child = ownChild' \/ Running' = {},
           next.at = "spawning" => ownChild' = 0,
           ownChild' # 0 => next.at = "stopping" \/ (baseUrl' = ownChild' /\ ~attached'),
           quitting' => next = Resting \/ next.at = "stopping",
           quitting' /\ ownChild' # 0 => next.at = "stopping"
    PROVE  OneCallKnowsAll'
<1>1. calls'[p] = next /\ \A q \in Calls \ {p} : calls'[q] = Resting
  BY DEF ManagerTypes, OneCallKnowsAll
<1>2. Resting.at = "rest"
  BY DEF Resting
<1>3. QED
  BY <1>1, <1>2 DEF OneCallKnowsAll, Stopping

\* A call that begins finds all the others at rest, or overlaps.
LEMMA BegunAlone ==
    ASSUME ManagerTypes, NEW p \in Calls, Begun(p), ~overlapped'
    PROVE  ~overlapped /\ \A q \in Calls : calls[q] = Resting
BY DEF Begun, ManagerTypes

\* At rest what the shell owns is what it talks to, and it is not attached.
LEMMA AtRestFacts ==
    ASSUME OneCallKnowsAll, \A q \in Calls : calls[q] = Resting
    PROVE  ownChild # 0 => baseUrl = ownChild /\ ~attached /\ ~quitting
BY DEF OneCallKnowsAll, Stopping, Resting

\* The request to shut down tells a backend to end at most.
LEMMA ShutdownFacts ==
    ASSUME ManagerTypes, NEW url \in Service .. MaxPrivate, NEW authorized, ShutdownRequest(url, authorized)
    PROVE  /\ privates' \in [1 .. MaxPrivate -> {"none", "running", "ending", "exited"}]
           /\ \A c \in 1 .. MaxPrivate : privates[c] \in {"running", "ending"} => privates'[c] \in {"running", "ending"}
           /\ Running' \subseteq Running
<1>1. privates' = IF url > 0 /\ privates[url] = "running" THEN [privates EXCEPT ![url] = "ending"] ELSE privates
  BY DEF ShutdownRequest
<1>2. CASE privates' = privates
  BY <1>2 DEF ManagerTypes, Running
<1>3. CASE url \in 1 .. MaxPrivate /\ privates' = [privates EXCEPT ![url] = "ending"]
  BY <1>3 DEF ManagerTypes, Running
<1>4. url > 0 => url \in 1 .. MaxPrivate
  BY ManagerAssumption DEF Service
<1>5. QED
  BY <1>1, <1>2, <1>3, <1>4

LEMMA ForceFacts ==
    ASSUME ManagerTypes, NEW c \in 0 .. MaxPrivate, privates' = ForceStopped(c)
    PROVE  /\ privates' \in [1 .. MaxPrivate -> {"none", "running", "ending", "exited"}]
           /\ \A x \in 1 .. MaxPrivate : privates[x] \in {"running", "ending"} => privates'[x] \in {"running", "ending"}
           /\ Running' \subseteq Running \ {c}
<1>1. CASE c \in 1 .. MaxPrivate /\ privates[c] = "running"
  <2>1. privates' = [privates EXCEPT ![c] = "ending"]
    BY <1>1 DEF ForceStopped
  <2>2. /\ privates' \in [1 .. MaxPrivate -> {"none", "running", "ending", "exited"}]
        /\ privates'[c] = "ending" /\ \A x \in (1 .. MaxPrivate) \ {c} : privates'[x] = privates[x]
    BY <1>1, <2>1 DEF ManagerTypes
  <2>3. QED
    BY <1>1, <2>2 DEF Running
<1>2. CASE c \in 1 .. MaxPrivate /\ privates[c] # "running"
  <2>1. privates' = privates
    BY <1>2 DEF ForceStopped
  <2>2. Running' = Running /\ c \notin Running
    BY <1>2, <2>1 DEF Running
  <2>3. QED
    BY <2>1, <2>2 DEF ManagerTypes
<1>3. CASE c = 0
  <2>1. privates' = privates \/ privates' = [privates EXCEPT ![0] = "ending"]
    BY <1>3 DEF ForceStopped
  <2>2. 0 \notin 1 .. MaxPrivate
    OBVIOUS
  <2>3. \A x \in 1 .. MaxPrivate : privates'[x] = privates[x]
    BY <2>1, <2>2 DEF ManagerTypes
  <2>4. privates' = privates
    BY <2>1, <2>2 DEF ManagerTypes
  <2>5. Running' = Running /\ c \notin Running
    BY <1>3, <2>4 DEF Running
  <2>6. QED
    BY <2>4, <2>5 DEF ManagerTypes
<1>4. QED
  BY <1>1, <1>2, <1>3

-----------------------------------------------------------------------------
(* start                                                                   *)

\* start goes on with a service: a backend of one's own is told to end, and
\* the call waits for it.
LEMMA AttachedStep ==
    ASSUME ManagerTypes, NEW p \in Calls, NEW ro \in BOOLEAN, GoOnAttached(p, ro),
           quitting' = quitting, overlapped' \in BOOLEAN,
           attachCache' \in {"none", "absent", "full", "readonly"},
           ~overlapped' => /\ OneCallKnowsAll /\ ~quitting
                           /\ calls[p] # Resting \/ \A q \in Calls : calls[q] = Resting
    PROVE  ManagerInv'
<1>1. attached' = TRUE /\ readOnly' = ro /\ baseUrl' = Service /\ ownChild' = ownChild
  BY DEF GoOnAttached
<1>2. /\ Service \in Service .. MaxPrivate /\ ownChild \in 0 .. MaxPrivate
      /\ ownChild # 0 => ownChild \in 1 .. MaxPrivate
  BY ManagerAssumption DEF Service, ManagerTypes
<1>3. CASE ownChild # 0
  <2>1. ShutdownRequest(Service, ~ro) /\ calls' = [calls EXCEPT ![p] = At("stopping", ownChild)]
    BY <1>3 DEF GoOnAttached, BeginStopChild, HasChild
  <2>2. /\ privates' \in [1 .. MaxPrivate -> {"none", "running", "ending", "exited"}]
        /\ \A c \in 1 .. MaxPrivate : privates[c] \in {"running", "ending"} => privates'[c] \in {"running", "ending"}
        /\ Running' \subseteq Running
    BY <1>2, <2>1, ShutdownFacts
  <2>3. /\ At("stopping", ownChild) \in [at : Places, child : 0 .. MaxPrivate]
        /\ At("stopping", ownChild).at = "stopping" /\ At("stopping", ownChild).child = ownChild
    BY <1>2 DEF At, Places
  <2>4. ManagerTypes'
    BY <1>1, <1>2, <2>1, <2>2, <2>3 DEF ManagerTypes
  <2>5. ASSUME ~overlapped' PROVE OneCallKnowsAll'
    <3>1. Running' \subseteq {ownChild'}
      BY <1>1, <2>2, <2>5 DEF OneCallKnowsAll
    <3>2. QED
      BY <1>1, <2>1, <2>3, <2>5, <3>1, SoleCall
  <2>6. QED
    BY <2>4, <2>5 DEF ManagerInv
<1>4. CASE ownChild = 0
  <2>1. calls' = [calls EXCEPT ![p] = Resting] /\ privates' = privates
    BY <1>4 DEF GoOnAttached, HasChild
  <2>2. Resting \in [at : Places, child : 0 .. MaxPrivate] /\ Resting.at = "rest"
    BY <1>2, <1>4 DEF Resting, Places
  <2>3. ManagerTypes'
    BY <1>1, <1>2, <2>1, <2>2 DEF ManagerTypes
  <2>4. ASSUME ~overlapped' PROVE OneCallKnowsAll'
    <3>1. Running' \subseteq {ownChild'}
      BY <1>1, <2>1, <2>4 DEF OneCallKnowsAll, Running
    <3>2. QED
      BY <1>1, <1>4, <2>1, <2>2, <2>4, <3>1, SoleCall
  <2>5. QED
    BY <2>3, <2>4 DEF ManagerInv
<1>5. QED
  BY <1>3, <1>4

\* start goes on without one: a backend that runs is kept, else one is spawned,
\* and then the shell owns none.
LEMMA AloneStep ==
    ASSUME ManagerTypes, NEW p \in Calls, GoOnAlone(p),
           quitting' = quitting, overlapped' \in BOOLEAN,
           attachCache' \in {"none", "absent", "full", "readonly"},
           ~overlapped' => /\ OneCallKnowsAll /\ ~quitting
                           /\ ownChild # 0 => baseUrl = ownChild /\ ~attached
                           /\ calls[p] # Resting \/ \A q \in Calls : calls[q] = Resting
    PROVE  ManagerInv'
<1> DEFINE next == IF KeptRunning THEN Resting ELSE At("spawning", 0)
<1>1. /\ calls' = [calls EXCEPT ![p] = next]
      /\ UNCHANGED <<privates, ownChild, baseUrl, attached, readOnly>>
  BY DEF GoOnAlone
<1>2. /\ next \in [at : Places, child : 0 .. MaxPrivate]
      /\ next.at \in {"rest", "spawning"} /\ (next.at = "spawning" => ownChild = 0)
  <2>1. KeptRunning <=> ownChild # 0
    BY DEF KeptRunning, ManagerTypes
  <2>2. 0 \in 0 .. MaxPrivate
    BY ManagerAssumption
  <2>3. QED
    BY <2>1, <2>2 DEF Resting, At, Places
<1> HIDE DEF next
<1>3. ManagerTypes'
  BY <1>1, <1>2 DEF ManagerTypes
<1>4. ASSUME ~overlapped' PROVE OneCallKnowsAll'
  <2>1. Running' \subseteq {ownChild'}
    BY <1>1, <1>4 DEF OneCallKnowsAll, Running
  <2>2. ownChild' # 0 => baseUrl' = ownChild' /\ ~attached'
    BY <1>1, <1>4
  <2>3. QED
    BY <1>1, <1>2, <1>4, <2>1, <2>2, SoleCall
<1>5. QED
  BY <1>3, <1>4 DEF ManagerInv

LEMMA StartStep ==
    ASSUME ManagerInv, NEW p \in Calls,
           StartCached(p) \/ StartProbe(p) \/ ProbeAbsent(p) \/ ProbeFound(p) \/ AttachEnds(p)
    PROVE  ManagerInv'
<1>1. ManagerTypes /\ (~overlapped => OneCallKnowsAll)
  BY DEF ManagerInv
<1>2. CASE StartCached(p)
  <2>1. /\ ~quitting /\ quitting' = quitting /\ attachCache' = attachCache /\ Begun(p)
        /\ GoOnAlone(p) \/ GoOnAttached(p, attachCache = "readonly")
    BY <1>2 DEF StartCached
  <2>2. overlapped' \in BOOLEAN
    BY <1>1, <2>1 DEF Begun, ManagerTypes
  <2>3. ~overlapped' => /\ OneCallKnowsAll /\ \A q \in Calls : calls[q] = Resting
                        /\ ownChild # 0 => baseUrl = ownChild /\ ~attached
    BY <1>1, <2>1, BegunAlone, AtRestFacts
  <2>4. attachCache' \in {"none", "absent", "full", "readonly"}
    BY <1>1, <2>1 DEF ManagerTypes
  <2>5. CASE GoOnAlone(p)
    BY <1>1, <2>1, <2>2, <2>3, <2>4, <2>5, AloneStep
  <2>6. CASE GoOnAttached(p, attachCache = "readonly")
    <3>1. (attachCache = "readonly") \in BOOLEAN
      OBVIOUS
    <3>2. QED
      BY <1>1, <2>1, <2>2, <2>3, <2>4, <2>6, <3>1, AttachedStep
  <2>7. QED
    BY <2>1, <2>5, <2>6
<1>3. CASE StartProbe(p)
  <2>1. /\ ~quitting /\ Begun(p) /\ calls' = [calls EXCEPT ![p] = At("probing", 0)]
        /\ UNCHANGED <<privates, ownChild, baseUrl, attached, readOnly, attachCache, quitting>>
    BY <1>3 DEF StartProbe
  <2>2. At("probing", 0) \in [at : Places, child : 0 .. MaxPrivate] /\ At("probing", 0).at = "probing"
    BY ManagerAssumption DEF At, Places
  <2>3. overlapped' \in BOOLEAN
    BY <1>1, <2>1 DEF Begun, ManagerTypes
  <2>4. ManagerTypes'
    BY <1>1, <2>1, <2>2, <2>3 DEF ManagerTypes
  <2>5. ASSUME ~overlapped' PROVE OneCallKnowsAll'
    <3>1. /\ OneCallKnowsAll /\ \A q \in Calls : calls[q] = Resting
          /\ ownChild # 0 => baseUrl = ownChild /\ ~attached
      BY <1>1, <2>1, <2>5, BegunAlone, AtRestFacts
    <3>2. Running' \subseteq {ownChild'}
      BY <2>1, <3>1 DEF OneCallKnowsAll, Running
    <3>3. QED
      BY <1>1, <2>1, <2>2, <3>1, <3>2, SoleCall
  <2>6. QED
    BY <2>4, <2>5 DEF ManagerInv
<1>4. ASSUME NEW label \in {"probing", "attaching"}, calls[p].at = label, ~overlapped
      PROVE  /\ OneCallKnowsAll /\ ~quitting /\ calls[p] # Resting
             /\ ownChild # 0 => baseUrl = ownChild /\ ~attached
  <2>1. OneCallKnowsAll /\ calls[p] # Resting
    BY <1>1, <1>4 DEF Resting
  <2>2. ~Stopping
    BY <1>4, <2>1 DEF Stopping, OneCallKnowsAll, Resting
  <2>3. ~quitting
    BY <1>1, <1>4, <2>1 DEF OneCallKnowsAll, ManagerTypes
  <2>4. QED
    BY <2>1, <2>2, <2>3 DEF OneCallKnowsAll
<1>5. CASE ProbeAbsent(p)
  <2>1. /\ calls[p].at = "probing" /\ GoOnAlone(p) /\ attachCache' = "absent"
        /\ quitting' = quitting /\ overlapped' = overlapped
    BY <1>5 DEF ProbeAbsent
  <2>2. overlapped' \in BOOLEAN
    BY <1>1, <2>1 DEF ManagerTypes
  <2>3. QED
    BY <1>1, <1>4, <2>1, <2>2, AloneStep
<1>6. CASE ProbeFound(p)
  <2>1. /\ calls[p].at = "probing" /\ calls' = [calls EXCEPT ![p] = At("attaching", 0)]
        /\ UNCHANGED <<privates, ownChild, baseUrl, attached, readOnly, attachCache, quitting, overlapped>>
    BY <1>6 DEF ProbeFound
  <2>2. At("attaching", 0) \in [at : Places, child : 0 .. MaxPrivate] /\ At("attaching", 0).at = "attaching"
    BY ManagerAssumption DEF At, Places
  <2>3. ManagerTypes'
    BY <1>1, <2>1, <2>2 DEF ManagerTypes
  <2>4. ASSUME ~overlapped' PROVE OneCallKnowsAll'
    <3>1. /\ OneCallKnowsAll /\ ~quitting /\ calls[p] # Resting
          /\ ownChild # 0 => baseUrl = ownChild /\ ~attached
      BY <1>4, <2>1, <2>4
    <3>2. Running' \subseteq {ownChild'}
      BY <2>1, <3>1 DEF OneCallKnowsAll, Running
    <3>3. QED
      BY <1>1, <2>1, <2>2, <3>1, <3>2, SoleCall
  <2>5. QED
    BY <2>3, <2>4 DEF ManagerInv
<1>7. CASE AttachEnds(p)
  <2>1. /\ calls[p].at = "attaching" /\ quitting' = quitting /\ overlapped' = overlapped
        /\ GoOnAttached(p, ~(tokenReadable /\ service))
        /\ attachCache' \in {"readonly", "full"}
    BY <1>7 DEF AttachEnds
  <2>2. overlapped' \in BOOLEAN /\ (~(tokenReadable /\ service)) \in BOOLEAN
    BY <1>1, <2>1 DEF ManagerTypes
  <2>3. QED
    BY <1>1, <1>4, <2>1, <2>2, AttachedStep
<1>8. QED
  BY <1>2, <1>3, <1>5, <1>6, <1>7

\* Only a call that owns nothing spawns, and the backend it spawns is its own.
LEMMA SpawnStep ==
    ASSUME ManagerInv, NEW p \in Calls, SpawnChild(p) \/ SpawnFails(p) \/ SpawnEnds(p)
    PROVE  ManagerInv'
<1>1. /\ ManagerTypes /\ (~overlapped => OneCallKnowsAll)
      /\ quitting' = quitting /\ overlapped' = overlapped /\ attachCache' = attachCache
      /\ calls[p].at \in {"spawning", "waiting"}
  BY DEF ManagerInv, SpawnChild, SpawnFails, SpawnEnds
<1>2. ASSUME ~overlapped
      PROVE  /\ OneCallKnowsAll /\ ~quitting /\ calls[p] # Resting
             /\ ownChild # 0 => baseUrl = ownChild /\ ~attached
  <2>1. OneCallKnowsAll /\ calls[p] # Resting
    BY <1>1, <1>2 DEF Resting
  <2>2. ~Stopping
    BY <1>1, <2>1 DEF Stopping, OneCallKnowsAll, Resting
  <2>3. ~quitting
    BY <1>1, <2>1 DEF OneCallKnowsAll, ManagerTypes
  <2>4. QED
    BY <2>1, <2>2, <2>3 DEF OneCallKnowsAll
<1>3. Resting \in [at : Places, child : 0 .. MaxPrivate] /\ Resting.at = "rest"
  BY ManagerAssumption DEF Resting, Places
<1>4. CASE SpawnChild(p)
  <2> DEFINE c == Spawned + 1
  <2>1. /\ calls[p].at = "spawning" /\ privates' = [privates EXCEPT ![c] = "running"]
        /\ ownChild' = c /\ baseUrl' = c /\ attached' = FALSE /\ readOnly' = FALSE
        /\ calls' = [calls EXCEPT ![p] = At("waiting", c)]
    BY <1>4 DEF SpawnChild
  <2>2. c \in 1 .. MaxPrivate /\ c \in 0 .. MaxPrivate /\ c \in Service .. MaxPrivate /\ c # 0
    <3>1. Spawned \in Nat /\ Spawned < MaxPrivate /\ MaxPrivate \in Nat
      BY <1>4, SpawnedIsCount, ManagerAssumption DEF SpawnChild
    <3>2. QED
      BY <3>1 DEF Service
  <2> HIDE DEF c
  <2>3. At("waiting", c) \in [at : Places, child : 0 .. MaxPrivate] /\ At("waiting", c).at = "waiting"
    BY <2>2 DEF At, Places
  <2>4. /\ privates' \in [1 .. MaxPrivate -> {"none", "running", "ending", "exited"}]
        /\ privates'[c] = "running" /\ \A x \in (1 .. MaxPrivate) \ {c} : privates'[x] = privates[x]
    BY <1>1, <2>1, <2>2 DEF ManagerTypes
  <2>5. ManagerTypes'
    BY <1>1, <2>1, <2>2, <2>3, <2>4 DEF ManagerTypes
  <2>6. ASSUME ~overlapped' PROVE OneCallKnowsAll'
    <3>1. OneCallKnowsAll /\ ~quitting /\ calls[p] # Resting /\ ownChild = 0
      BY <1>1, <1>2, <2>1, <2>6 DEF OneCallKnowsAll
    <3>2. Running = {}
      BY <3>1 DEF OneCallKnowsAll, Running
    <3>3. Running' \subseteq {ownChild'}
      BY <2>1, <2>4, <3>2 DEF Running
    <3>4. QED
      BY <1>1, <2>1, <2>3, <3>1, <3>3, SoleCall
  <2>7. QED
    BY <2>5, <2>6 DEF ManagerInv
<1>5. CASE SpawnFails(p)
  <2>1. /\ calls' = [calls EXCEPT ![p] = Resting]
        /\ UNCHANGED <<privates, ownChild, baseUrl, attached, readOnly>>
    BY <1>5 DEF SpawnFails
  <2>2. ManagerTypes'
    BY <1>1, <1>3, <2>1 DEF ManagerTypes
  <2>3. ASSUME ~overlapped' PROVE OneCallKnowsAll'
    <3>1. /\ OneCallKnowsAll /\ ~quitting /\ calls[p] # Resting
          /\ ownChild # 0 => baseUrl = ownChild /\ ~attached
      BY <1>1, <1>2, <2>3
    <3>2. Running' \subseteq {ownChild'}
      BY <2>1, <3>1 DEF OneCallKnowsAll, Running
    <3>3. QED
      BY <1>1, <1>3, <2>1, <3>1, <3>2, SoleCall
  <2>4. QED
    BY <2>2, <2>3 DEF ManagerInv
<1>6. CASE SpawnEnds(p)
  <2>1. /\ calls' = [calls EXCEPT ![p] = Resting]
        /\ privates' = privates \/ privates' = ForceStopped(calls[p].child)
        /\ UNCHANGED <<ownChild, baseUrl, attached, readOnly>>
    BY <1>6 DEF SpawnEnds
  <2>2. calls[p].child \in 0 .. MaxPrivate
    BY <1>1 DEF ManagerTypes
  <2>3. /\ privates' \in [1 .. MaxPrivate -> {"none", "running", "ending", "exited"}]
        /\ \A x \in 1 .. MaxPrivate : privates[x] \in {"running", "ending"} => privates'[x] \in {"running", "ending"}
        /\ Running' \subseteq Running
    <3>1. CASE privates' = privates
      BY <1>1, <3>1 DEF ManagerTypes, Running
    <3>2. CASE privates' = ForceStopped(calls[p].child)
      BY <1>1, <2>2, <3>2, ForceFacts
    <3>3. QED
      BY <2>1, <3>1, <3>2
  <2>4. ownChild # 0 => ownChild \in 1 .. MaxPrivate
    BY <1>1, ManagerAssumption DEF ManagerTypes
  <2>5. ManagerTypes'
    BY <1>1, <1>3, <2>1, <2>3, <2>4 DEF ManagerTypes
  <2>6. ASSUME ~overlapped' PROVE OneCallKnowsAll'
    <3>1. /\ OneCallKnowsAll /\ ~quitting /\ calls[p] # Resting
          /\ ownChild # 0 => baseUrl = ownChild /\ ~attached
      BY <1>1, <1>2, <2>6
    <3>2. Running' \subseteq {ownChild'}
      BY <2>1, <2>3, <3>1 DEF OneCallKnowsAll
    <3>3. QED
      BY <1>1, <1>3, <2>1, <3>1, <3>2, SoleCall
  <2>7. QED
    BY <2>5, <2>6 DEF ManagerInv
<1>7. QED
  BY <1>4, <1>5, <1>6

-----------------------------------------------------------------------------
(* stop, and what happens around                                           *)

LEMMA StopChildStep ==
    ASSUME ManagerInv, NEW p \in Calls, StopChildEnds(p)
    PROVE  ManagerInv'
<1>1. /\ ManagerTypes /\ (~overlapped => OneCallKnowsAll)
      /\ calls[p].at = "stopping" /\ privates' = ForceStopped(calls[p].child)
      /\ ownChild' = 0 /\ baseUrl' = 0 /\ calls' = [calls EXCEPT ![p] = Resting]
      /\ UNCHANGED <<attached, readOnly, attachCache, quitting, overlapped>>
  BY DEF ManagerInv, StopChildEnds
<1>2. /\ Resting \in [at : Places, child : 0 .. MaxPrivate] /\ Resting.at = "rest"
      /\ 0 \in 0 .. MaxPrivate /\ 0 \in Service .. MaxPrivate
  BY ManagerAssumption DEF Resting, Places, Service
<1>3. calls[p].child \in 0 .. MaxPrivate
  BY <1>1 DEF ManagerTypes
<1>4. /\ privates' \in [1 .. MaxPrivate -> {"none", "running", "ending", "exited"}]
      /\ Running' \subseteq Running \ {calls[p].child}
  BY <1>1, <1>3, ForceFacts
<1>5. ManagerTypes'
  BY <1>1, <1>2, <1>4 DEF ManagerTypes
<1>6. ASSUME ~overlapped' PROVE OneCallKnowsAll'
  <2>1. OneCallKnowsAll /\ calls[p] # Resting
    BY <1>1, <1>2, <1>6
  <2>2. Running \subseteq {ownChild} /\ (calls[p].child = ownChild \/ Running = {})
    BY <1>1, <2>1 DEF OneCallKnowsAll
  <2>3. Running' \subseteq {ownChild'}
    BY <1>4, <2>2
  <2>4. QED
    BY <1>1, <1>2, <2>1, <2>3, SoleCall
<1>7. QED
  BY <1>5, <1>6 DEF ManagerInv

LEMMA StopStep ==
    ASSUME ManagerInv, NEW p \in Calls, Stop(p)
    PROVE  ManagerInv'
<1>1. /\ ManagerTypes /\ (~overlapped => OneCallKnowsAll)
      /\ ~quitting /\ Begun(p) /\ quitting' = TRUE /\ attachCache' = "none" /\ ownChild' = ownChild
      /\ \/ /\ attached /\ attached' = FALSE /\ readOnly' = FALSE /\ baseUrl' = 0
            /\ UNCHANGED <<privates, calls>>
         \/ /\ ~attached /\ ownChild # 0 /\ BeginStopChild(p, baseUrl, TRUE)
            /\ UNCHANGED <<attached, readOnly, baseUrl>>
         \/ /\ ~attached /\ ownChild = 0 /\ UNCHANGED <<privates, calls, attached, readOnly, baseUrl>>
  BY DEF ManagerInv, Stop
<1>2. overlapped' \in BOOLEAN
  BY <1>1 DEF Begun, ManagerTypes
<1>3. ~overlapped' => /\ OneCallKnowsAll /\ \A q \in Calls : calls[q] = Resting
                      /\ ownChild # 0 => baseUrl = ownChild /\ ~attached
  BY <1>1, BegunAlone, AtRestFacts
<1>4. /\ 0 \in Service .. MaxPrivate /\ ownChild \in 0 .. MaxPrivate /\ baseUrl \in Service .. MaxPrivate
      /\ ownChild # 0 => ownChild \in 1 .. MaxPrivate
  BY <1>1, ManagerAssumption DEF Service, ManagerTypes
<1>5. CASE ~attached /\ ownChild # 0 /\ BeginStopChild(p, baseUrl, TRUE) /\ UNCHANGED <<attached, readOnly, baseUrl>>
  <2>1. ShutdownRequest(baseUrl, TRUE) /\ calls' = [calls EXCEPT ![p] = At("stopping", ownChild)]
    BY <1>5 DEF BeginStopChild
  <2>2. /\ privates' \in [1 .. MaxPrivate -> {"none", "running", "ending", "exited"}]
        /\ \A c \in 1 .. MaxPrivate : privates[c] \in {"running", "ending"} => privates'[c] \in {"running", "ending"}
        /\ Running' \subseteq Running
    BY <1>1, <1>4, <2>1, ShutdownFacts
  <2>3. /\ At("stopping", ownChild) \in [at : Places, child : 0 .. MaxPrivate]
        /\ At("stopping", ownChild).at = "stopping" /\ At("stopping", ownChild).child = ownChild
    BY <1>4 DEF At, Places
  <2>4. ManagerTypes'
    BY <1>1, <1>2, <1>4, <1>5, <2>1, <2>2, <2>3 DEF ManagerTypes
  <2>5. ASSUME ~overlapped' PROVE OneCallKnowsAll'
    <3>1. Running' \subseteq {ownChild'}
      BY <1>1, <1>3, <2>2, <2>5 DEF OneCallKnowsAll
    <3>2. QED
      BY <1>1, <1>3, <2>1, <2>3, <2>5, <3>1, SoleCall
  <2>6. QED
    BY <2>4, <2>5 DEF ManagerInv
<1>6. CASE /\ UNCHANGED <<privates, calls>>
           /\ \/ attached /\ attached' = FALSE /\ readOnly' = FALSE /\ baseUrl' = 0
              \/ ~attached /\ ownChild = 0 /\ UNCHANGED <<attached, readOnly, baseUrl>>
  <2>1. ManagerTypes'
    <3>1. /\ baseUrl' \in Service .. MaxPrivate /\ attached' \in BOOLEAN /\ readOnly' \in BOOLEAN
          /\ readOnly' => attached'
      <4>1. CASE attached' = FALSE /\ readOnly' = FALSE /\ baseUrl' = 0
        BY <1>4, <4>1
      <4>2. CASE attached' = attached /\ readOnly' = readOnly /\ baseUrl' = baseUrl
        BY <1>1, <1>4, <4>2, Zenon DEF ManagerTypes
      <4>3. QED
        BY <1>6, <4>1, <4>2
    <3>2. /\ privates' = privates /\ ownChild' = ownChild /\ calls' = calls
          /\ attachCache' \in {"none", "absent", "full", "readonly"} /\ quitting' \in BOOLEAN
      BY <1>1, <1>6
    <3>3. QED
      BY <1>1, <1>2, <3>1, <3>2, Zenon DEF ManagerTypes
  <2>2. ASSUME ~overlapped' PROVE OneCallKnowsAll'
    <3>1. ownChild' = 0 /\ OneCallKnowsAll /\ \A q \in Calls : calls'[q] = Resting
      BY <1>1, <1>3, <1>6, <2>2
    <3>2. Running' = Running
      BY <1>6 DEF Running
    <3>3. Resting.at = "rest"
      BY DEF Resting
    <3>4. QED
      BY <1>1, <3>1, <3>2, <3>3 DEF OneCallKnowsAll
  <2>3. QED
    BY <2>1, <2>2 DEF ManagerInv
<1>7. QED
  BY <1>1, <1>5, <1>6

\* The exit handler forgets the backend that the shell owned.
LEMMA ExitStep ==
    ASSUME ManagerInv, NEW c \in 1 .. MaxPrivate, BackendExit(c)
    PROVE  ManagerInv'
<1>1. /\ ManagerTypes /\ (~overlapped => OneCallKnowsAll)
      /\ privates' = [privates EXCEPT ![c] = "exited"]
      /\ ownChild' = IF ownChild = c THEN 0 ELSE ownChild
      /\ baseUrl' = IF ownChild = c THEN 0 ELSE baseUrl
      /\ UNCHANGED <<attached, readOnly, attachCache, calls, quitting, overlapped>>
  BY DEF ManagerInv, BackendExit, ChildAfterExit
<1>2. 0 \in 0 .. MaxPrivate /\ 0 \in Service .. MaxPrivate
  BY ManagerAssumption DEF Service
<1>3. /\ privates' \in [1 .. MaxPrivate -> {"none", "running", "ending", "exited"}]
      /\ privates'[c] = "exited" /\ \A x \in (1 .. MaxPrivate) \ {c} : privates'[x] = privates[x]
  BY <1>1 DEF ManagerTypes
<1>4. ownChild' # 0 => ownChild' = ownChild /\ ownChild # c /\ baseUrl' = baseUrl /\ ownChild \in 1 .. MaxPrivate
  BY <1>1, ManagerAssumption DEF ManagerTypes
<1>5. ManagerTypes'
  BY <1>1, <1>2, <1>3, <1>4 DEF ManagerTypes
<1>6. ASSUME ~overlapped' PROVE OneCallKnowsAll'
  <2>1. Running' = Running \ {c}
    BY <1>3 DEF Running
  <2>2. OneCallKnowsAll
    BY <1>1, <1>6
  <2>3. CASE ownChild = c
    <3>1. Running' = {} /\ ownChild' = 0
      BY <1>1, <2>1, <2>2, <2>3 DEF OneCallKnowsAll
    <3>2. QED
      BY <1>1, <2>2, <3>1 DEF OneCallKnowsAll, Stopping
  <2>4. CASE ownChild # c
    <3>1. Running' = Running /\ ownChild' = ownChild /\ baseUrl' = baseUrl
      BY <1>1, <2>1, <2>2, <2>4 DEF OneCallKnowsAll
    <3>2. QED
      BY <1>1, <2>2, <3>1 DEF OneCallKnowsAll, Stopping
  <2>5. QED
    BY <2>3, <2>4
<1>7. QED
  BY <1>5, <1>6 DEF ManagerInv

LEMMA ManagerStep == ManagerInv /\ [ManagerNext]_managerVars => ManagerInv'
<1> SUFFICES ASSUME ManagerInv, [ManagerNext]_managerVars PROVE ManagerInv'
  OBVIOUS
<1>1. CASE CacheExpires \/ ServiceChanges \/ UNCHANGED managerVars
  <2>1. /\ UNCHANGED <<privates, ownChild, baseUrl, attached, readOnly, calls, quitting, overlapped>>
        /\ attachCache' \in {attachCache, "none"}
    BY <1>1 DEF CacheExpires, ServiceChanges, managerVars
  <2>2. ManagerTypes /\ (~overlapped => OneCallKnowsAll)
    BY DEF ManagerInv
  <2>3. ManagerTypes'
    <3>1. attachCache' \in {"none", "absent", "full", "readonly"}
      BY <2>1, <2>2 DEF ManagerTypes
    <3>2. /\ privates' = privates /\ ownChild' = ownChild /\ baseUrl' = baseUrl /\ attached' = attached
          /\ readOnly' = readOnly /\ calls' = calls /\ quitting' = quitting /\ overlapped' = overlapped
      BY <2>1
    <3>3. QED
      BY <2>2, <3>1, <3>2, Zenon DEF ManagerTypes
  <2>4. ASSUME ~overlapped' PROVE OneCallKnowsAll'
    BY <2>1, <2>2, <2>4 DEF OneCallKnowsAll, Stopping, Running
  <2>5. QED
    BY <2>3, <2>4 DEF ManagerInv
<1>2. QED
  BY <1>1, StartStep, SpawnStep, StopChildStep, StopStep, ExitStep DEF ManagerNext

LEMMA InvImpliesSound == ManagerInv => ManagerSound
<1> SUFFICES ASSUME ManagerInv PROVE ManagerSound
  OBVIOUS
<1>1. ManagerTypes /\ (~overlapped => OneCallKnowsAll)
  BY DEF ManagerInv
<1>2. ASSUME ~overlapped PROVE Cardinality(Running) <= 1
  <2>1. Running \subseteq {ownChild}
    BY <1>1, <1>2 DEF OneCallKnowsAll
  <2>2. IsFiniteSet({ownChild}) /\ Cardinality({ownChild}) = 1
    BY FS_Singleton
  <2>3. Cardinality(Running) \in Nat /\ Cardinality(Running) <= Cardinality({ownChild})
    BY <2>1, <2>2, FS_Subset, FS_CardinalityType
  <2>4. QED
    BY <2>2, <2>3
<1>3. ASSUME ~overlapped, AtRest
      PROVE  /\ Running \subseteq {ownChild}
             /\ ownChild # 0 => baseUrl = ownChild /\ ~attached /\ ~quitting
  BY <1>1, <1>3, AtRestFacts DEF AtRest, OneCallKnowsAll
<1>4. \A c \in Running : c # 0
  BY DEF Running
<1>5. OneBackend
  BY <1>2 DEF OneBackend
<1>6. NoSecondCollector
  BY <1>3, <1>4 DEF NoSecondCollector
<1>7. ManagerTypeOK
  <2>1. AtRest /\ ~overlapped => \A c \in Running : ownChild = c /\ (attached \/ baseUrl = c)
    BY <1>3, <1>4
  <2>2. QED
    BY <1>1, <2>1 DEF ManagerTypeOK, ManagerTypes
<1>8. QED
  BY <1>5, <1>6, <1>7 DEF ManagerSound

\* Unless two calls of start overlap, the shell never runs two backends of its
\* own, runs none next to the service it is attached to or after a stop, and
\* talks to the one that runs (AgentManager.start, stop).
THEOREM ManagerSoundHolds == ManagerSpec => []ManagerSound
<1>1. ManagerSpec => []ManagerInv
  BY InitHolds, ManagerStep, PTL DEF ManagerSpec
<1>2. QED
  BY <1>1, InvImpliesSound, PTL

-----------------------------------------------------------------------------
(* The read queue                                                          *)

ReadEntry == [id : Nat, key : Resources, lifetime : Lifetimes, priority : {1, 2}]

Distinct(s) == \A i, k \in DOMAIN s : s[i] = s[k] => i = k
Of(s) == {s[i] : i \in DOMAIN s}

QueueTypes ==
    /\ waiting \in Seq(ReadEntry) /\ running \in SUBSET ReadEntry /\ IsFiniteSet(running)
    /\ readLimit \in {1, 2} /\ created \in Nat /\ joinable \in [Resources -> Nat]

\* A read is queued once, does not wait while it runs, and is let go when its
\* lifetime ends; otherwise a slot would be counted twice or for nobody.
InOnePlace ==
    /\ Distinct(waiting) /\ Of(waiting) \cap running = {}
    /\ \A e \in Live : e.id <= created /\ e.lifetime \notin aborted

QueueInv == QueueTypes /\ InOnePlace /\ ReadQueueSound

LEMMA LiveIs == Live = Of(waiting) \cup running
  BY DEF Live, Of

LEMMA CountOf ==
    ASSUME NEW s, NEW n \in Nat, 1..n \subseteq DOMAIN s, Distinct(s)
    PROVE  IsFiniteSet({s[i] : i \in 1..n}) /\ Cardinality({s[i] : i \in 1..n}) = n
<1> DEFINE T == {s[i] : i \in 1..n}
           f == [i \in 1..n |-> s[i]]
<1>1. IsFiniteSet(1..n) /\ Cardinality(1..n) = n
  <2>1. IsFiniteSet(1..n) /\ Cardinality(1..n) = IF 1 > n THEN 0 ELSE n - 1 + 1
    BY FS_Interval
  <2>2. QED
    BY <2>1
<1>2. f \in [1..n -> T] /\ \A t \in T : \E i \in 1..n : f[i] = t
  OBVIOUS
<1>3. \A a, b \in 1..n : f[a] = f[b] => a = b
  BY DEF Distinct
<1> HIDE DEF f, T
<1>4. f \in Surjection(1..n, T) /\ f \in Injection(1..n, T)
  BY <1>2, <1>3, Fun_IsSurj, Fun_IsInj
<1>5. IsFiniteSet(T) /\ Cardinality(T) = n
  BY <1>1, <1>4, FS_Surjection
<1>6. QED
  BY <1>5 DEF T

\* Two lists without repetition and without a common entry, one after the other.
LEMMA ConcatDistinct ==
    ASSUME NEW S, NEW a \in Seq(S), NEW b \in Seq(S), Distinct(a), Distinct(b), Of(a) \cap Of(b) = {}
    PROVE  a \o b \in Seq(S) /\ Distinct(a \o b) /\ Of(a \o b) = Of(a) \cup Of(b)
<1> DEFINE c == a \o b
<1>1. /\ Len(a) \in Nat /\ DOMAIN a = 1..Len(a) /\ Len(b) \in Nat /\ DOMAIN b = 1..Len(b)
      /\ c \in Seq(S) /\ Len(c) = Len(a) + Len(b)
      /\ \A i \in 1..(Len(a) + Len(b)) : c[i] = IF i <= Len(a) THEN a[i] ELSE b[i - Len(a)]
  BY LenProperties, ConcatProperties
<1> HIDE DEF c
<1>2. DOMAIN c = 1..(Len(a) + Len(b))
  BY <1>1, LenProperties
<1>3. \A i \in DOMAIN c : \/ i \in DOMAIN a /\ i <= Len(a) /\ c[i] = a[i]
                          \/ i - Len(a) \in DOMAIN b /\ i > Len(a) /\ c[i] = b[i - Len(a)]
  BY <1>1, <1>2
<1>4. ASSUME NEW i \in DOMAIN c, NEW k \in DOMAIN c, c[i] = c[k] PROVE i = k
  <2>1. CASE i <= Len(a) /\ k <= Len(a)
    <3>1. i \in DOMAIN a /\ k \in DOMAIN a /\ a[i] = a[k]
      BY <1>1, <1>2, <1>3, <1>4, <2>1
    <3>2. QED
      BY <3>1 DEF Distinct
  <2>2. CASE i > Len(a) /\ k > Len(a)
    <3>1. i - Len(a) \in DOMAIN b /\ k - Len(a) \in DOMAIN b /\ b[i - Len(a)] = b[k - Len(a)]
      BY <1>1, <1>2, <1>3, <1>4, <2>2
    <3>2. i - Len(a) = k - Len(a)
      BY <3>1 DEF Distinct
    <3>3. QED
      BY <1>1, <1>2, <3>2
  <2>3. ASSUME NEW x \in DOMAIN c, NEW y \in DOMAIN c, x <= Len(a), y > Len(a), c[x] = c[y] PROVE FALSE
    <3>1. x \in DOMAIN a /\ c[x] = a[x] /\ y - Len(a) \in DOMAIN b /\ c[y] = b[y - Len(a)]
      BY <1>1, <1>2, <1>3, <2>3
    <3>2. c[x] \in Of(a) /\ c[x] \in Of(b)
      BY <2>3, <3>1 DEF Of
    <3>3. QED
      BY <3>2
  <2>4. QED
    BY <1>1, <1>2, <1>4, <2>1, <2>2, <2>3
<1>5. Of(c) = Of(a) \cup Of(b)
  <2>1. \A i \in DOMAIN c : c[i] \in Of(a) \/ c[i] \in Of(b)
    BY <1>3 DEF Of
  <2>2. \A i \in DOMAIN a : i \in DOMAIN c /\ c[i] = a[i]
    BY <1>1, <1>2
  <2>3. \A i \in DOMAIN b : i + Len(a) \in DOMAIN c /\ c[i + Len(a)] = b[i]
    BY <1>1, <1>2
  <2>4. QED
    BY <2>1, <2>2, <2>3 DEF Of
<1>6. QED
  BY <1>1, <1>4, <1>5 DEF c, Distinct

\* What drain does: the reads of ended lifetimes are let go, the others neither
\* vanish nor double, and no slot stays empty while one of them waits.
LEMMA DrainEffect ==
    ASSUME NEW w \in Seq(ReadEntry), NEW r \in SUBSET ReadEntry, IsFiniteSet(r), Cardinality(r) <= 2,
           Distinct(w), Of(w) \cap r = {}, readLimit' \in {1, 2}, Drain(w, r)
    PROVE  /\ waiting' \in Seq(ReadEntry) /\ running' \in SUBSET ReadEntry /\ IsFiniteSet(running')
           /\ Distinct(waiting') /\ Of(waiting') \cap running' = {}
           /\ Of(waiting') \cup running' = {e \in Of(w) \cup r : e.lifetime \notin aborted'}
           /\ Cardinality(running') <= 2
           /\ waiting' # <<>> => Cardinality(running') >= readLimit'
<1> DEFINE held == SlotsHeld(r)
           among(p) == {i \in DOMAIN w : w[i].lifetime \notin aborted' /\ w[i].priority = p}
           a == Sublist(w, among(1))
           b == Sublist(w, among(2))
           sorted == a \o b
           room == readLimit' - Cardinality(held)
           free == IF room < 0 THEN 0 ELSE IF room > Len(sorted) THEN Len(sorted) ELSE room
           begun == {sorted[i] : i \in 1 .. free}
<1>1. running' = held \cup begun /\ waiting' = SubSeq(sorted, free + 1, Len(sorted))
  BY DEF Drain
<1>2. /\ held = {e \in r : e.lifetime \notin aborted'} /\ IsFiniteSet(held)
      /\ Cardinality(held) \in Nat /\ Cardinality(held) <= 2
  <2>1. held = {e \in r : e.lifetime \notin aborted'}
    BY DEF SlotsHeld
  <2> HIDE DEF held
  <2>2. held \in SUBSET r
    BY <2>1
  <2>3. IsFiniteSet(held) /\ Cardinality(held) <= Cardinality(r)
    BY <2>2, FS_Subset
  <2>4. Cardinality(held) \in Nat /\ Cardinality(r) \in Nat
    BY <2>3, FS_CardinalityType
  <2>5. QED
    BY <2>1, <2>3, <2>4
<1>3. \A i \in DOMAIN w : w[i] \in ReadEntry
  BY ElementOfSeq, LenProperties
<1>4. /\ a \in Seq(ReadEntry) /\ Distinct(a) /\ Of(a) = {w[i] : i \in among(1)}
      /\ b \in Seq(ReadEntry) /\ Distinct(b) /\ Of(b) = {w[i] : i \in among(2)}
  <2> SUFFICES ASSUME NEW p \in {1, 2}
               PROVE  LET t == Sublist(w, among(p)) IN
                      t \in Seq(ReadEntry) /\ Distinct(t) /\ Of(t) = {w[i] : i \in among(p)}
    OBVIOUS
  <2> DEFINE P == among(p)
  <2>1. P \in SUBSET (DOMAIN w)
    OBVIOUS
  <2> HIDE DEF P
  <2>2. /\ Sublist(w, P) \in Seq(ReadEntry)
        /\ {Sublist(w, P)[n] : n \in DOMAIN Sublist(w, P)} = {w[i] : i \in P}
        /\ (\A i, k \in DOMAIN w : w[i] = w[k] => i = k) =>
              \A n, m \in DOMAIN Sublist(w, P) : Sublist(w, P)[n] = Sublist(w, P)[m] => n = m
    BY <2>1, SublistHolds
  <2>3. Sublist(w, P) \in Seq(ReadEntry) /\ Distinct(Sublist(w, P)) /\ Of(Sublist(w, P)) = {w[i] : i \in P}
    BY <2>2 DEF Distinct, Of
  <2>4. QED
    BY <2>3 DEF P
<1>5. Of(a) \cap Of(b) = {}
  BY <1>4
<1>6. sorted \in Seq(ReadEntry) /\ Distinct(sorted) /\ Of(sorted) = {e \in Of(w) : e.lifetime \notin aborted'}
  <2>1. sorted \in Seq(ReadEntry) /\ Distinct(sorted) /\ Of(sorted) = Of(a) \cup Of(b)
    <3> HIDE DEF a, b
    <3>1. QED
      BY <1>4, <1>5, ConcatDistinct
  <2>2. Of(a) \cup Of(b) = {e \in Of(w) : e.lifetime \notin aborted'}
    BY <1>3, <1>4 DEF Of, ReadEntry
  <2>3. QED
    BY <2>1, <2>2
<1> HIDE DEF held, sorted
<1>7. Len(sorted) \in Nat /\ DOMAIN sorted = 1..Len(sorted)
  BY <1>6, LenProperties
<1>8. /\ free \in 0..Len(sorted) /\ free + Cardinality(held) <= 2
      /\ free < Len(sorted) => free + Cardinality(held) >= readLimit'
  BY <1>2, <1>7
<1> HIDE DEF room, free
<1>9. /\ waiting' \in Seq(ReadEntry) /\ DOMAIN waiting' = 1..(Len(sorted) - free)
      /\ \A i \in 1..(Len(sorted) - free) : waiting'[i] = sorted[free + i]
      /\ waiting' # <<>> => free < Len(sorted)
  <2>1. \A i \in (free + 1)..Len(sorted) : sorted[i] \in ReadEntry
    BY <1>6, <1>7, <1>8, ElementOfSeq
  <2>2. /\ waiting' \in Seq(ReadEntry)
        /\ Len(waiting') = IF free + 1 <= Len(sorted) THEN Len(sorted) - (free + 1) + 1 ELSE 0
        /\ \A i \in 1 .. Len(sorted) - (free + 1) + 1 : waiting'[i] = sorted[free + 1 + i - 1]
    BY <1>1, <1>7, <1>8, <2>1, SubSeqProperties
  <2>3. Len(waiting') = Len(sorted) - free
    <3> DEFINE n == Len(sorted)
               m == Len(waiting')
    <3>1. n \in Nat /\ free \in 0..n /\ m = IF free + 1 <= n THEN n - (free + 1) + 1 ELSE 0
      BY <1>7, <1>8, <2>2
    <3> HIDE DEF n, m
    <3>2. m = n - free
      BY <3>1
    <3>3. QED
      BY <3>2 DEF n, m
  <2>4. \A i \in 1..(Len(sorted) - free) : free + 1 + i - 1 = free + i /\ i \in 1 .. Len(sorted) - (free + 1) + 1
    BY <1>7, <1>8
  <2>5. waiting' # <<>> => Len(waiting') # 0
    BY <2>2, EmptySeq
  <2>6. DOMAIN waiting' = 1..(Len(sorted) - free)
    BY <2>2, <2>3, LenProperties
  <2>7. \A i \in 1..(Len(sorted) - free) : waiting'[i] = sorted[free + i]
    BY <2>2, <2>4
  <2>8. waiting' # <<>> => free < Len(sorted)
    <3> DEFINE n == Len(sorted)
    <3>1. n \in Nat /\ free \in 0..n /\ (waiting' # <<>> => n - free # 0)
      BY <1>7, <1>8, <2>3, <2>5
    <3> HIDE DEF n
    <3>2. waiting' # <<>> => free < n
      BY <3>1
    <3>3. QED
      BY <3>2 DEF n
  <2>9. QED
    BY <2>2, <2>6, <2>7, <2>8
<1>10. begun \subseteq ReadEntry /\ IsFiniteSet(begun) /\ Cardinality(begun) = free /\ begun \subseteq Of(sorted)
  <2>1. 1..free \subseteq DOMAIN sorted /\ free \in Nat
    BY <1>7, <1>8
  <2>2. IsFiniteSet(begun) /\ Cardinality(begun) = free
    BY <1>6, <2>1, CountOf
  <2>3. \A i \in 1..free : sorted[i] \in Of(sorted) /\ sorted[i] \in ReadEntry
    BY <1>6, <1>7, <2>1, ElementOfSeq DEF Of
  <2>4. QED
    BY <2>2, <2>3
<1>11. Of(sorted) = begun \cup Of(waiting') /\ begun \cap Of(waiting') = {}
  <2>1. \A i \in DOMAIN sorted : i \in 1..free \/ (i - free \in 1..(Len(sorted) - free) /\ free + (i - free) = i)
    BY <1>7, <1>8
  <2>2. \A i \in 1..(Len(sorted) - free) : free + i \in DOMAIN sorted /\ free + i \notin 1..free
    BY <1>7, <1>8
  <2>3. \A i \in DOMAIN sorted : sorted[i] \in begun \/ sorted[i] \in Of(waiting')
    BY <1>9, <2>1 DEF Of
  <2>4. Of(waiting') \subseteq Of(sorted)
    BY <1>9, <2>2 DEF Of
  <2>5. begun \cap Of(waiting') = {}
    <3> SUFFICES ASSUME NEW i \in 1..free, NEW k \in 1..(Len(sorted) - free), sorted[i] = waiting'[k] PROVE FALSE
      BY <1>9 DEF Of
    <3>1. sorted[i] = sorted[free + k] /\ i \in DOMAIN sorted
      BY <1>7, <1>8, <1>9
    <3>2. i = free + k
      BY <1>6, <2>2, <3>1 DEF Distinct
    <3>3. QED
      BY <2>2, <3>2
  <2>6. QED
    BY <1>10, <2>3, <2>4, <2>5 DEF Of
<1>12. Distinct(waiting')
  <2> SUFFICES ASSUME NEW i \in 1..(Len(sorted) - free), NEW k \in 1..(Len(sorted) - free), waiting'[i] = waiting'[k]
               PROVE  i = k
    BY <1>9 DEF Distinct
  <2>1. sorted[free + i] = sorted[free + k] /\ free + i \in DOMAIN sorted /\ free + k \in DOMAIN sorted
    BY <1>7, <1>8, <1>9
  <2>2. free + i = free + k
    BY <1>6, <2>1 DEF Distinct
  <2>3. QED
    BY <1>8, <2>2
<1> HIDE DEF begun
<1>13. held \cap begun = {} /\ held \subseteq ReadEntry /\ Of(waiting') \cap held = {}
  BY <1>2, <1>6, <1>10, <1>11
<1>14. /\ IsFiniteSet(running') /\ running' \subseteq ReadEntry
       /\ Cardinality(running') = Cardinality(held) + free
  <2>1. IsFiniteSet(held \cup begun) /\ Cardinality(held \cup begun)
            = Cardinality(held) + Cardinality(begun) - Cardinality(held \cap begun)
    BY <1>2, <1>10, FS_Union
  <2>2. Cardinality(held \cap begun) = 0
    BY <1>13, FS_EmptySet
  <2>3. QED
    BY <1>1, <1>2, <1>8, <1>10, <1>13, <2>1, <2>2
<1>15. Of(waiting') \cup running' = {e \in Of(w) \cup r : e.lifetime \notin aborted'} /\ Of(waiting') \cap running' = {}
  BY <1>1, <1>2, <1>6, <1>11, <1>13
<1>16. Cardinality(running') <= 2 /\ (waiting' # <<>> => Cardinality(running') >= readLimit')
  BY <1>2, <1>8, <1>9, <1>14
<1>17. QED
  BY <1>9, <1>12, <1>14, <1>15, <1>16

LEMMA QueueStarts == QueueInit => QueueInv
<1> SUFFICES ASSUME QueueInit PROVE QueueInv
  OBVIOUS
<1>1. IsFiniteSet(running) /\ Cardinality(running) = 0
  BY FS_EmptySet DEF QueueInit
<1>2. QueueTypes
  BY <1>1 DEF QueueInit, QueueTypes
<1>3. InOnePlace
  BY DEF QueueInit, InOnePlace, Distinct, Of, Live
<1>4. ReadQueueSound
  BY <1>1 DEF QueueInit, ReadQueueSound, SlotsUsed, JoinsLive
<1>5. QED
  BY <1>2, <1>3, <1>4 DEF QueueInv

\* Every operation ends in a drain: what is left to show of it is where the
\* joinable reads are.
LEMMA DrainStep ==
    ASSUME QueueTypes', NEW w \in Seq(ReadEntry), NEW r \in SUBSET ReadEntry, IsFiniteSet(r),
           Cardinality(r) <= 2, Distinct(w), Of(w) \cap r = {}, readLimit' \in {1, 2}, Drain(w, r),
           \A e \in Of(w) \cup r : e.id <= created',
           \A k \in Resources : joinable'[k] # 0 =>
              \E e \in Of(w) \cup r : e.lifetime \notin aborted' /\ e.id = joinable'[k] /\ e.key = k
    PROVE  QueueInv'
<1>1. /\ Distinct(waiting') /\ Of(waiting') \cap running' = {}
      /\ Of(waiting') \cup running' = {e \in Of(w) \cup r : e.lifetime \notin aborted'}
      /\ Cardinality(running') <= 2
      /\ waiting' # <<>> => Cardinality(running') >= readLimit'
  BY DrainEffect
<1>2. Live' = {e \in Of(w) \cup r : e.lifetime \notin aborted'}
  BY <1>1 DEF Live, Of
<1>3. InOnePlace'
  BY <1>1, <1>2 DEF InOnePlace, Distinct, Of
<1>4. SlotsUsed'
  <2>1. \A e \in running' : e.lifetime \notin aborted'
    BY <1>1
  <2>2. QED
    BY <1>1, <2>1 DEF SlotsUsed
<1>5. JoinsLive'
  BY <1>2 DEF JoinsLive
<1>6. QED
  BY <1>3, <1>4, <1>5 DEF QueueInv, ReadQueueSound

\* The types after a drain.
LEMMA DrainTypes ==
    ASSUME NEW w \in Seq(ReadEntry), NEW r \in SUBSET ReadEntry, IsFiniteSet(r), Cardinality(r) <= 2,
           Distinct(w), Of(w) \cap r = {}, readLimit' \in {1, 2}, Drain(w, r),
           created' \in Nat, joinable' \in [Resources -> Nat]
    PROVE  QueueTypes'
<1>1. waiting' \in Seq(ReadEntry) /\ running' \in SUBSET ReadEntry /\ IsFiniteSet(running')
  BY DrainEffect
<1>2. QED
  BY <1>1 DEF QueueTypes

LEMMA QueueFacts ==
    ASSUME QueueInv
    PROVE  /\ waiting \in Seq(ReadEntry) /\ running \in SUBSET ReadEntry /\ IsFiniteSet(running)
           /\ Cardinality(running) <= 2 /\ Distinct(waiting) /\ Of(waiting) \cap running = {}
           /\ readLimit \in {1, 2} /\ created \in Nat /\ joinable \in [Resources -> Nat]
           /\ \A e \in Of(waiting) \cup running : e \in ReadEntry /\ e.id <= created /\ e.lifetime \notin aborted
           /\ \A k \in Resources : joinable[k] # 0 =>
                 \E e \in Of(waiting) \cup running : e.id = joinable[k] /\ e.key = k
<1>1. QueueTypes /\ InOnePlace /\ SlotsUsed /\ JoinsLive
  BY DEF QueueInv, ReadQueueSound
<1>2. \A e \in Of(waiting) : e \in ReadEntry
  <2>1. waiting \in Seq(ReadEntry)
    BY <1>1 DEF QueueTypes
  <2>2. DOMAIN waiting = 1..Len(waiting) /\ \A i \in 1..Len(waiting) : waiting[i] \in ReadEntry
    BY <2>1, LenProperties, ElementOfSeq
  <2>3. QED
    BY <2>2 DEF Of
<1>3. \A e \in Of(waiting) \cup running : e \in ReadEntry /\ e.id <= created /\ e.lifetime \notin aborted
  BY <1>1, <1>2, LiveIs DEF InOnePlace, QueueTypes
<1>4. \A k \in Resources : joinable[k] # 0 =>
         \E e \in Of(waiting) \cup running : e.id = joinable[k] /\ e.key = k
  BY <1>1, LiveIs DEF JoinsLive
<1>5. QED
  BY <1>1, <1>3, <1>4 DEF QueueTypes, InOnePlace, SlotsUsed

LEMMA SetLimitStep == ASSUME QueueInv, SetLimit PROVE QueueInv'
<1>1. /\ readLimit' \in {1, 2} /\ Drain(waiting, running)
      /\ joinable' = joinable /\ aborted' = aborted /\ created' = created
  BY DEF SetLimit
<1>2. QueueTypes'
  BY <1>1, QueueFacts, DrainTypes
<1>3. \A k \in Resources : joinable'[k] # 0 =>
         \E e \in Of(waiting) \cup running : e.lifetime \notin aborted' /\ e.id = joinable'[k] /\ e.key = k
  BY <1>1, QueueFacts
<1>4. \A e \in Of(waiting) \cup running : e.id <= created'
  BY <1>1, QueueFacts
<1>5. QED
  BY <1>1, <1>2, <1>3, <1>4, QueueFacts, DrainStep

\* A new read is the last of the queue and has an id of its own.
LEMMA RunStep == ASSUME QueueInv, Run PROVE QueueInv'
<1>1. PICK k \in Resources, l \in Lifetimes, p \in {1, 2} :
         /\ l \notin aborted /\ readLimit' = readLimit /\ aborted' = aborted /\ created' = created + 1
         /\ \/ waiting' = waiting /\ running' = running /\ joinable' = joinable
            \/ /\ joinable' = [joinable EXCEPT ![k] = created']
               /\ Drain(Append(waiting, [id |-> created', key |-> k, lifetime |-> l, priority |-> p]), running)
  BY DEF Run
<1>2. CASE waiting' = waiting /\ running' = running /\ joinable' = joinable
  <2>1. QueueTypes'
    BY <1>1, <1>2, QueueFacts DEF QueueTypes
  <2>2. InOnePlace'
    <3>1. \A e \in Of(waiting) \cup running : e.id <= created'
      BY <1>1, QueueFacts DEF ReadEntry
    <3>2. Live' = Of(waiting) \cup running
      BY <1>2, LiveIs DEF Live
    <3>3. QED
      BY <1>1, <1>2, <3>1, <3>2, QueueFacts DEF InOnePlace, Distinct, Of
  <2>3. ReadQueueSound'
    <3>1. SlotsUsed /\ JoinsLive
      BY DEF QueueInv, ReadQueueSound
    <3>2. SlotsUsed'
      BY <1>1, <1>2, <3>1 DEF SlotsUsed
    <3>3. JoinsLive'
      BY <1>1, <1>2, <3>1 DEF JoinsLive, Live
    <3>4. QED
      BY <3>2, <3>3 DEF ReadQueueSound
  <2>4. QED
    BY <2>1, <2>2, <2>3 DEF QueueInv
<1>3. CASE /\ joinable' = [joinable EXCEPT ![k] = created']
           /\ Drain(Append(waiting, [id |-> created', key |-> k, lifetime |-> l, priority |-> p]), running)
  <2> DEFINE new == [id |-> created', key |-> k, lifetime |-> l, priority |-> p]
             w == Append(waiting, new)
  <2>1. /\ new \in ReadEntry /\ new.id = created' /\ new.key = k /\ new.lifetime = l
        /\ created \in Nat /\ created' \in Nat /\ created' # 0 /\ created < created'
    BY <1>1, QueueFacts DEF ReadEntry
  <2>2. Drain(w, running)
    BY <1>3
  <2> HIDE DEF new
  <2>3. /\ Len(waiting) \in Nat /\ DOMAIN waiting = 1..Len(waiting)
        /\ w \in Seq(ReadEntry) /\ DOMAIN w = 1..(Len(waiting) + 1)
        /\ \A i \in 1..Len(waiting) : w[i] = waiting[i]
        /\ w[Len(waiting) + 1] = new
    <3>1. waiting \in Seq(ReadEntry)
      BY QueueFacts
    <3>2. /\ w \in Seq(ReadEntry) /\ Len(w) = Len(waiting) + 1
          /\ \A i \in 1..Len(waiting) : w[i] = waiting[i]
          /\ w[Len(waiting) + 1] = new
      BY <2>1, <3>1, AppendProperties
    <3> HIDE DEF w
    <3>3. QED
      BY <3>1, <3>2, LenProperties
  <2> HIDE DEF w
  <2>4. new \notin Of(waiting) /\ new \notin running
    <3>1. \A e \in Of(waiting) \cup running : e.id \in Nat /\ e.id <= created
      BY QueueFacts DEF ReadEntry
    <3>2. QED
      BY <2>1, <3>1
  <2>5. Of(w) = Of(waiting) \cup {new}
    <3>1. \A i \in DOMAIN w : w[i] \in Of(waiting) \/ w[i] = new
      BY <2>3 DEF Of
    <3>2. \A i \in DOMAIN waiting : i \in DOMAIN w /\ w[i] = waiting[i]
      BY <2>3
    <3>3. Len(waiting) + 1 \in DOMAIN w
      BY <2>3
    <3>4. QED
      BY <2>3, <3>1, <3>2, <3>3 DEF Of
  <2>6. Distinct(w)
    <3> SUFFICES ASSUME NEW i \in DOMAIN w, NEW m \in DOMAIN w, w[i] = w[m] PROVE i = m
      BY DEF Distinct
    <3>1. ASSUME NEW x \in DOMAIN w, x # Len(waiting) + 1
          PROVE  x \in DOMAIN waiting /\ w[x] = waiting[x] /\ w[x] # new
      BY <2>3, <2>4, <3>1 DEF Of
    <3>2. CASE i = Len(waiting) + 1 \/ m = Len(waiting) + 1
      BY <2>3, <3>1, <3>2
    <3>3. CASE i # Len(waiting) + 1 /\ m # Len(waiting) + 1
      <4>1. i \in DOMAIN waiting /\ m \in DOMAIN waiting /\ waiting[i] = waiting[m]
        BY <3>1, <3>3
      <4>2. QED
        BY <4>1, QueueFacts DEF Distinct
    <3>4. QED
      BY <3>2, <3>3
  <2>7. Of(w) \cap running = {}
    BY <2>4, <2>5, QueueFacts
  <2>8. readLimit' \in {1, 2} /\ joinable' \in [Resources -> Nat]
    BY <1>1, <1>3, <2>1, QueueFacts
  <2>9. QueueTypes'
    BY <2>1, <2>2, <2>3, <2>6, <2>7, <2>8, QueueFacts, DrainTypes
  <2>10. \A e \in Of(w) \cup running : e.id <= created'
    <3>1. \A e \in Of(waiting) \cup running : e.id \in Nat /\ e.id <= created
      BY QueueFacts DEF ReadEntry
    <3>2. QED
      BY <2>1, <2>5, <3>1
  <2>11. ASSUME NEW r \in Resources, joinable'[r] # 0
         PROVE  \E e \in Of(w) \cup running : e.lifetime \notin aborted' /\ e.id = joinable'[r] /\ e.key = r
    <3>1. CASE r = k
      <4>1. joinable'[r] = created'
        BY <1>3, <3>1, QueueFacts
      <4>2. QED
        BY <1>1, <2>1, <2>5, <3>1, <4>1
    <3>2. CASE r # k
      <4>1. joinable'[r] = joinable[r]
        BY <1>3, <3>2, QueueFacts
      <4>2. \E e \in Of(waiting) \cup running : e.id = joinable[r] /\ e.key = r
        BY <2>11, <4>1, QueueFacts
      <4>3. QED
        BY <1>1, <2>5, <4>1, <4>2, QueueFacts
    <3>3. QED
      BY <3>1, <3>2
  <2>12. QED
    BY <2>2, <2>3, <2>6, <2>7, <2>8, <2>9, <2>10, <2>11, QueueFacts, DrainStep
<1>4. QED
  BY <1>1, <1>2, <1>3

\* A read that ends is joined no more; the others stay where they are.
LEMMA EndsStep == ASSUME QueueInv, ReadEnds PROVE QueueInv'
<1>1. PICK x \in running : /\ readLimit' = readLimit /\ aborted' = aborted /\ created' = created
                           /\ joinable' = Forgotten({x}) /\ Drain(waiting, running \ {x})
  BY DEF ReadEnds
<1> DEFINE r == running \ {x}
<1>2. r \in SUBSET ReadEntry /\ IsFiniteSet(r) /\ Cardinality(r) <= 2
  <2>1. r \in SUBSET running /\ r \in SUBSET ReadEntry
    BY QueueFacts
  <2> HIDE DEF r
  <2>2. IsFiniteSet(running) /\ Cardinality(running) <= 2
    BY QueueFacts
  <2>3. IsFiniteSet(r) /\ Cardinality(r) <= Cardinality(running)
    BY <2>1, <2>2, FS_Subset
  <2>4. Cardinality(r) \in Nat /\ Cardinality(running) \in Nat
    BY <2>2, <2>3, FS_CardinalityType
  <2>5. QED
    BY <2>1, <2>2, <2>3, <2>4
<1>3. \A k \in Resources : joinable'[k] = IF joinable[k] = x.id THEN 0 ELSE joinable[k]
  BY <1>1 DEF Forgotten
<1>4. joinable' \in [Resources -> Nat]
  BY <1>1, QueueFacts DEF Forgotten
<1>5. ASSUME NEW k \in Resources, joinable'[k] # 0
      PROVE  \E e \in Of(waiting) \cup r : e.lifetime \notin aborted' /\ e.id = joinable'[k] /\ e.key = k
  <2>1. joinable'[k] = joinable[k] /\ joinable[k] # x.id
    BY <1>3, <1>5
  <2>2. PICK e \in Of(waiting) \cup running : e.id = joinable[k] /\ e.key = k
    BY <1>5, <2>1, QueueFacts
  <2>3. e # x /\ e.lifetime \notin aborted'
    BY <1>1, <2>1, <2>2, QueueFacts
  <2>4. QED
    BY <2>1, <2>2, <2>3
<1>6. Of(waiting) \cap r = {} /\ \A e \in Of(waiting) \cup r : e.id <= created'
  BY <1>1, QueueFacts
<1>7. Drain(waiting, r)
  BY <1>1
<1> HIDE DEF r
<1>8. QueueTypes'
  BY <1>1, <1>2, <1>4, <1>6, <1>7, QueueFacts, DrainTypes
<1>9. QED
  BY <1>1, <1>2, <1>5, <1>6, <1>7, <1>8, QueueFacts, DrainStep

\* An abort lets go of the reads of the lifetime wherever they are.
LEMMA AbortStep == ASSUME QueueInv, AbortReads PROVE QueueInv'
<1>1. PICK l \in Lifetimes : /\ aborted' = aborted \cup {l} /\ readLimit' = readLimit /\ created' = created
                             /\ joinable' = Forgotten({e \in Live : e.lifetime = l})
                             /\ Drain(waiting, running)
  BY DEF AbortReads
<1>2. \A k \in Resources : joinable'[k] =
         IF joinable[k] \in {e.id : e \in {e \in Live : e.lifetime = l}} THEN 0 ELSE joinable[k]
  BY <1>1 DEF Forgotten
<1>3. joinable' \in [Resources -> Nat]
  BY <1>1, QueueFacts DEF Forgotten
<1>4. ASSUME NEW k \in Resources, joinable'[k] # 0
      PROVE  \E e \in Of(waiting) \cup running : e.lifetime \notin aborted' /\ e.id = joinable'[k] /\ e.key = k
  <2>1. joinable'[k] = joinable[k] /\ joinable[k] \notin {e.id : e \in {e \in Live : e.lifetime = l}}
    BY <1>2, <1>4
  <2>2. PICK e \in Of(waiting) \cup running : e.id = joinable[k] /\ e.key = k
    BY <1>4, <2>1, QueueFacts
  <2>3. e.lifetime # l
    BY <2>1, <2>2, LiveIs
  <2>4. e.lifetime \notin aborted'
    BY <1>1, <2>3, QueueFacts
  <2>5. QED
    BY <2>1, <2>2, <2>4
<1>5. \A e \in Of(waiting) \cup running : e.id <= created'
  BY <1>1, QueueFacts
<1>6. readLimit' \in {1, 2} /\ created' \in Nat
  BY <1>1, QueueFacts
<1>7. QueueTypes'
  BY <1>1, <1>3, <1>6, QueueFacts, DrainTypes
<1>8. QED
  BY <1>1, <1>4, <1>5, <1>6, <1>7, QueueFacts, DrainStep

LEMMA QueueStays == ASSUME QueueInv, UNCHANGED queueVars PROVE QueueInv'
<1>1. QueueTypes'
  BY DEF QueueInv, QueueTypes, queueVars
<1>2. InOnePlace'
  BY DEF QueueInv, InOnePlace, Distinct, Of, Live, queueVars
<1>3. ReadQueueSound'
  BY DEF QueueInv, ReadQueueSound, SlotsUsed, JoinsLive, Live, queueVars
<1>4. QED
  BY <1>1, <1>2, <1>3 DEF QueueInv

\* Over ends, aborts, joins and changes of the limit, no read waits while a slot
\* is free, no slot is held for an ended lifetime, and a read is joined only
\* while it will be answered (the read queue's run, drain, cancel and finish).
THEOREM ReadQueueSoundHolds == QueueSpec => []ReadQueueSound
<1>1. QueueInit => QueueInv
  BY QueueStarts
<1>2. QueueInv /\ [QueueNext]_queueVars => QueueInv'
  BY SetLimitStep, RunStep, EndsStep, AbortStep, QueueStays DEF QueueNext
<1>3. QueueInv => ReadQueueSound
  BY DEF QueueInv
<1>4. QED
  BY <1>1, <1>2, <1>3, PTL DEF QueueSpec

-----------------------------------------------------------------------------
(* The queue of the storage of a tab                                       *)

Sessions == 1 .. MaxSessions
TabDevices == Nodes \cup {Nobody}
Askers == {"save", "check"} \cup Expiries
IdbWrites ==
    [put : Copies, current : BOOLEAN, by : {"save"}] \cup [put : {Nobody}, current : BOOLEAN, by : Askers]

\* What the entries of the queue of the storage tell apart.
Lifting(w) == w.put # Nobody /\ w.current
HasClear(q, kinds) == \E i \in DOMAIN q : q[i].put = Nobody /\ q[i].by \in kinds
HasEnded(q) == \E i \in DOMAIN q : q[i].put # Nobody /\ q[i].put.ended
NoLift(q) == \A i \in DOMAIN q : ~Lifting(q[i])

\* No put before a clear, and none before a put that was ended, lifts the tombstone.
LiftsLast(q) ==
    \A i \in DOMAIN q : q[i].put = Nobody => \A j \in 1 .. i : ~Lifting(q[j])
EndedFirst(q) ==
    \A i \in DOMAIN q : q[i].put # Nobody /\ q[i].put.ended => \A j \in 1 .. i : ~Lifting(q[j])

\* A copy holds nothing older than the session it is stored for.
OwnCopy(r) == \A i \in DOMAIN r.views : \A s \in Sources(r.views[i]) : s >= r.scope
OwnWrites(q) == \A i \in DOMAIN q : q[i].put # Nobody => OwnCopy(q[i].put)

LEMMA WriteIs ==
    ASSUME NEW w \in IdbWrites
    PROVE  /\ w.put \in Copies \cup {Nobody} /\ w.current \in BOOLEAN /\ w.by \in Askers
           /\ w = [put |-> w.put, current |-> w.current, by |-> w.by]
           /\ w.put # Nobody => w.by = "save"
  BY WebConsoleAssumption DEF IdbWrites, Askers

LEMMA WriteWith ==
    ASSUME NEW w \in IdbWrites, NEW c \in BOOLEAN
    PROVE  /\ [w EXCEPT !.current = c] = [put |-> w.put, current |-> c, by |-> w.by]
           /\ [w EXCEPT !.current = c] \in IdbWrites
<1>1. [w EXCEPT !.current = c] = [put |-> w.put, current |-> c, by |-> w.by]
  BY WriteIs
<1>2. [w EXCEPT !.current = c] \in IdbWrites
  BY DEF IdbWrites
<1>3. QED
  BY <1>1, <1>2

LEMMA EndedIs ==
    ASSUME NEW r \in Copies \cup {Nobody}
    PROVE  /\ Ended(r) \in Copies \cup {Nobody} /\ (Ended(r) = Nobody <=> r = Nobody)
           /\ r # Nobody => Ended(r).ended /\ Ended(r).views = r.views /\ Ended(r).scope = r.scope
<1>1. CASE r = Nobody
  BY <1>1 DEF Ended
<1>2. CASE r # Nobody
  <2>1. Ended(r) = [r EXCEPT !.ended = TRUE] /\ r \in Copies
    BY <1>2 DEF Ended
  <2>2. Ended(r) \in Copies /\ Ended(r).ended /\ Ended(r).views = r.views /\ Ended(r).scope = r.scope
    BY <2>1 DEF Copies
  <2>3. QED
    BY <1>2, <2>2, WebConsoleAssumption
<1>3. QED
  BY <1>1, <1>2

\* What a queue is after every entry has been changed by f.
LEMMA SupersededIs ==
    ASSUME NEW q \in Seq(IdbWrites), NEW p, p = Superseded(q)
    PROVE  /\ p \in Seq(IdbWrites) /\ Len(p) = Len(q) /\ NoLift(p)
           /\ \A K : HasClear(p, K) <=> HasClear(q, K)
           /\ HasEnded(p) <=> HasEnded(q)
           /\ OwnWrites(q) => OwnWrites(p)
<1>1. /\ DOMAIN p = DOMAIN q /\ DOMAIN q = 1 .. Len(q)
      /\ \A i \in DOMAIN q : q[i] \in IdbWrites /\ p[i] = [q[i] EXCEPT !.current = @ /\ q[i].put = Nobody]
  BY DEF Superseded
<1>2. \A i \in DOMAIN q : /\ p[i] \in IdbWrites /\ p[i].put = q[i].put /\ p[i].by = q[i].by
                          /\ p[i].current => q[i].put = Nobody
  <2>1. TAKE i \in DOMAIN q
  <2> DEFINE c == q[i].current /\ q[i].put = Nobody
  <2>2. c \in BOOLEAN /\ (c => q[i].put = Nobody)
    OBVIOUS
  <2>3. p[i] = [q[i] EXCEPT !.current = c] /\ q[i] \in IdbWrites
    BY <1>1
  <2> HIDE DEF c
  <2>4. p[i] \in IdbWrites /\ p[i] = [put |-> q[i].put, current |-> c, by |-> q[i].by]
    BY <2>2, <2>3, WriteWith
  <2>5. QED
    BY <2>2, <2>3, <2>4
<1>3. p \in Seq(IdbWrites) /\ Len(p) = Len(q)
  <2>1. p = [i \in 1 .. Len(q) |-> p[i]] /\ Len(q) \in Nat
    BY <1>1 DEF Superseded
  <2>2. \A i \in 1 .. Len(q) : p[i] \in IdbWrites
    BY <1>1, <1>2
  <2>3. QED
    BY <1>1, <2>1, <2>2, LenProperties
<1>4. NoLift(p)
  BY <1>1, <1>2 DEF NoLift, Lifting
<1>5. \A K : HasClear(p, K) <=> HasClear(q, K)
  BY <1>1, <1>2 DEF HasClear
<1>6. HasEnded(p) <=> HasEnded(q)
  BY <1>1, <1>2 DEF HasEnded
<1>7. OwnWrites(q) => OwnWrites(p)
  BY <1>1, <1>2 DEF OwnWrites
<1>8. QED
  BY <1>3, <1>4, <1>5, <1>6, <1>7

\* The queue after another tab has forgotten: its puts are ended.
LEMMA EndedPuts ==
    ASSUME NEW q \in Seq(IdbWrites), NEW p, p = [i \in DOMAIN q |-> [q[i] EXCEPT !.put = Ended(@)]]
    PROVE  /\ p \in Seq(IdbWrites) /\ Len(p) = Len(q)
           /\ NoLift(q) => NoLift(p)
           /\ LiftsLast(q) => LiftsLast(p)
           /\ \A K : HasClear(p, K) <=> HasClear(q, K)
           /\ OwnWrites(q) => OwnWrites(p)
<1>1. /\ DOMAIN p = DOMAIN q /\ DOMAIN q = 1 .. Len(q)
      /\ \A i \in DOMAIN q : q[i] \in IdbWrites /\ p[i] = [q[i] EXCEPT !.put = Ended(q[i].put)]
  OBVIOUS
<1>2. \A i \in DOMAIN q : /\ p[i] \in IdbWrites /\ p[i].put = Ended(q[i].put) /\ p[i].by = q[i].by
                          /\ p[i].current = q[i].current
                          /\ p[i].put = Nobody <=> q[i].put = Nobody
                          /\ q[i].put # Nobody => p[i].put.views = q[i].put.views /\ p[i].put.scope = q[i].put.scope
  <2>1. TAKE i \in DOMAIN q
  <2>2. p[i] = [put |-> Ended(q[i].put), current |-> q[i].current, by |-> q[i].by]
    BY <1>1, WriteIs
  <2>3. /\ q[i].put \in Copies \cup {Nobody} /\ q[i].current \in BOOLEAN /\ q[i].by \in Askers
        /\ q[i].put # Nobody => q[i].by = "save"
    BY <1>1, WriteIs
  <2>4. /\ Ended(q[i].put) \in Copies \cup {Nobody} /\ (Ended(q[i].put) = Nobody <=> q[i].put = Nobody)
        /\ q[i].put # Nobody => Ended(q[i].put).views = q[i].put.views /\ Ended(q[i].put).scope = q[i].put.scope
    BY <2>3, EndedIs
  <2>5. p[i] \in IdbWrites
    BY <2>2, <2>3, <2>4 DEF IdbWrites
  <2>6. QED
    BY <2>2, <2>4, <2>5
<1>3. p \in Seq(IdbWrites) /\ Len(p) = Len(q)
  <2>1. p = [i \in 1 .. Len(q) |-> p[i]] /\ Len(q) \in Nat
    BY <1>1
  <2>2. \A i \in 1 .. Len(q) : p[i] \in IdbWrites
    BY <1>1, <1>2
  <2>3. QED
    BY <1>1, <2>1, <2>2, LenProperties
<1>4. NoLift(q) => NoLift(p)
  BY <1>1, <1>2 DEF NoLift, Lifting
<1>5. LiftsLast(q) => LiftsLast(p)
  <2>1. \A i \in DOMAIN q : \A j \in 1 .. i : j \in DOMAIN q
    BY <1>1
  <2>2. QED
    BY <1>1, <1>2, <2>1 DEF LiftsLast, Lifting
<1>6. \A K : HasClear(p, K) <=> HasClear(q, K)
  BY <1>1, <1>2 DEF HasClear
<1>7. OwnWrites(q) => OwnWrites(p)
  BY <1>1, <1>2 DEF OwnWrites, OwnCopy
<1>8. QED
  BY <1>3, <1>4, <1>5, <1>6, <1>7

\* The queue after its first operation.
LEMMA TailIs ==
    ASSUME NEW q \in Seq(IdbWrites), q # <<>>
    PROVE  /\ Head(q) \in IdbWrites /\ Tail(q) \in Seq(IdbWrites) /\ Len(Tail(q)) < Len(q)
           /\ NoLift(q) => NoLift(Tail(q)) /\ ~Lifting(Head(q))
           /\ LiftsLast(q) => LiftsLast(Tail(q))
           /\ EndedFirst(q) => EndedFirst(Tail(q))
           /\ LiftsLast(q) /\ Lifting(Head(q)) => \A K : ~HasClear(q, K)
           /\ EndedFirst(q) /\ Lifting(Head(q)) => ~HasEnded(q)
           /\ \A K : HasClear(q, K) <=> HasClear(Tail(q), K) \/ (Head(q).put = Nobody /\ Head(q).by \in K)
           /\ HasEnded(q) <=> HasEnded(Tail(q)) \/ (Head(q).put # Nobody /\ Head(q).put.ended)
           /\ \A K : "save" \notin K => (HasClear(Tail(q), K) <=> \E i \in 2 .. Len(q) : q[i].by \in K)
           /\ OwnWrites(q) => OwnWrites(Tail(q)) /\ (Head(q).put # Nobody => OwnCopy(Head(q).put))
<1> DEFINE t == Tail(q)
<1>1. /\ Head(q) = q[1] /\ t \in Seq(IdbWrites) /\ Len(t) = Len(q) - 1 /\ Len(q) \in Nat \ {0}
      /\ DOMAIN q = 1 .. Len(q) /\ DOMAIN t = 1 .. Len(t)
      /\ \A i \in DOMAIN t : t[i] = q[i + 1] /\ i + 1 \in DOMAIN q
      /\ 1 \in DOMAIN q /\ \A i \in DOMAIN q : q[i] \in IdbWrites /\ (i # 1 => i - 1 \in DOMAIN t /\ t[i - 1] = q[i])
  OBVIOUS
<1> HIDE DEF t
<1>2. NoLift(q) => NoLift(t) /\ ~Lifting(q[1])
  BY <1>1 DEF NoLift
<1>3. LiftsLast(q) => LiftsLast(t)
  <2> SUFFICES ASSUME LiftsLast(q), NEW i \in DOMAIN t, t[i].put = Nobody, NEW j \in 1 .. i PROVE ~Lifting(t[j])
    BY DEF LiftsLast
  <2>1. i \in 1 .. Len(t) /\ Len(t) \in Nat
    BY <1>1
  <2>2. j \in 1 .. Len(t) /\ j + 1 \in 1 .. i + 1
    BY <2>1
  <2>3. t[j] = q[j + 1] /\ t[i] = q[i + 1] /\ i + 1 \in DOMAIN q
    BY <1>1, <2>1, <2>2
  <2>4. QED
    BY <2>2, <2>3 DEF LiftsLast
<1>4. EndedFirst(q) => EndedFirst(t)
  <2> SUFFICES ASSUME EndedFirst(q), NEW i \in DOMAIN t, t[i].put # Nobody /\ t[i].put.ended, NEW j \in 1 .. i
               PROVE ~Lifting(t[j])
    BY DEF EndedFirst
  <2>1. i \in 1 .. Len(t) /\ Len(t) \in Nat
    BY <1>1
  <2>2. j \in 1 .. Len(t) /\ j + 1 \in 1 .. i + 1
    BY <2>1
  <2>3. t[j] = q[j + 1] /\ t[i] = q[i + 1] /\ i + 1 \in DOMAIN q
    BY <1>1, <2>1, <2>2
  <2>4. QED
    BY <2>2, <2>3 DEF EndedFirst
<1>5. LiftsLast(q) /\ Lifting(q[1]) => \A K : ~HasClear(q, K)
  <2>1. \A i \in DOMAIN q : 1 \in 1 .. i
    BY <1>1
  <2>2. QED
    BY <2>1 DEF LiftsLast, HasClear
<1>6. EndedFirst(q) /\ Lifting(q[1]) => ~HasEnded(q)
  <2>1. \A i \in DOMAIN q : 1 \in 1 .. i
    BY <1>1
  <2>2. QED
    BY <2>1 DEF EndedFirst, HasEnded
<1>7. \A K : HasClear(q, K) <=> HasClear(t, K) \/ (q[1].put = Nobody /\ q[1].by \in K)
  BY <1>1 DEF HasClear
<1>8. HasEnded(q) <=> HasEnded(t) \/ (q[1].put # Nobody /\ q[1].put.ended)
  BY <1>1 DEF HasEnded
<1>9. ASSUME NEW K, "save" \notin K PROVE HasClear(t, K) <=> \E i \in 2 .. Len(q) : q[i].by \in K
  <2>1. ASSUME HasClear(t, K) PROVE \E i \in 2 .. Len(q) : q[i].by \in K
    <3>1. PICK i \in DOMAIN t : t[i].by \in K
      BY <2>1 DEF HasClear
    <3>2. i + 1 \in 2 .. Len(q) /\ q[i + 1].by \in K
      BY <1>1, <3>1
    <3>3. QED
      BY <3>2
  <2>2. ASSUME NEW i \in 2 .. Len(q), q[i].by \in K PROVE HasClear(t, K)
    <3>1. i - 1 \in DOMAIN t /\ t[i - 1] = q[i] /\ q[i] \in IdbWrites
      BY <1>1
    <3>2. q[i].put = Nobody
      BY <1>9, <2>2, <3>1, WriteIs
    <3>3. QED
      BY <2>2, <3>1, <3>2 DEF HasClear
  <2>3. QED
    BY <2>1, <2>2
<1>10. OwnWrites(q) => OwnWrites(t) /\ (q[1].put # Nobody => OwnCopy(q[1].put))
  BY <1>1 DEF OwnWrites
<1>11. QED
  BY <1>1, <1>2, <1>3, <1>4, <1>5, <1>6, <1>7, <1>8, <1>9, <1>10 DEF t

\* A put behind the queue: it is not ended.
WithPut(q, r) == Append(q, [put |-> r, current |-> TRUE, by |-> "save"])

LEMMA PutQueued ==
    ASSUME NEW q \in Seq(IdbWrites), NEW r \in Copies, ~r.ended
    PROVE  LET p == WithPut(q, r) IN
           /\ p \in Seq(IdbWrites) /\ Len(p) = Len(q) + 1
           /\ LiftsLast(q) => LiftsLast(p)
           /\ EndedFirst(q) => EndedFirst(p)
           /\ \A K : HasClear(p, K) <=> HasClear(q, K)
           /\ HasEnded(p) <=> HasEnded(q)
           /\ OwnWrites(q) /\ OwnCopy(r) => OwnWrites(p)
<1> DEFINE w == [put |-> r, current |-> TRUE, by |-> "save"]
           p == WithPut(q, r)
<1>1. w \in IdbWrites /\ w.put = r /\ r # Nobody
  BY WebConsoleAssumption DEF IdbWrites
<1>2. p = Append(q, w)
  BY DEF WithPut
<1> HIDE DEF w, p
<1>3. /\ p \in Seq(IdbWrites) /\ Len(p) = Len(q) + 1 /\ DOMAIN q = 1 .. Len(q) /\ DOMAIN p = 1 .. Len(p) /\ Len(q) \in Nat
      /\ \A i \in DOMAIN q : i \in DOMAIN p /\ p[i] = q[i]
      /\ \A i \in DOMAIN p : i \in DOMAIN q \/ p[i] = w
  BY <1>1, <1>2
<1>4. \A i \in DOMAIN p : p[i].put = Nobody \/ p[i].put.ended => i \in DOMAIN q /\ \A j \in 1 .. i : p[j] = q[j]
  BY <1>1, <1>3
<1>5. LiftsLast(q) => LiftsLast(p)
  BY <1>3, <1>4 DEF LiftsLast
<1>6. EndedFirst(q) => EndedFirst(p)
  BY <1>3, <1>4 DEF EndedFirst
<1>7. \A K : HasClear(p, K) <=> HasClear(q, K)
  BY <1>1, <1>3 DEF HasClear
<1>8. HasEnded(p) <=> HasEnded(q)
  BY <1>1, <1>3 DEF HasEnded
<1>9. OwnWrites(q) /\ OwnCopy(r) => OwnWrites(p)
  BY <1>1, <1>3 DEF OwnWrites
<1>10. QED
  BY <1>3, <1>5, <1>6, <1>7, <1>8, <1>9 DEF p

\* The queue after a clear by the caller by.
WithClear(q, by) == Append(Fenced(q), [put |-> Nobody, current |-> TRUE, by |-> by])

LEMMA FencedIs ==
    ASSUME NEW q \in Seq(IdbWrites), NEW by \in Askers
    PROVE  LET p == WithClear(q, by) IN
           /\ p \in Seq(IdbWrites) /\ Len(p) <= Len(q) + 1 /\ NoLift(p)
           /\ \A K : HasClear(p, K) <=> HasClear(q, K) \/ by \in K
           /\ OwnWrites(q) => OwnWrites(p)
<1> DEFINE last == [put |-> Nobody, current |-> TRUE, by |-> by]
           p == WithClear(q, by)
<1>1. last \in IdbWrites /\ last.put = Nobody /\ last.by = by
  BY DEF IdbWrites
<1>2. p = Append(Fenced(q), last)
  BY DEF WithClear
<1> HIDE DEF last, p
<1>3. CASE q = <<>>
  <2>1. Fenced(q) = <<>>
    BY <1>3 DEF Fenced
  <2>2. Len(q) = 0 /\ DOMAIN q = {}
    BY <1>3
  <2>3. DOMAIN p = {1} /\ p[1] = last /\ Len(p) = 1 /\ p \in Seq(IdbWrites)
    <3>1. q \in Seq(IdbWrites) /\ p = Append(q, last)
      BY <1>2, <1>3, <2>1
    <3>2. p \in Seq(IdbWrites) /\ Len(p) = 1 /\ p[1] = last
      <4>1. p \in Seq(IdbWrites) /\ Len(p) = Len(q) + 1 /\ p[Len(q) + 1] = last
        BY ONLY <1>1, <3>1
      <4>2. QED
        BY <2>2, <4>1
    <3>3. QED
      BY <3>2
  <2>4. NoLift(p) /\ OwnWrites(p)
    BY <1>1, <2>3 DEF NoLift, OwnWrites, Lifting
  <2>5. \A K : HasClear(p, K) <=> HasClear(q, K) \/ by \in K
    BY <1>1, <2>2, <2>3 DEF HasClear
  <2>6. Len(p) <= Len(q) + 1
    BY <2>2, <2>3
  <2>7. QED
    BY <2>3, <2>4, <2>5, <2>6, Zenon DEF p
<1>4. CASE q # <<>>
  <2> DEFINE P == {i \in 2 .. Len(q) : q[i].put = Nobody}
             clears == Sublist(q, P)
             head == [put |-> Ended(Head(q).put), current |-> Head(q).current /\ Head(q).put = Nobody, by |-> Head(q).by]
             rest == [i \in DOMAIN clears |-> [clears[i] EXCEPT !.current = FALSE]]
  <2>1. Fenced(q) = <<head>> \o rest
    BY <1>4 DEF Fenced
  <2>2. Len(q) \in Nat \ {0} /\ DOMAIN q = 1 .. Len(q) /\ P \in SUBSET (1 .. Len(q))
        /\ 1 \in DOMAIN q /\ \A i \in DOMAIN q : q[i] \in IdbWrites
    BY <1>4
  <2>3. /\ clears \in Seq(IdbWrites) /\ {clears[n] : n \in DOMAIN clears} = {q[i] : i \in P}
        /\ Len(clears) = Cardinality(P)
    BY <2>2, SublistHolds, SublistKeepsOrder
  <2>4. Cardinality(P) \in Nat /\ Cardinality(P) <= Len(q) - 1
    <3>1. IsFiniteSet(2 .. Len(q)) /\ Cardinality(2 .. Len(q)) = (IF 2 > Len(q) THEN 0 ELSE Len(q) - 2 + 1)
      <4>1. 2 \in Int /\ Len(q) \in Int
        BY <2>2
      <4>2. QED
        BY <4>1, FS_Interval
    <3>2. P \in SUBSET (2 .. Len(q))
      OBVIOUS
    <3>3. IsFiniteSet(P) /\ Cardinality(P) <= Cardinality(2 .. Len(q)) /\ Cardinality(P) \in Nat
      BY <3>1, <3>2, FS_Subset, FS_CardinalityType
    <3>4. QED
      BY <2>2, <3>1, <3>3
  <2>5. \A n \in DOMAIN clears : \E i \in 2 .. Len(q) : clears[n] = q[i] /\ q[i].put = Nobody
    <3>1. TAKE n \in DOMAIN clears
    <3>2. clears[n] \in {q[i] : i \in P}
      BY <2>3
    <3>3. QED
      BY <3>2
  <2>6. \A i \in 2 .. Len(q) : q[i].put = Nobody => \E n \in DOMAIN clears : clears[n] = q[i]
    <3>1. TAKE i \in 2 .. Len(q)
    <3>2. HAVE q[i].put = Nobody
    <3>3. q[i] \in {clears[n] : n \in DOMAIN clears}
      BY <2>3, <3>2
    <3>4. QED
      BY <3>3
  <2> HIDE DEF P, clears
  <2>7. \A n \in DOMAIN clears : /\ rest[n] \in IdbWrites /\ rest[n].put = Nobody /\ ~rest[n].current
                                  /\ rest[n].by = clears[n].by
    <3>1. TAKE n \in DOMAIN clears
    <3>2. clears[n] \in IdbWrites /\ clears[n].put = Nobody
      BY <2>2, <2>5
    <3>3. rest[n] = [clears[n] EXCEPT !.current = FALSE]
      OBVIOUS
    <3>4. rest[n] = [put |-> Nobody, current |-> FALSE, by |-> clears[n].by]
      BY <3>2, <3>3, WriteWith
    <3>5. rest[n] \in IdbWrites
      BY <3>2, <3>3, WriteWith
    <3>6. QED
      BY <3>4, <3>5
  <2>8. rest \in Seq(IdbWrites) /\ Len(rest) = Len(clears) /\ DOMAIN rest = DOMAIN clears /\ DOMAIN rest = 1 .. Len(rest)
    <3>1. rest = [n \in 1 .. Len(clears) |-> rest[n]] /\ Len(clears) \in Nat /\ DOMAIN clears = 1 .. Len(clears)
      BY <2>3
    <3>2. \A n \in 1 .. Len(clears) : rest[n] \in IdbWrites
      BY <2>7, <3>1
    <3>3. QED
      BY <3>1, <3>2, LenProperties
  <2>9. /\ head \in IdbWrites /\ ~Lifting(head) /\ head.by = q[1].by
        /\ head.put = Nobody <=> q[1].put = Nobody
        /\ OwnWrites(q) /\ head.put # Nobody => OwnCopy(head.put)
    <3> DEFINE c == q[1].current /\ q[1].put = Nobody
    <3>1. c \in BOOLEAN /\ (c => q[1].put = Nobody)
      OBVIOUS
    <3>2. Head(q) = q[1] /\ head = [put |-> Ended(Head(q).put), current |-> c, by |-> Head(q).by]
      BY <1>4
    <3>3. head = [put |-> Ended(q[1].put), current |-> c, by |-> q[1].by]
      BY <3>2
    <3> HIDE DEF c
    <3>4. /\ q[1].put \in Copies \cup {Nobody} /\ q[1].by \in Askers /\ (q[1].put # Nobody => q[1].by = "save")
          /\ q[1] = [put |-> q[1].put, current |-> q[1].current, by |-> q[1].by]
      BY <2>2, WriteIs
    <3>5. /\ Ended(q[1].put) \in Copies \cup {Nobody} /\ (Ended(q[1].put) = Nobody <=> q[1].put = Nobody)
          /\ q[1].put # Nobody => Ended(q[1].put).views = q[1].put.views /\ Ended(q[1].put).scope = q[1].put.scope
      BY <3>4, EndedIs
    <3>6. head \in IdbWrites
      BY <3>1, <3>4, <3>3, <3>5 DEF IdbWrites
    <3>7. ~Lifting(head)
      BY <3>1, <3>3, <3>5 DEF Lifting
    <3>8. OwnWrites(q) /\ head.put # Nobody => OwnCopy(head.put)
      BY <2>2, <3>3, <3>5 DEF OwnWrites, OwnCopy
    <3>9. QED
      BY <3>3, <3>5, <3>6, <3>7, <3>8
  <2> HIDE DEF head, rest
  <2>10. /\ p \in Seq(IdbWrites) /\ Len(p) = Len(rest) + 2 /\ DOMAIN p = 1 .. Len(p) /\ Len(rest) \in Nat
         /\ p[1] = head /\ p[Len(p)] = last /\ 1 \in DOMAIN p /\ Len(p) \in DOMAIN p
         /\ \A n \in DOMAIN rest : n + 1 \in DOMAIN p /\ p[n + 1] = rest[n]
         /\ \A i \in DOMAIN p : i = 1 \/ i = Len(p) \/ (i - 1 \in DOMAIN rest /\ p[i] = rest[i - 1])
    BY <1>1, <1>2, <2>1, <2>8, <2>9
  <2>11. Len(p) <= Len(q) + 1
    BY <2>2, <2>3, <2>4, <2>8, <2>10
  <2>12. NoLift(p)
    BY <1>1, <2>7, <2>8, <2>9, <2>10 DEF NoLift, Lifting
  <2>13. OwnWrites(q) => OwnWrites(p)
    <3>1. ASSUME NEW i \in DOMAIN p, i # 1 PROVE p[i].put = Nobody
      <4>1. CASE i = Len(p)
        BY <1>1, <2>10, <4>1
      <4>2. CASE i # Len(p)
        <5>1. i - 1 \in DOMAIN clears /\ p[i] = rest[i - 1]
          BY <2>8, <2>10, <3>1, <4>2
        <5>2. QED
          BY <2>7, <5>1
      <4>3. QED
        BY <4>1, <4>2
    <3>2. QED
      BY <2>9, <2>10, <3>1 DEF OwnWrites
  <2>14. ASSUME NEW K PROVE HasClear(p, K) <=> HasClear(q, K) \/ by \in K
    <3>1. HasClear(p, K) => HasClear(q, K) \/ by \in K
      <4> SUFFICES ASSUME NEW i \in DOMAIN p, p[i].put = Nobody, p[i].by \in K, by \notin K PROVE HasClear(q, K)
        BY DEF HasClear
      <4>1. CASE i = 1
        BY <2>2, <2>9, <2>10, <4>1 DEF HasClear
      <4>2. CASE i # 1
        <5>1. i - 1 \in DOMAIN clears /\ p[i] = rest[i - 1]
          BY <1>1, <2>8, <2>10, <4>2
        <5>2. PICK k \in 2 .. Len(q) : clears[i - 1] = q[k] /\ q[k].put = Nobody
          BY <2>5, <5>1
        <5>3. k \in DOMAIN q /\ q[k].by \in K
          BY <2>2, <2>7, <5>1, <5>2
        <5>4. QED
          BY <5>2, <5>3 DEF HasClear
      <4>3. QED
        BY <4>1, <4>2
    <3>2. HasClear(q, K) => HasClear(p, K)
      <4> SUFFICES ASSUME NEW i \in DOMAIN q, q[i].put = Nobody, q[i].by \in K PROVE HasClear(p, K)
        BY DEF HasClear
      <4>1. CASE i = 1
        BY <2>9, <2>10, <4>1 DEF HasClear
      <4>2. CASE i # 1
        <5>1. i \in 2 .. Len(q)
          BY <2>2, <4>2
        <5>2. PICK n \in DOMAIN clears : clears[n] = q[i]
          BY <2>6, <5>1
        <5>3. n + 1 \in DOMAIN p /\ p[n + 1].put = Nobody /\ p[n + 1].by \in K
          BY <2>7, <2>8, <2>10, <5>2
        <5>4. QED
          BY <5>3 DEF HasClear
      <4>3. QED
        BY <4>1, <4>2
    <3>3. by \in K => HasClear(p, K)
      BY <1>1, <2>10 DEF HasClear
    <3>4. QED
      BY <3>1, <3>2, <3>3
  <2>15. QED
    BY <2>10, <2>11, <2>12, <2>13, <2>14 DEF p
<1>5. QED
  BY <1>3, <1>4

-----------------------------------------------------------------------------
(* What a tab shows and stores                                             *)

Snapshots ==
    [source : {"empty", "live", "cache"}, device : TabDevices, rows : SUBSET Nat, metrics : Metrics \cup {Nobody}]

\* The fields of the operations under way.
CheckTypes ==
    /\ check.at \in {"quiet", "asked", "reading", "clearing", "cleared"} /\ (check.at = "quiet" <=> check = Quiet)
    /\ check # Quiet => check = [at |-> check.at, cookie |-> check.cookie] /\ check.cookie \in Sessions \cup {Nobody}
    /\ check.at \in {"reading", "clearing", "cleared"} => check.cookie \in Sessions
ReadTypes ==
    /\ load.at \in {"quiet", "session", "list", "charts"} /\ (load.at = "quiet" <=> load = Quiet)
    /\ load # Quiet => load.device \in TabDevices
    /\ load.at \in {"list", "charts"} => load.cookie \in Sessions \cup {Nobody}
    /\ load.at = "charts" => load.cookie \in Sessions
    /\ pull.at \in {"quiet", "timer", "reading"} /\ (pull.at = "quiet" <=> pull = Quiet)
    /\ pull # Quiet => pull.device \in TabDevices
    /\ pull.at = "reading" => pull.cookie \in Sessions \cup {Nobody}
AccountTypes ==
    /\ account.at \in {"quiet", "login", "logout", "forget", "asking", "session"}
    /\ account.at = "quiet" <=> account = Quiet
    /\ account # Quiet => account = [at |-> account.at, op |-> account.op]

WebTypes ==
    /\ CheckTypes /\ ReadTypes /\ AccountTypes
    /\ snapshot \in Snapshots /\ socket \in Sessions \cup {Nobody}
    /\ record \in Copies \cup {Nobody} /\ idb \in Copies \cup {Nobody}
    /\ idbQueue \in Seq(IdbWrites) /\ Len(idbQueue) <= MaxIdb
    /\ gate \in {"loading", "authenticated", "anonymous", "unavailable"}
    /\ boot \in {"mounting", "none", "pending", "offline", "denied"}
    /\ cleared \in BOOLEAN /\ resetPending \in BOOLEAN /\ recordLoaded \in BOOLEAN
    /\ saveTimer \in BOOLEAN /\ restoring \in BOOLEAN /\ expiring \in BOOLEAN /\ cut \in BOOLEAN

\* The cookie is that of the latest session; a scope or a check is of no later one.
Numbered ==
    /\ lastSession \in Sessions /\ cookie \in {lastSession, Nobody}
    /\ identityScope \in Sessions \cup {Nobody} /\ sessionScope \in {identityScope, Nobody}
    /\ identityScope # Nobody => identityScope <= lastSession
    /\ check # Quiet /\ check.cookie # Nobody => check.cookie <= lastSession

\* What the queue of the storage will do; a clear has laid the tombstone.
QueueOk ==
    /\ LiftsLast(idbQueue) /\ (HasClear(idbQueue, Askers) => cleared)
    /\ HasClear(idbQueue, Expiries) => expiring \/ cut
    /\ ~resetPending =>
          /\ EndedFirst(idbQueue) /\ (HasEnded(idbQueue) => cleared)
          /\ idb # Nobody /\ idb.ended => cleared

\* Without the workspace nothing is read, shown or saved.
UnmountedRests ==
    /\ ~Subscribed =>
          /\ load = Quiet /\ pull = Quiet /\ ~saveTimer /\ socket = Nobody /\ NoLift(idbQueue)
          /\ resetPending \/ account # Quiet => cleared
          /\ ~cut => snapshot = emptyConsoleSnapshot
    /\ Subscribed \/ account # Quiet => ~restoring

\* When a read of the view or a copy of it is under way.
ReadsOrdered ==
    /\ load.at \in {"list", "charts"} \/ saveTimer => sessionScope # Nobody
    /\ load.at = "charts" \/ saveTimer => snapshot.source # "cache"
    /\ saveTimer => load.at \in {"quiet", "charts"}
    /\ RestoredFits

\* What is shown or read is not older than the identity, nor than the check
\* that will replace it; without an identity nothing is left but what an
\* expiry is about to empty.
OwnShown ==
    ~cut =>
        /\ identityScope # Nobody =>
              /\ snapshot.source # "cache" => \A s \in Sources(snapshot) : s >= identityScope
              /\ socket # Nobody => socket >= identityScope
              /\ load.at \in {"list", "charts"} /\ load.cookie # Nobody => load.cookie >= identityScope
              /\ pull.at = "reading" /\ pull.cookie # Nobody => pull.cookie >= identityScope
        /\ check # Quiet /\ check.cookie # Nobody =>
              /\ load.at \in {"list", "charts"} /\ load.cookie # Nobody => load.cookie >= check.cookie
              /\ pull.at = "reading" /\ pull.cookie # Nobody => pull.cookie >= check.cookie
        /\ identityScope = Nobody /\ (socket # Nobody \/ (snapshot.source # "cache" /\ Sources(snapshot) # {})) =>
              expiring /\ check = Quiet

OwnStored ==
    ~cut =>
        /\ OwnWrites(idbQueue)
        /\ record # Nobody => OwnCopy(record)
        /\ idb # Nobody => OwnCopy(idb)

\* Whoever waits has something to wait for.
WaitsEnd ==
    /\ expiring => HasClear(idbQueue, Expiries)
    /\ check.at = "clearing" => HasClear(idbQueue, {"check"})
    /\ boot = "denied" => HasClear(idbQueue, {"boot"})
    /\ boot = "pending" => check # Quiet
    /\ boot = "offline" => restoring /\ check = Quiet
    /\ gate = "loading" => boot # "none" \/ account.at = "forget"
    /\ account.at \in {"login", "logout", "forget"} => HasClear(idbQueue, {account.at})

WebInv ==
    WebTypes /\ Numbered /\ QueueOk /\ UnmountedRests /\ ReadsOrdered /\ OwnShown /\ OwnStored /\ WaitsEnd

-----------------------------------------------------------------------------
(* Snapshots and copies                                                    *)

LEMMA SnapshotIs ==
    ASSUME NEW s \in Snapshots
    PROVE  /\ s.source \in {"empty", "live", "cache"} /\ s.device \in TabDevices /\ s.rows \in SUBSET Nat
           /\ s.metrics \in Metrics \cup {Nobody}
           /\ s = [source |-> s.source, device |-> s.device, rows |-> s.rows, metrics |-> s.metrics]
           /\ Sources(s) \in SUBSET Nat
  BY DEF Snapshots, Sources, Metrics

LEMMA EmptyIs == emptyConsoleSnapshot \in Snapshots /\ emptyConsoleSnapshot.source = "empty" /\ Sources(emptyConsoleSnapshot) = {}
  BY DEF emptyConsoleSnapshot, Snapshots, Sources, TabDevices

\* A push adds its session to the rows.
LEMMA PushedIs ==
    ASSUME NEW s \in Snapshots, NEW n \in Nat, NEW p, p = [s EXCEPT !.rows = @ \cup {n}]
    PROVE  /\ p \in Snapshots /\ p.source = s.source /\ p.device = s.device /\ p.metrics = s.metrics
           /\ Sources(p) = Sources(s) \cup {n}
<1> DEFINE rows == s.rows \cup {n}
<1>1. p = [s EXCEPT !.rows = rows]
  OBVIOUS
<1>2. rows \in SUBSET Nat
  BY SnapshotIs
<1> HIDE DEF rows
<1>3. p = [source |-> s.source, device |-> s.device, rows |-> rows, metrics |-> s.metrics]
  BY <1>1, SnapshotIs
<1>4. p \in Snapshots
  BY <1>2, <1>3, SnapshotIs DEF Snapshots
<1>5. QED
  BY <1>3, <1>4 DEF Sources, rows

\* Charts replace those before them.
LEMMA ChartedIs ==
    ASSUME NEW s \in Snapshots, NEW v \in Metrics \cup {Nobody}, NEW p, p = [s EXCEPT !.metrics = v]
    PROVE  /\ p \in Snapshots /\ p.source = s.source /\ p.device = s.device /\ p.metrics = v
           /\ \A n \in Sources(p) : n \in Sources(s) \/ (v # Nobody /\ n = v.session)
<1>1. p = [source |-> s.source, device |-> s.device, rows |-> s.rows, metrics |-> v]
  BY SnapshotIs
<1>2. p \in Snapshots
  BY <1>1, SnapshotIs DEF Snapshots
<1>3. QED
  BY <1>1, <1>2 DEF Sources

LEMMA ListedIs ==
    ASSUME NEW d \in TabDevices, NEW c \in Nat, NEW v \in Metrics \cup {Nobody},
           NEW p, p = [source |-> "live", device |-> d, rows |-> {c}, metrics |-> v]
    PROVE  /\ p \in Snapshots /\ p.source = "live" /\ p.device = d
           /\ \A n \in Sources(p) : n = c \/ (v # Nobody /\ n = v.session)
  BY DEF Snapshots, Sources

LEMMA CopyIs ==
    ASSUME NEW r \in Copies
    PROVE  /\ r # Nobody /\ r.scope \in Nat /\ r.views \in Seq(TabViews) /\ r.views # <<>>
           /\ DOMAIN r.views = 1 .. Len(r.views) /\ 1 \in DOMAIN r.views /\ Head(r.views) = r.views[1]
           /\ \A i \in DOMAIN r.views : r.views[i] \in TabViews
<1>1. r # Nobody /\ r.scope \in Nat /\ r.views \in Seq(TabViews) /\ r.views # <<>>
  BY WebConsoleAssumption DEF Copies
<1>2. QED
  BY <1>1

LEMMA ViewIs ==
    ASSUME NEW v \in TabViews
    PROVE  v.device \in TabDevices /\ v.rows \in SUBSET Nat /\ v.metrics \in Metrics \cup {Nobody}
  BY DEF TabViews, TabDevices

\* A copy shows its rows, and charts of the device that is asked for.
LEMMA RestoredIs ==
    ASSUME record \in Copies, NEW d \in TabDevices
    PROVE  /\ Restored(d) \in Snapshots /\ Restored(d).source = "cache" /\ Restored(d).device = d
           /\ Restored(d).metrics # Nobody => Restored(d).metrics.device = d
           /\ Head(record.views).device \in TabDevices
<1> DEFINE fit == {i \in DOMAIN record.views : record.views[i].metrics # Nobody /\ record.views[i].metrics.device = d}
           m == IF fit = {} THEN Nobody ELSE Head(Sublist(record.views, fit)).metrics
<1>1. Restored(d) = [source |-> "cache", device |-> d, rows |-> Head(record.views).rows, metrics |-> m]
  BY DEF Restored
<1>2. /\ record.views \in Seq(TabViews) /\ Head(record.views) \in TabViews
      /\ \A i \in DOMAIN record.views : record.views[i] \in TabViews
  BY CopyIs
<1>3. m \in Metrics \cup {Nobody} /\ (m # Nobody => m.device = d)
  <2>1. CASE fit = {}
    BY <2>1
  <2>2. CASE fit # {}
    <3> DEFINE t == Sublist(record.views, fit)
    <3>1. fit \in SUBSET (DOMAIN record.views)
      OBVIOUS
    <3>2. t \in Seq(TabViews) /\ {t[n] : n \in DOMAIN t} = {record.views[i] : i \in fit}
      BY <1>2, <3>1, SublistHolds
    <3>3. PICK k \in fit : TRUE
      BY <2>2
    <3>4. record.views[k] \in {t[n] : n \in DOMAIN t}
      BY <3>2, <3>3
    <3>5. PICK n \in DOMAIN t : TRUE
      BY <3>4
    <3> HIDE DEF t
    <3>6. 1 \in DOMAIN t /\ Head(t) = t[1]
      BY <3>2, <3>5
    <3>7. Head(t) \in {record.views[i] : i \in fit}
      BY <3>2, <3>6
    <3>8. PICK i \in fit : Head(t) = record.views[i]
      BY <3>7
    <3>9. m = Head(t).metrics
      BY <2>2 DEF t
    <3>10. QED
      BY <1>2, <3>8, <3>9, ViewIs
  <2>3. QED
    BY <2>1, <2>2
<1> HIDE DEF m
<1>4. Head(record.views).rows \in SUBSET Nat /\ Head(record.views).device \in TabDevices
  BY <1>2, ViewIs
<1>5. QED
  BY <1>1, <1>3, <1>4 DEF Snapshots

\* What a save puts together is of the session it is stored for.
LEMMA SavedIs ==
    ASSUME snapshot \in Snapshots, record \in Copies \cup {Nobody}, NEW scope \in Nat,
           NEW r \in saveSnapshotView(scope)
    PROVE  /\ r \in Copies /\ ~r.ended
           /\ (\A s \in Sources(snapshot) : s >= scope) /\ (record # Nobody => OwnCopy(record)) => OwnCopy(r)
<1> DEFINE now == [device |-> snapshot.device, rows |-> snapshot.rows, metrics |-> snapshot.metrics]
           bare == [now EXCEPT !.metrics = Nobody]
           previous == IF record # Nobody /\ record.scope = scope THEN record.views ELSE <<>>
           others == Sublist(previous, {i \in DOMAIN previous : previous[i].device # now.device})
<1>1. PICK views \in {<<now>> \o others, <<now>>, <<bare>>} : r = [scope |-> scope, ended |-> FALSE, views |-> views]
  BY DEF saveSnapshotView
<1>2. now \in TabViews /\ Sources(now) = Sources(snapshot)
  BY SnapshotIs DEF TabViews, TabDevices, Sources
<1>3. bare \in TabViews /\ Sources(bare) \subseteq Sources(snapshot)
  <2>1. bare = [device |-> snapshot.device, rows |-> snapshot.rows, metrics |-> Nobody]
    OBVIOUS
  <2>2. QED
    BY <2>1, SnapshotIs DEF TabViews, TabDevices, Sources
<1>4. /\ previous \in Seq(TabViews)
      /\ record # Nobody /\ OwnCopy(record) => \A i \in DOMAIN previous : \A s \in Sources(previous[i]) : s >= scope
      /\ record = Nobody => previous = <<>>
  <2>1. CASE record # Nobody /\ record.scope = scope
    BY <2>1, CopyIs DEF OwnCopy
  <2>2. CASE ~(record # Nobody /\ record.scope = scope)
    BY <2>2
  <2>3. QED
    BY <2>1, <2>2
<1> HIDE DEF now, bare, previous
<1>5. others \in Seq(TabViews) /\ \A n \in DOMAIN others : \E k \in DOMAIN previous : others[n] = previous[k]
  <2> DEFINE P == {i \in DOMAIN previous : previous[i].device # now.device}
             t == Sublist(previous, P)
  <2>1. P \in SUBSET (DOMAIN previous)
    OBVIOUS
  <2> HIDE DEF P
  <2>2. t \in Seq(TabViews) /\ {t[n] : n \in DOMAIN t} = {previous[i] : i \in P}
    BY <1>4, <2>1, SublistHolds
  <2>3. ASSUME NEW n \in DOMAIN t PROVE \E k \in DOMAIN previous : t[n] = previous[k]
    <3>1. t[n] \in {previous[i] : i \in P}
      BY <2>2
    <3>2. QED
      BY <2>1, <3>1
  <2>4. others = t
    BY DEF P
  <2> HIDE DEF t, others
  <2>5. QED
    BY <2>2, <2>3, <2>4
<1> HIDE DEF others
<1>6. /\ views \in Seq(TabViews) \ {<<>>}
      /\ \A i \in DOMAIN views : views[i] \in {now, bare} \/ \E n \in DOMAIN others : views[i] = others[n]
  <2>1. CASE views = <<now>> \o others
    <3>1. views \in Seq(TabViews) /\ Len(views) = 1 + Len(others)
      BY <1>2, <1>5, <2>1
    <3>2. \A i \in DOMAIN views : i = 1 \/ (i - 1 \in DOMAIN others /\ views[i] = others[i - 1])
      BY <1>2, <1>5, <2>1
    <3>3. views[1] = now
      BY <1>2, <1>5, <2>1
    <3>4. QED
      BY <1>5, <3>1, <3>2, <3>3
  <2>2. CASE views = <<now>>
    BY <1>2, <2>2
  <2>3. CASE views = <<bare>>
    BY <1>3, <2>3
  <2>4. QED
    BY <1>1, <2>1, <2>2, <2>3
<1>7. r \in Copies /\ ~r.ended /\ r.views = views /\ r.scope = scope
  BY <1>1, <1>6 DEF Copies
<1>8. ASSUME \A s \in Sources(snapshot) : s >= scope, record # Nobody => OwnCopy(record) PROVE OwnCopy(r)
  <2>1. ASSUME NEW i \in DOMAIN views, NEW s \in Sources(views[i]) PROVE s >= scope
    <3>1. CASE views[i] \in {now, bare}
      BY <1>2, <1>3, <1>8, <2>1, <3>1
    <3>2. CASE \E n \in DOMAIN others : views[i] = others[n]
      <4>1. PICK k \in DOMAIN previous : views[i] = previous[k]
        BY <1>5, <3>2
      <4>2. QED
        BY <1>4, <1>8, <2>1, <4>1
    <3>3. QED
      BY <1>6, <3>1, <3>2
  <2>2. QED
    BY <1>7, <2>1 DEF OwnCopy
<1>9. QED
  BY <1>7, <1>8

-----------------------------------------------------------------------------
(* What the steps of a tab have in common                                  *)

LEMMA RestsAreOrdered == ASSUME NEW q \in Seq(IdbWrites), NoLift(q) PROVE LiftsLast(q) /\ EndedFirst(q)
<1>1. \A i \in DOMAIN q : \A j \in 1 .. i : j \in DOMAIN q
  OBVIOUS
<1>2. QED
  BY <1>1 DEF NoLift, LiftsLast, EndedFirst

\* The queue when what was under way for the view is dropped.
Cancelled ==
    /\ idbQueue' \in Seq(IdbWrites) /\ Len(idbQueue') = Len(idbQueue)
    /\ NoLift(idbQueue') /\ LiftsLast(idbQueue') /\ EndedFirst(idbQueue')
    /\ \A K : HasClear(idbQueue', K) <=> HasClear(idbQueue, K)
    /\ HasEnded(idbQueue') <=> HasEnded(idbQueue)
    /\ OwnWrites(idbQueue) => OwnWrites(idbQueue')

LEMMA CancelledQueue == ASSUME WebInv, idbQueue' = Superseded(idbQueue) PROVE Cancelled
<1>1. idbQueue \in Seq(IdbWrites)
  BY DEF WebInv, WebTypes
<1>2. QED
  BY <1>1, SupersededIs, RestsAreOrdered DEF Cancelled

\* The copy and its queue when by clears it.
ClearedFor(by) ==
    /\ cleared' = TRUE /\ record' = Nobody /\ recordLoaded' = TRUE
    /\ idb' \in Copies \cup {Nobody} /\ (idb # Nobody /\ OwnCopy(idb) => OwnCopy(idb')) /\ (idb = Nobody => idb' = Nobody)
    /\ idbQueue' \in Seq(IdbWrites) /\ Len(idbQueue') <= Len(idbQueue) + 1
    /\ NoLift(idbQueue') /\ LiftsLast(idbQueue') /\ EndedFirst(idbQueue')
    /\ \A K : HasClear(idbQueue', K) <=> HasClear(idbQueue, K) \/ by \in K
    /\ OwnWrites(idbQueue) => OwnWrites(idbQueue')

LEMMA ClearedQueue == ASSUME WebInv, NEW by \in Askers, ClearCopy(by) PROVE ClearedFor(by)
<1>1. idbQueue \in Seq(IdbWrites) /\ idb \in Copies \cup {Nobody}
  BY DEF WebInv, WebTypes
<1>2. /\ cleared' = TRUE /\ record' = Nobody /\ recordLoaded' = TRUE /\ idb' = Ended(idb)
      /\ idbQueue' = Append(Fenced(idbQueue), [put |-> Nobody, current |-> TRUE, by |-> by])
  BY DEF ClearCopy
<1>3. idb' \in Copies \cup {Nobody} /\ (idb # Nobody /\ OwnCopy(idb) => OwnCopy(idb')) /\ (idb = Nobody => idb' = Nobody)
  BY <1>1, <1>2, EndedIs DEF OwnCopy
<1>4. /\ idbQueue' \in Seq(IdbWrites) /\ Len(idbQueue') <= Len(idbQueue) + 1 /\ NoLift(idbQueue')
      /\ \A K : HasClear(idbQueue', K) <=> HasClear(idbQueue, K) \/ by \in K
      /\ OwnWrites(idbQueue) => OwnWrites(idbQueue')
  <2>1. idbQueue' = WithClear(idbQueue, by)
    BY <1>2 DEF WithClear
  <2>2. QED
    BY <1>1, <2>1, FencedIs
<1>5. QED
  BY <1>2, <1>3, <1>4, RestsAreOrdered DEF ClearedFor

\* An expiry up to its await.
ExpiredBy(by) ==
    /\ ClearedFor(by) /\ Len(idbQueue) < MaxIdb
    /\ load' = Quiet /\ pull' = Quiet /\ saveTimer' = FALSE /\ restoring' = FALSE
    /\ check' = Quiet /\ expiring' = TRUE /\ cut' = cut
    /\ sessionScope' = Nobody /\ identityScope' = Nobody

LEMMA ExpiredNow == ASSUME WebInv, NEW by \in Expiries, MarkSessionExpired(by) PROVE ExpiredBy(by)
<1>1. ClearedFor(by)
  BY ClearedQueue DEF MarkSessionExpired, Askers
<1>2. QED
  BY <1>1 DEF MarkSessionExpired, ExpiredBy

-----------------------------------------------------------------------------
(* The steps of a tab                                                      *)

LEMMA CopyLoadedStep == ASSUME WebInv, CopyLoaded PROVE WebInv'
<1>1. WebTypes'
  BY DEF WebInv, WebTypes, CheckTypes, ReadTypes, AccountTypes, CopyLoaded, readVarsWeb, gateVars, worldVars
<1>2. Numbered'
  BY DEF WebInv, Numbered, CopyLoaded, scopeVars, worldVars
<1>3. QueueOk'
  BY DEF WebInv, QueueOk, CopyLoaded, worldVars
<1>4. UnmountedRests'
  BY DEF WebInv, UnmountedRests, CopyLoaded, readVarsWeb, gateVars, worldVars, Subscribed
<1>5. ReadsOrdered'
  BY DEF WebInv, ReadsOrdered, RestoredFits, CopyLoaded, scopeVars, readVarsWeb
<1>6. OwnShown'
  BY DEF WebInv, OwnShown, CopyLoaded, scopeVars, readVarsWeb
<1>7. OwnStored'
  BY DEF WebInv, OwnStored, CopyLoaded
<1>8. WaitsEnd'
  BY DEF WebInv, WaitsEnd, CopyLoaded, gateVars
<1>9. QED
  BY <1>1, <1>2, <1>3, <1>4, <1>5, <1>6, <1>7, <1>8 DEF WebInv

LEMMA SaveViewStep == ASSUME WebInv, SaveView PROVE WebInv'
<1>1. /\ record \in Copies \cup {Nobody} /\ snapshot \in Snapshots /\ idbQueue \in Seq(IdbWrites)
      /\ sessionScope \in Nat /\ sessionScope = identityScope /\ Subscribed
  BY DEF WebInv, WebTypes, SaveView, ReadsOrdered, UnmountedRests, Numbered, Sessions
<1>2. Len(idbQueue) < MaxIdb /\ saveTimer' = FALSE
      /\ UNCHANGED <<cookie, scopeVars, snapshot, socket, check, load, pull, expiring, gateVars, account, cut, worldVars>>
  BY DEF SaveView
<1>3. saveTimer /\ snapshot.source # "cache"
  BY DEF SaveView, WebInv, ReadsOrdered
<1>4. \/ UNCHANGED <<record, recordLoaded, idb, cleared, idbQueue>>
      \/ /\ UNCHANGED <<recordLoaded, idb, cleared>>
         /\ record' \in Copies /\ (OwnShown /\ OwnStored /\ ~cut => OwnCopy(record'))
         /\ idbQueue' \in Seq(IdbWrites) /\ Len(idbQueue') = Len(idbQueue) + 1
         /\ LiftsLast(idbQueue) => LiftsLast(idbQueue')
         /\ EndedFirst(idbQueue) => EndedFirst(idbQueue')
         /\ \A K : HasClear(idbQueue', K) <=> HasClear(idbQueue, K)
         /\ HasEnded(idbQueue') <=> HasEnded(idbQueue)
         /\ OwnShown /\ OwnStored /\ ~cut => OwnWrites(idbQueue')
      \/ ClearedFor("save")
  <2>1. CASE UNCHANGED <<copyVars, idbQueue>>
    BY <2>1 DEF copyVars
  <2>2. CASE /\ record' \in saveSnapshotView(sessionScope)
             /\ idbQueue' = Append(idbQueue, [put |-> record', current |-> TRUE, by |-> "save"])
             /\ UNCHANGED <<recordLoaded, idb, cleared>>
    <3>1. /\ record' \in Copies /\ ~record'.ended
          /\ (\A s \in Sources(snapshot) : s >= sessionScope) /\ (record # Nobody => OwnCopy(record)) => OwnCopy(record')
      BY <1>1, <2>2, SavedIs
    <3>2. OwnShown /\ OwnStored /\ ~cut => OwnCopy(record') /\ OwnWrites(idbQueue)
      BY <1>1, <1>3, <3>1, WebConsoleAssumption DEF OwnShown, OwnStored
    <3>3. idbQueue' = WithPut(idbQueue, record')
      BY <2>2 DEF WithPut
    <3>4. QED
      BY <1>1, <2>2, <3>1, <3>2, <3>3, PutQueued
  <2>3. CASE ClearCopy("save")
    BY <2>3, ClearedQueue DEF Askers
  <2>4. QED
    BY <2>1, <2>2, <2>3 DEF SaveView
<1>5. WebTypes'
  <2>1. CheckTypes'
    BY <1>2 DEF WebInv, WebTypes, CheckTypes
  <2>2. ReadTypes'
    BY <1>2 DEF WebInv, WebTypes, ReadTypes
  <2>3. AccountTypes'
    BY <1>2 DEF WebInv, WebTypes, AccountTypes
  <2>4. snapshot' \in Snapshots /\ socket' \in Sessions \cup {Nobody}
    BY <1>2 DEF WebInv, WebTypes
  <2>5. record' \in Copies \cup {Nobody} /\ idb' \in Copies \cup {Nobody}
    BY <1>4 DEF WebInv, WebTypes, ClearedFor
  <2>6. idbQueue' \in Seq(IdbWrites) /\ Len(idbQueue') <= MaxIdb
    BY <1>2, <1>4, WebConsoleAssumption DEF WebInv, WebTypes, ClearedFor
  <2>7. QED
    BY <1>1, <1>2, <1>3, <1>4, WebConsoleAssumption, <2>1, <2>2, <2>3, <2>4, <2>5, <2>6
       DEF WebInv, WebTypes, scopeVars, copyVars, gateVars, worldVars, ClearedFor, Subscribed
<1>6. Numbered'
  BY <1>2 DEF WebInv, Numbered, scopeVars, worldVars
<1>7. QueueOk'
  BY <1>2, <1>4 DEF WebInv, QueueOk, Expiries, worldVars, ClearedFor
<1>8. UnmountedRests'
  BY <1>2, <1>3 DEF WebInv, UnmountedRests, gateVars, Subscribed
<1>9. ReadsOrdered'
  BY <1>2 DEF WebInv, ReadsOrdered, RestoredFits, scopeVars
<1>10. OwnShown'
  BY <1>2 DEF WebInv, OwnShown, scopeVars
<1>11. OwnStored'
  BY <1>2, <1>4 DEF WebInv, OwnStored, ClearedFor
<1>12. WaitsEnd'
  BY <1>2, <1>4 DEF WebInv, WaitsEnd, gateVars, ClearedFor
<1>13. QED
  BY <1>5, <1>6, <1>7, <1>8, <1>9, <1>10, <1>11, <1>12 DEF WebInv

LEMMA PutEndsStep == ASSUME WebInv, PutEnds PROVE WebInv'
<1>1. idbQueue \in Seq(IdbWrites) /\ idbQueue # <<>>
  BY DEF WebInv, WebTypes, PutEnds
<1>2. /\ Head(idbQueue) \in IdbWrites /\ idbQueue' \in Seq(IdbWrites) /\ Len(idbQueue') < Len(idbQueue)
      /\ Head(idbQueue).put \in Copies /\ Head(idbQueue).put # Nobody
  BY <1>1, TailIs, WriteIs DEF PutEnds
<1>3. /\ NoLift(idbQueue) => NoLift(idbQueue') /\ ~Lifting(Head(idbQueue))
      /\ LiftsLast(idbQueue) => LiftsLast(idbQueue')
      /\ EndedFirst(idbQueue) => EndedFirst(idbQueue')
      /\ LiftsLast(idbQueue) /\ Lifting(Head(idbQueue)) => \A K : ~HasClear(idbQueue, K)
      /\ EndedFirst(idbQueue) /\ Lifting(Head(idbQueue)) => ~HasEnded(idbQueue)
      /\ HasEnded(idbQueue) <=> HasEnded(idbQueue') \/ Head(idbQueue).put.ended
      /\ OwnWrites(idbQueue) => OwnWrites(idbQueue') /\ OwnCopy(Head(idbQueue).put)
  BY <1>1, <1>2, TailIs DEF PutEnds
<1>4. \A K : HasClear(idbQueue, K) <=> HasClear(idbQueue', K)
  BY <1>1, <1>2, TailIs DEF PutEnds
<1>5. /\ cleared' \in BOOLEAN /\ (cleared' => cleared) /\ (cleared /\ ~cleared' => Lifting(Head(idbQueue)))
      /\ idb' = idb \/ idb' = Head(idbQueue).put
      /\ idb' = Head(idbQueue).put \/ cleared' = cleared
  BY <1>2 DEF WebInv, WebTypes, PutEnds, Lifts, Lifting
<1>6. /\ idbQueue' = Tail(idbQueue)
      /\ UNCHANGED <<cookie, scopeVars, snapshot, socket, check, readVarsWeb, expiring, record, recordLoaded,
                     gateVars, account, cut, worldVars>>
  BY DEF PutEnds
<1>7. WebTypes'
  BY <1>2, WebConsoleAssumption
     DEF WebInv, WebTypes, CheckTypes, ReadTypes, AccountTypes, PutEnds, readVarsWeb, gateVars, worldVars
<1>8. Numbered'
  BY DEF WebInv, Numbered, PutEnds, scopeVars, worldVars
<1>9. QueueOk'
  BY <1>3, <1>4, <1>5 DEF WebInv, QueueOk, PutEnds, worldVars
<1>10. UnmountedRests'
  BY <1>3, <1>5 DEF WebInv, UnmountedRests, PutEnds, readVarsWeb, gateVars, worldVars, Subscribed
<1>11. ReadsOrdered'
  BY DEF WebInv, ReadsOrdered, RestoredFits, PutEnds, scopeVars, readVarsWeb
<1>12. OwnShown'
  BY DEF WebInv, OwnShown, PutEnds, scopeVars, readVarsWeb
<1>13. OwnStored'
  BY <1>3 DEF WebInv, OwnStored, PutEnds
<1>14. WaitsEnd'
  BY <1>4 DEF WebInv, WaitsEnd, PutEnds, gateVars
<1>15. QED
  BY <1>7, <1>8, <1>9, <1>10, <1>11, <1>12, <1>13, <1>14 DEF WebInv

LEMMA CopyClearedStep == ASSUME WebInv, CopyCleared PROVE WebInv'
<1>1. idbQueue \in Seq(IdbWrites) /\ idbQueue # <<>>
  BY DEF WebInv, WebTypes, CopyCleared
<1> DEFINE by == Head(idbQueue).by
           t == Tail(idbQueue)
           denied == by = "boot" /\ boot = "denied" /\ LastOf({"boot"})
           forgotten == by = "forget" /\ account.at = "forget"
           unmounted == Subscribed /\ (denied \/ forgotten)
           ends == by \in Expiries /\ expiring /\ LastOf(Expiries)
           outlived == expiring /\ ~(by \in Expiries /\ LastOf(Expiries))
<1>2. PICK written \in BOOLEAN :
         /\ idb' = IF written THEN Nobody ELSE idb
         /\ snapshot' = IF ends THEN emptyConsoleSnapshot ELSE snapshot
         /\ socket' = IF ends \/ unmounted THEN Nobody ELSE socket
         /\ expiring' = (outlived /\ ~unmounted) /\ cut' = (cut \/ (outlived /\ unmounted))
         /\ check' = IF by = "check" /\ check.at = "clearing" THEN [check EXCEPT !.at = "cleared"] ELSE check
         /\ gate' \in IF denied THEN {"anonymous"}
                     ELSE IF forgotten THEN {"anonymous", "unavailable"} ELSE {gate}
         /\ boot' = IF denied THEN "none" ELSE boot
         /\ account' = IF forgotten THEN Quiet
                       ELSE IF by \in {"login", "logout"} /\ account.at = by
                       THEN [at |-> "asking", op |-> by] ELSE account
         /\ load' = IF unmounted THEN Quiet ELSE load
         /\ pull' = IF unmounted THEN Quiet ELSE pull
         /\ saveTimer' = (saveTimer /\ ~unmounted)
         /\ idbQueue' = IF unmounted THEN Superseded(t) ELSE t
  BY DEF CopyCleared, Emptied
<1>3. UNCHANGED <<cookie, scopeVars, record, recordLoaded, cleared, restoring, worldVars>> /\ Head(idbQueue).put = Nobody
  BY DEF CopyCleared
<1>4. /\ t \in Seq(IdbWrites) /\ Len(t) < Len(idbQueue) /\ by \in Askers
      /\ NoLift(idbQueue) => NoLift(t)
      /\ LiftsLast(idbQueue) => LiftsLast(t)
      /\ EndedFirst(idbQueue) => EndedFirst(t)
      /\ HasEnded(idbQueue) <=> HasEnded(t)
      /\ OwnWrites(idbQueue) => OwnWrites(t)
      /\ \A K : HasClear(idbQueue, K) <=> HasClear(t, K) \/ by \in K
  <2>1. Head(idbQueue) \in IdbWrites /\ Head(idbQueue).put = Nobody
    BY <1>1, <1>3, TailIs
  <2>2. by \in Askers
    BY <2>1, WriteIs
  <2>3. QED
    BY <1>1, <2>1, <2>2, TailIs
<1>5. \A K : "save" \notin K => (LastOf(K) <=> ~HasClear(t, K))
  BY <1>1, TailIs DEF LastOf
<1>6. /\ idbQueue' \in Seq(IdbWrites) /\ Len(idbQueue') < Len(idbQueue)
      /\ NoLift(idbQueue) \/ unmounted => NoLift(idbQueue')
      /\ LiftsLast(idbQueue) => LiftsLast(idbQueue')
      /\ EndedFirst(idbQueue) => EndedFirst(idbQueue')
      /\ HasEnded(idbQueue') <=> HasEnded(idbQueue)
      /\ OwnWrites(idbQueue) => OwnWrites(idbQueue')
  <2>1. CASE unmounted
    <3>1. idbQueue' = Superseded(t)
      BY <1>2, <2>1
    <3>2. QED
      BY <1>4, <3>1, SupersededIs, RestsAreOrdered
  <2>2. CASE ~unmounted
    BY <1>2, <1>4, <2>2
  <2>3. QED
    BY <2>1, <2>2
<1>7. \A K : HasClear(idbQueue', K) <=> HasClear(t, K)
  <2>1. CASE unmounted
    <3>1. idbQueue' = Superseded(t)
      BY <1>2, <2>1
    <3>2. QED
      BY <1>4, <3>1, SupersededIs
  <2>2. CASE ~unmounted
    BY <1>2, <2>2
  <2>3. QED
    BY <2>1, <2>2
<1>8. denied => ~HasClear(t, {"boot"})
  BY <1>5
<1>9. by \in Expiries => (LastOf(Expiries) <=> ~HasClear(t, Expiries))
  BY <1>5 DEF Expiries
<1>10. /\ HasClear(t, Expiries) => HasClear(idbQueue, Expiries)
       /\ HasClear(t, Askers) => HasClear(idbQueue, Askers)
       /\ by \in Expiries => HasClear(idbQueue, Expiries)
       /\ HasClear(idbQueue, Askers)
  BY <1>4
<1>11. WaitsEnd'
  <2> HIDE DEF t
  <2> USE DEF WebInv, WaitsEnd
  <2>1. expiring' => HasClear(idbQueue', Expiries)
    BY <1>2, <1>4, <1>7, <1>9
  <2>2. check'.at = "clearing" => HasClear(idbQueue', {"check"})
    BY <1>2, <1>4, <1>7 DEF WebTypes, CheckTypes
  <2>3. boot' = "denied" => HasClear(idbQueue', {"boot"})
    BY <1>2, <1>4, <1>7, <1>5
  <2>4. boot' = "pending" => check' # Quiet
    BY <1>2 DEF WebTypes, CheckTypes, Quiet
  <2>5. boot' = "offline" => restoring' /\ check' = Quiet
    BY <1>2, <1>3 DEF WebTypes, CheckTypes, Quiet
  <2>6. gate' = "loading" => boot' # "none" \/ account'.at = "forget"
    BY <1>2
  <2>7. account'.at \in {"login", "logout", "forget"} => HasClear(idbQueue', {account'.at})
    BY <1>2, <1>4, <1>7 DEF WebTypes, AccountTypes, Quiet
  <2>8. QED
    BY <2>1, <2>2, <2>3, <2>4, <2>5, <2>6, <2>7
<1> HIDE DEF by, t
<1>12. WebTypes'
  <2>1. CheckTypes'
    BY <1>2 DEF WebInv, WebTypes, CheckTypes, Quiet
  <2>2. ReadTypes'
    BY <1>2 DEF WebInv, WebTypes, ReadTypes, Quiet
  <2>3. AccountTypes'
    BY <1>2 DEF WebInv, WebTypes, AccountTypes, Quiet
  <2>4. snapshot' \in Snapshots /\ socket' \in Sessions \cup {Nobody}
    BY <1>2, EmptyIs DEF WebInv, WebTypes
  <2>5. record' \in Copies \cup {Nobody} /\ idb' \in Copies \cup {Nobody}
    BY <1>2, <1>3 DEF WebInv, WebTypes
  <2>6. idbQueue' \in Seq(IdbWrites) /\ Len(idbQueue') <= MaxIdb
    BY <1>6, WebConsoleAssumption DEF WebInv, WebTypes
  <2>7. QED
    BY <1>2, <1>3, <2>1, <2>2, <2>3, <2>4, <2>6 DEF WebInv, WebTypes, worldVars
<1>13. Numbered'
  BY <1>2, <1>3 DEF WebInv, Numbered, Quiet, scopeVars, worldVars
<1>14. QueueOk'
  BY <1>2, <1>3, <1>6, <1>7, <1>9, <1>10 DEF WebInv, WebTypes, QueueOk, worldVars
<1>15. UnmountedRests'
  BY <1>2, <1>3, <1>4, <1>6 DEF WebInv, WebTypes, QueueOk, UnmountedRests, Askers, Subscribed, Quiet
<1>16. ReadsOrdered'
  BY <1>2, <1>3, EmptyIs DEF WebInv, WebTypes, ReadsOrdered, RestoredFits, Quiet, scopeVars
<1>17. OwnShown'
  BY <1>2, <1>3, EmptyIs DEF WebInv, WebTypes, OwnShown, Quiet, scopeVars
<1>18. OwnStored'
  BY <1>2, <1>3, <1>6 DEF WebInv, WebTypes, OwnStored
<1>19. QED
  BY <1>11, <1>12, <1>13, <1>14, <1>15, <1>16, <1>17, <1>18 DEF WebInv

LEMMA BootstrapStep == ASSUME WebInv, Bootstrap PROVE WebInv'
<1>1. WebTypes'
  BY DEF WebInv, WebTypes, CheckTypes, ReadTypes, AccountTypes, Numbered, Bootstrap, EstablishSession,
         StartCheck, Quiet, readVarsWeb, copyVars
<1>2. Numbered'
  BY DEF WebInv, Numbered, Sessions, Bootstrap, EstablishSession, StartCheck, scopeVars
<1>3. QueueOk'
  BY DEF WebInv, QueueOk, Bootstrap, copyVars
<1>4. UnmountedRests'
  BY DEF WebInv, WebTypes, UnmountedRests, Bootstrap, Subscribed, readVarsWeb, copyVars
<1>5. ReadsOrdered'
  BY DEF WebInv, UnmountedRests, ReadsOrdered, RestoredFits, Bootstrap, Quiet, readVarsWeb
<1>6. OwnShown'
  BY EmptyIs DEF WebInv, UnmountedRests, OwnShown, Bootstrap, Quiet, readVarsWeb
<1>7. OwnStored'
  BY DEF WebInv, OwnStored, Bootstrap, copyVars
<1>8. WaitsEnd'
  BY DEF WebInv, WaitsEnd, Bootstrap, EstablishSession, StartCheck, Quiet
<1>9. QED
  BY <1>1, <1>2, <1>3, <1>4, <1>5, <1>6, <1>7, <1>8 DEF WebInv

LEMMA RestoreOfflineStep == ASSUME WebInv, RestoreOffline PROVE WebInv'
<1>1. /\ snapshot' \in Snapshots
      /\ \/ snapshot' = snapshot /\ socket' = socket
         \/ /\ snapshot'.source = "cache" /\ socket' = Nobody
            /\ snapshot'.metrics # Nobody => snapshot'.metrics.device = snapshot'.device
  <2>1. record \in Copies \cup {Nobody} /\ snapshot \in Snapshots
    BY DEF WebInv, WebTypes
  <2>2. CASE Restorable /\ snapshot' = Restored(Head(record.views).device) /\ socket' = Nobody
    <3>1. record \in Copies
      BY <2>1, <2>2 DEF Restorable
    <3>2. Head(record.views).device \in TabDevices
      BY <3>1, CopyIs, ViewIs
    <3>3. QED
      BY <2>2, <3>1, <3>2, RestoredIs
  <2>3. CASE snapshot' = snapshot /\ socket' = socket
    BY <2>1, <2>3
  <2>4. QED
    BY <2>2, <2>3 DEF RestoreOffline
<1>2. WebTypes'
  <2>1. CheckTypes'
    BY DEF WebInv, WebTypes, CheckTypes, RestoreOffline
  <2>2. ReadTypes'
    BY DEF WebInv, WebTypes, ReadTypes, RestoreOffline, readVarsWeb
  <2>3. AccountTypes'
    BY DEF WebInv, WebTypes, AccountTypes, RestoreOffline
  <2>4. snapshot' \in Snapshots /\ socket' \in Sessions \cup {Nobody}
    BY <1>1 DEF WebInv, WebTypes, RestoreOffline
  <2>5. record' \in Copies \cup {Nobody} /\ idb' \in Copies \cup {Nobody}
    BY DEF WebInv, WebTypes, RestoreOffline, copyVars
  <2>6. idbQueue' \in Seq(IdbWrites) /\ Len(idbQueue') <= MaxIdb
    BY DEF WebInv, WebTypes, RestoreOffline
  <2>7. QED
    BY <1>1, WebConsoleAssumption, <2>1, <2>2, <2>3, <2>4, <2>5, <2>6
       DEF WebInv, WebTypes, RestoreOffline, Wanted, Restorable, readVarsWeb, copyVars, worldVars,
           Subscribed
<1>3. Numbered'
  BY DEF WebInv, Numbered, RestoreOffline, worldVars
<1>4. QueueOk'
  BY DEF WebInv, QueueOk, RestoreOffline, copyVars, worldVars
<1>5. UnmountedRests'
  BY DEF WebInv, UnmountedRests, RestoreOffline, readVarsWeb, copyVars, worldVars, Subscribed
<1>6. ReadsOrdered'
  BY <1>1 DEF WebInv, UnmountedRests, ReadsOrdered, RestoredFits, RestoreOffline, readVarsWeb, Quiet
<1>7. OwnShown'
  BY <1>1 DEF WebInv, OwnShown, RestoreOffline, readVarsWeb
<1>8. OwnStored'
  BY DEF WebInv, OwnStored, RestoreOffline, copyVars
<1>9. WaitsEnd'
  BY DEF WebInv, WaitsEnd, RestoreOffline, Subscribed
<1>10. QED
  BY <1>2, <1>3, <1>4, <1>5, <1>6, <1>7, <1>8, <1>9 DEF WebInv

LEMMA CheckWaitsStep == ASSUME WebInv, CheckWaits PROVE WebInv'
<1>1. WebTypes'
  BY DEF WebInv, WebTypes, CheckTypes, ReadTypes, AccountTypes, CheckWaits, Accepted, readVarsWeb, copyVars,
         gateVars, worldVars, Quiet
<1>2. Numbered'
  BY DEF WebInv, Numbered, CheckWaits, Accepted, scopeVars, worldVars, Quiet
<1>3. QueueOk'
  BY DEF WebInv, QueueOk, CheckWaits, copyVars, worldVars
<1>4. UnmountedRests'
  BY DEF WebInv, UnmountedRests, CheckWaits, readVarsWeb, copyVars, gateVars, worldVars, Subscribed
<1>5. ReadsOrdered'
  BY DEF WebInv, ReadsOrdered, RestoredFits, CheckWaits, scopeVars, readVarsWeb
<1>6. OwnShown'
  BY DEF WebInv, OwnShown, CheckWaits, Accepted, scopeVars, readVarsWeb, Quiet
<1>7. OwnStored'
  BY DEF WebInv, OwnStored, CheckWaits, copyVars
<1>8. WaitsEnd'
  BY DEF WebInv, WaitsEnd, CheckWaits, Accepted, gateVars, Quiet
<1>9. QED
  BY <1>1, <1>2, <1>3, <1>4, <1>5, <1>6, <1>7, <1>8 DEF WebInv

LEMMA CopyOfAnotherStep == ASSUME WebInv, CopyOfAnother PROVE WebInv'
<1>1. ClearedFor("check") /\ Len(idbQueue) < MaxIdb
  BY ClearedQueue DEF CopyOfAnother, Askers
<1>2. WebTypes'
  BY <1>1, WebConsoleAssumption
     DEF WebInv, WebTypes, CheckTypes, ReadTypes, AccountTypes, CopyOfAnother, Accepted, readVarsWeb,
         gateVars, worldVars, ClearedFor, Quiet
<1>3. Numbered'
  BY DEF WebInv, Numbered, CopyOfAnother, Accepted, scopeVars, worldVars, Quiet
<1>4. QueueOk'
  BY <1>1 DEF WebInv, QueueOk, Expiries, CopyOfAnother, ClearedFor
<1>5. UnmountedRests'
  BY <1>1 DEF WebInv, UnmountedRests, CopyOfAnother, readVarsWeb, gateVars, ClearedFor, Subscribed
<1>6. ReadsOrdered'
  BY DEF WebInv, ReadsOrdered, RestoredFits, CopyOfAnother, scopeVars, readVarsWeb
<1>7. OwnShown'
  BY DEF WebInv, OwnShown, CopyOfAnother, Accepted, scopeVars, readVarsWeb, Quiet
<1>8. OwnStored'
  BY <1>1 DEF WebInv, OwnStored, CopyOfAnother, ClearedFor
<1>9. WaitsEnd'
  BY <1>1 DEF WebInv, WaitsEnd, CopyOfAnother, Accepted, gateVars, ClearedFor, Quiet
<1>10. QED
  BY <1>2, <1>3, <1>4, <1>5, <1>6, <1>7, <1>8, <1>9 DEF WebInv

LEMMA CheckEndsStep == ASSUME WebInv, CheckEnds PROVE WebInv'
<1>1. idbQueue' = idbQueue \/ Cancelled
  BY CancelledQueue DEF CheckEnds, CancelSnapshot
<1>2. WebTypes'
  <2>1. CheckTypes'
    BY DEF WebInv, CheckTypes, CheckEnds, Quiet
  <2>2. ReadTypes'
    BY SnapshotIs DEF WebInv, WebTypes, ReadTypes, Numbered, CheckEnds, CancelSnapshot, Quiet
  <2>3. AccountTypes'
    BY DEF WebInv, WebTypes, AccountTypes, CheckEnds, Quiet
  <2>4. snapshot' \in Snapshots /\ socket' \in Sessions \cup {Nobody}
    BY EmptyIs DEF WebInv, WebTypes, CheckEnds
  <2>5. record' \in Copies \cup {Nobody} /\ idb' \in Copies \cup {Nobody}
    BY DEF WebInv, WebTypes, CheckEnds, copyVars
  <2>6. idbQueue' \in Seq(IdbWrites) /\ Len(idbQueue') <= MaxIdb
    BY <1>1 DEF WebInv, WebTypes, CheckEnds, Cancelled
  <2>7. QED
    BY <2>1, <2>2, <2>3, <2>4, <2>6 DEF WebInv, WebTypes, CheckEnds, CancelSnapshot, copyVars, worldVars
<1>3. Numbered'
  BY DEF WebInv, WebTypes, CheckTypes, Numbered, CheckEnds, Accepted, worldVars
<1>4. QueueOk'
  BY <1>1 DEF WebInv, WebTypes, QueueOk, CheckEnds, CancelSnapshot, copyVars, worldVars, Cancelled
<1>5. UnmountedRests'
  BY DEF WebInv, WebTypes, UnmountedRests, CheckEnds, Subscribed, CancelSnapshot, Quiet, copyVars, worldVars
<1>6. ReadsOrdered'
  BY EmptyIs, WebConsoleAssumption
     DEF WebInv, WebTypes, CheckTypes, ReadsOrdered, RestoredFits, Sessions, CheckEnds, CancelSnapshot,
         Accepted
<1>7. OwnShown'
  BY EmptyIs
     DEF WebInv, WebTypes, Numbered, OwnShown, CheckEnds, CancelSnapshot, Quiet, Accepted, IdentityStays
<1>8. OwnStored'
  BY <1>1 DEF WebInv, WebTypes, OwnStored, CheckEnds, CancelSnapshot, copyVars, Cancelled
<1>9. WaitsEnd'
  BY <1>1 DEF WebInv, WaitsEnd, CheckEnds, CancelSnapshot, Quiet, Accepted, Cancelled
<1>10. QED
  BY <1>2, <1>3, <1>4, <1>5, <1>6, <1>7, <1>8, <1>9 DEF WebInv

LEMMA CheckDeniedStep == ASSUME WebInv, CheckDenied PROVE WebInv'
<1>1. PICK by \in Expiries : ExpiredBy(by) /\ by = IF boot = "pending" THEN "boot" ELSE "denial"
  BY ExpiredNow DEF CheckDenied, Denied, Expiries
<1>2. WebTypes'
  <2>1. CheckTypes'
    BY <1>1 DEF WebInv, CheckTypes, CheckDenied, Quiet, ExpiredBy
  <2>2. ReadTypes'
    BY <1>1 DEF WebInv, ReadTypes, CheckDenied, Quiet, ExpiredBy
  <2>3. AccountTypes'
    BY DEF WebInv, WebTypes, AccountTypes, CheckDenied, Denied, Quiet
  <2>4. snapshot' \in Snapshots /\ socket' \in Sessions \cup {Nobody}
    BY DEF WebInv, WebTypes, CheckDenied, Denied
  <2>5. record' \in Copies \cup {Nobody} /\ idb' \in Copies \cup {Nobody}
    BY <1>1 DEF WebInv, CheckDenied, ExpiredBy, ClearedFor
  <2>6. idbQueue' \in Seq(IdbWrites) /\ Len(idbQueue') <= MaxIdb
    BY <1>1, WebConsoleAssumption DEF WebInv, CheckDenied, ExpiredBy, ClearedFor
  <2>7. QED
    BY <1>1, WebConsoleAssumption, <2>1, <2>2, <2>3, <2>4, <2>5, <2>6
       DEF WebInv, WebTypes, CheckDenied, Denied, worldVars, ExpiredBy, ClearedFor, Subscribed
<1>3. Numbered'
  BY <1>1 DEF WebInv, Numbered, CheckDenied, Denied, worldVars, ExpiredBy
<1>4. QueueOk'
  BY <1>1 DEF WebInv, QueueOk, CheckDenied, ExpiredBy, ClearedFor
<1>5. UnmountedRests'
  BY <1>1 DEF WebInv, UnmountedRests, CheckDenied, Denied, ExpiredBy, ClearedFor, Subscribed
<1>6. ReadsOrdered'
  BY <1>1 DEF WebInv, ReadsOrdered, RestoredFits, CheckDenied, Denied, Quiet, ExpiredBy
<1>7. OwnShown'
  BY <1>1 DEF WebInv, OwnShown, CheckDenied, ExpiredBy
<1>8. OwnStored'
  BY <1>1 DEF WebInv, OwnStored, CheckDenied, ExpiredBy, ClearedFor
<1>9. WaitsEnd'
  BY <1>1 DEF WebInv, WaitsEnd, CheckDenied, Denied, Quiet, ExpiredBy, ClearedFor
<1>10. QED
  BY <1>2, <1>3, <1>4, <1>5, <1>6, <1>7, <1>8, <1>9 DEF WebInv

LEMMA CheckFailsStep == ASSUME WebInv, CheckFails PROVE WebInv'
<1>1. /\ snapshot' \in Snapshots
      /\ \/ snapshot' = snapshot /\ socket' = socket
         \/ /\ snapshot'.source = "cache" /\ load.at = "session" /\ socket' = Nobody
            /\ snapshot'.metrics # Nobody => snapshot'.metrics.device = snapshot'.device
  BY RestoredIs DEF WebInv, WebTypes, ReadTypes, CheckFails, FallBackToCopy, Restorable, Quiet
<1>2. WebTypes'
  BY <1>1
     DEF WebInv, WebTypes, CheckTypes, ReadTypes, AccountTypes, CheckFails, FallBackToCopy, Quiet,
         BootUnavailable, copyVars, worldVars
<1>3. Numbered'
  BY DEF WebInv, Numbered, CheckFails, FallBackToCopy, worldVars
<1>4. QueueOk'
  BY DEF WebInv, QueueOk, CheckFails, copyVars, worldVars
<1>5. UnmountedRests'
  BY DEF WebInv, UnmountedRests, CheckFails, Quiet, copyVars, worldVars, Subscribed
<1>6. ReadsOrdered'
  BY <1>1 DEF WebInv, ReadsOrdered, RestoredFits, CheckFails, FallBackToCopy, Quiet
<1>7. OwnShown'
  BY <1>1 DEF WebInv, OwnShown, CheckFails, FallBackToCopy, Quiet
<1>8. OwnStored'
  BY DEF WebInv, OwnStored, CheckFails, copyVars
<1>9. WaitsEnd'
  BY DEF WebInv, WaitsEnd, CheckFails, Quiet, BootUnavailable, Subscribed
<1>10. QED
  BY <1>2, <1>3, <1>4, <1>5, <1>6, <1>7, <1>8, <1>9 DEF WebInv

LEMMA LoadSnapshotStep == ASSUME WebInv, LoadSnapshot PROVE WebInv'
<1>1. Cancelled
  BY CancelledQueue DEF LoadSnapshot, CancelSnapshot
<1>2. WebTypes'
  <2>1. CheckTypes'
    BY DEF WebInv, WebTypes, CheckTypes, Numbered, LoadSnapshot, Quiet, EstablishSession, StartCheck
  <2>2. ReadTypes'
    BY DEF WebInv, ReadTypes, Numbered, TabDevices, LoadSnapshot, CancelSnapshot, Quiet
  <2>3. AccountTypes'
    BY DEF WebInv, WebTypes, AccountTypes, LoadSnapshot
  <2>4. snapshot' \in Snapshots /\ socket' \in Sessions \cup {Nobody}
    BY DEF WebInv, WebTypes, LoadSnapshot
  <2>5. record' \in Copies \cup {Nobody} /\ idb' \in Copies \cup {Nobody}
    BY DEF WebInv, WebTypes, LoadSnapshot, copyVars
  <2>6. idbQueue' \in Seq(IdbWrites) /\ Len(idbQueue') <= MaxIdb
    BY <1>1 DEF WebInv, WebTypes, LoadSnapshot, Cancelled
  <2>7. QED
    BY <1>1, WebConsoleAssumption, <2>1, <2>2, <2>3, <2>4, <2>5, <2>6
       DEF WebInv, WebTypes, LoadSnapshot, Subscribed, CancelSnapshot, EstablishSession, StartCheck,
           scopeVars, copyVars, Cancelled
<1>3. Numbered'
  BY DEF WebInv, Numbered, Sessions, LoadSnapshot, EstablishSession, StartCheck, scopeVars
<1>4. QueueOk'
  BY <1>1 DEF WebInv, WebTypes, QueueOk, LoadSnapshot, CancelSnapshot, copyVars, Cancelled
<1>5. UnmountedRests'
  BY DEF WebInv, UnmountedRests, LoadSnapshot, Subscribed, CancelSnapshot
<1>6. ReadsOrdered'
  BY DEF WebInv, ReadsOrdered, RestoredFits, LoadSnapshot, CancelSnapshot, scopeVars
<1>7. OwnShown'
  BY DEF WebInv, WebTypes, Numbered, OwnShown, LoadSnapshot, CancelSnapshot, Quiet, scopeVars
<1>8. OwnStored'
  BY <1>1 DEF WebInv, WebTypes, OwnStored, LoadSnapshot, CancelSnapshot, copyVars, Cancelled
<1>9. WaitsEnd'
  BY <1>1
     DEF WebInv, UnmountedRests, WaitsEnd, LoadSnapshot, Subscribed, CancelSnapshot, EstablishSession,
         StartCheck, Cancelled
<1>10. QED
  BY <1>2, <1>3, <1>4, <1>5, <1>6, <1>7, <1>8, <1>9 DEF WebInv

LEMMA ShowCopyStep == ASSUME WebInv, ShowCopy PROVE WebInv'
<1>1. Cancelled
  BY CancelledQueue DEF ShowCopy, CancelSnapshot
<1>2. /\ snapshot' \in Snapshots /\ snapshot'.source = "cache"
      /\ snapshot'.metrics # Nobody => snapshot'.metrics.device = snapshot'.device
  BY RestoredIs DEF WebInv, WebTypes, ShowCopy, Restorable, TabDevices
<1>3. WebTypes'
  BY <1>1, <1>2, WebConsoleAssumption
     DEF WebInv, WebTypes, CheckTypes, ReadTypes, AccountTypes, Numbered, QueueOk, UnmountedRests,
         ReadsOrdered, RestoredFits, OwnShown, OwnStored, WaitsEnd, Sessions, TabDevices, Expiries, Askers,
         ShowCopy, Subscribed, CancelSnapshot, Quiet, Restorable, scopeVars, copyVars, Cancelled
<1>4. Numbered'
  BY DEF WebInv, Numbered, ShowCopy, scopeVars
<1>5. QueueOk'
  BY <1>1 DEF WebInv, WebTypes, QueueOk, ShowCopy, CancelSnapshot, copyVars, Cancelled
<1>6. UnmountedRests'
  BY DEF WebInv, UnmountedRests, ShowCopy, Subscribed, CancelSnapshot
<1>7. ReadsOrdered'
  BY <1>2 DEF WebInv, ReadsOrdered, RestoredFits, ShowCopy, CancelSnapshot, Quiet
<1>8. OwnShown'
  BY <1>2 DEF WebInv, WebTypes, OwnShown, ShowCopy, CancelSnapshot, Quiet, scopeVars
<1>9. OwnStored'
  BY <1>1 DEF WebInv, WebTypes, OwnStored, ShowCopy, CancelSnapshot, copyVars, Cancelled
<1>10. WaitsEnd'
  BY <1>1 DEF WebInv, UnmountedRests, WaitsEnd, ShowCopy, CancelSnapshot, Cancelled
<1>11. QED
  BY <1>3, <1>4, <1>5, <1>6, <1>7, <1>8, <1>9, <1>10 DEF WebInv

LEMMA ListPublishedStep == ASSUME WebInv, ListPublished PROVE WebInv'
<1>1. snapshot \in Snapshots /\ load.cookie \in Nat /\ load.device \in TabDevices /\ load.cookie # Nobody
  BY WebConsoleAssumption DEF WebInv, WebTypes, ReadTypes, ListPublished, Sessions, Quiet
<1>2. /\ snapshot' \in Snapshots /\ snapshot'.source = "live"
      /\ \A n \in Sources(snapshot') : n = load.cookie \/ (snapshot.source = "live" /\ n \in Sources(snapshot))
  <2> DEFINE v == IF snapshot.source = "live" THEN snapshot.metrics ELSE Nobody
  <2>1. v \in Metrics \cup {Nobody} /\ (v # Nobody => snapshot.source = "live" /\ v.session \in Sources(snapshot))
    BY <1>1, SnapshotIs DEF Sources
  <2>2. snapshot' = [source |-> "live", device |-> load.device, rows |-> {load.cookie}, metrics |-> v]
    BY DEF ListPublished
  <2> HIDE DEF v
  <2>3. QED
    BY <1>1, <2>1, <2>2, ListedIs
<1>3. /\ load.at = "list" /\ load.cookie # Nobody /\ saveTimer' = TRUE
      /\ socket' = IF socket = Nobody THEN cookie ELSE socket
      /\ load' \in {Quiet, [at |-> "charts", device |-> load.device, cookie |-> load.cookie]}
      /\ UNCHANGED <<cookie, scopeVars, check, pull, expiring, copyVars, idbQueue, gateVars, account, cut, worldVars>>
  BY DEF ListPublished
<1>4. WebTypes'
  BY <1>2, <1>3
     DEF WebInv, WebTypes, CheckTypes, ReadTypes, AccountTypes, Numbered, Quiet, copyVars, gateVars,
         worldVars
<1>5. Numbered'
  BY <1>3 DEF WebInv, Numbered, scopeVars, worldVars
<1>6. QueueOk'
  BY <1>3 DEF WebInv, QueueOk, copyVars, worldVars
<1>7. UnmountedRests'
  BY <1>3 DEF WebInv, UnmountedRests, Quiet, gateVars, Subscribed
<1>8. ReadsOrdered'
  BY <1>2, <1>3 DEF WebInv, ReadsOrdered, RestoredFits, Quiet, scopeVars
<1>9. OwnShown'
  BY <1>2, <1>3 DEF WebInv, Numbered, ReadsOrdered, OwnShown, Quiet, scopeVars
<1>10. OwnStored'
  BY <1>3 DEF WebInv, OwnStored, copyVars
<1>11. WaitsEnd'
  BY <1>3 DEF WebInv, WaitsEnd, gateVars
<1>12. QED
  BY <1>4, <1>5, <1>6, <1>7, <1>8, <1>9, <1>10, <1>11 DEF WebInv

LEMMA ChartPublishedStep == ASSUME WebInv, ChartPublished PROVE WebInv'
<1>1. snapshot \in Snapshots /\ load.cookie \in Nat /\ load.device \in TabDevices
  BY DEF WebInv, WebTypes, ReadTypes, ChartPublished, Sessions, Quiet
<1>2. PICK value \in {[session |-> load.cookie, device |-> load.device], Nobody} : snapshot' = [snapshot EXCEPT !.metrics = value]
  BY DEF ChartPublished
<1>3. /\ value \in Metrics \cup {Nobody} /\ (value # Nobody => value.device = load.device /\ value.session = load.cookie)
  BY <1>1, <1>2 DEF Metrics, TabDevices
<1>4. /\ snapshot' \in Snapshots /\ snapshot'.source = snapshot.source /\ snapshot'.device = snapshot.device
      /\ snapshot'.metrics # Nobody => snapshot'.metrics.device = load.device
      /\ \A n \in Sources(snapshot') : n \in Sources(snapshot) \/ n = load.cookie
  BY <1>1, <1>2, <1>3, ChartedIs
<1>5. WebTypes'
  BY <1>4
     DEF WebInv, WebTypes, CheckTypes, ReadTypes, AccountTypes, ChartPublished, Quiet, copyVars, gateVars,
         worldVars
<1>6. Numbered'
  BY DEF WebInv, Numbered, ChartPublished, scopeVars, worldVars
<1>7. QueueOk'
  BY DEF WebInv, QueueOk, ChartPublished, copyVars, worldVars
<1>8. UnmountedRests'
  BY DEF WebInv, UnmountedRests, ChartPublished, Quiet, gateVars, Subscribed
<1>9. ReadsOrdered'
  BY DEF WebInv, ReadsOrdered, RestoredFits, ChartPublished, Quiet, scopeVars
<1>10. OwnShown'
  BY <1>1, <1>2, <1>3, <1>4, WebConsoleAssumption
     DEF WebInv, Numbered, ReadsOrdered, OwnShown, ChartPublished, Quiet, scopeVars, gateVars
<1>11. OwnStored'
  BY DEF WebInv, OwnStored, ChartPublished, copyVars
<1>12. WaitsEnd'
  BY DEF WebInv, WaitsEnd, ChartPublished, gateVars
<1>13. QED
  BY <1>5, <1>6, <1>7, <1>8, <1>9, <1>10, <1>11, <1>12 DEF WebInv

LEMMA ListFailsWebStep == ASSUME WebInv, ListFailsWeb PROVE WebInv'
<1>1. /\ snapshot' \in Snapshots
      /\ \/ snapshot' = snapshot /\ socket' = socket
         \/ /\ snapshot'.source = "cache" /\ socket' = Nobody
            /\ snapshot'.metrics # Nobody => snapshot'.metrics.device = snapshot'.device
  BY RestoredIs DEF WebInv, WebTypes, ReadTypes, ListFailsWeb, FallBackToCopy, Restorable, Quiet
<1>2. WebTypes'
  BY <1>1
     DEF WebInv, WebTypes, CheckTypes, ReadTypes, AccountTypes, ListFailsWeb, FallBackToCopy, Quiet,
         copyVars, gateVars, worldVars
<1>3. Numbered'
  BY DEF WebInv, Numbered, ListFailsWeb, FallBackToCopy, worldVars
<1>4. QueueOk'
  BY DEF WebInv, QueueOk, ListFailsWeb, copyVars, worldVars
<1>5. UnmountedRests'
  BY DEF WebInv, UnmountedRests, ListFailsWeb, Quiet, gateVars, Subscribed
<1>6. ReadsOrdered'
  BY <1>1 DEF WebInv, ReadsOrdered, RestoredFits, ListFailsWeb, FallBackToCopy, Quiet
<1>7. OwnShown'
  BY <1>1 DEF WebInv, OwnShown, ListFailsWeb, FallBackToCopy, Quiet
<1>8. OwnStored'
  BY DEF WebInv, OwnStored, ListFailsWeb, copyVars
<1>9. WaitsEnd'
  BY DEF WebInv, WaitsEnd, ListFailsWeb, gateVars
<1>10. QED
  BY <1>2, <1>3, <1>4, <1>5, <1>6, <1>7, <1>8, <1>9 DEF WebInv

LEMMA ReadDeniedStep == ASSUME WebInv, ReadDenied PROVE WebInv'
<1>1. ExpiredBy("denial")
  BY ExpiredNow DEF ReadDenied, Denied, Expiries
<1>2. WebTypes'
  <2>1. CheckTypes'
    BY <1>1 DEF WebInv, CheckTypes, ReadDenied, Quiet, ExpiredBy
  <2>2. ReadTypes'
    BY <1>1 DEF WebInv, ReadTypes, ReadDenied, Quiet, ExpiredBy
  <2>3. AccountTypes'
    BY DEF WebInv, WebTypes, AccountTypes, ReadDenied, Denied, Quiet
  <2>4. snapshot' \in Snapshots /\ socket' \in Sessions \cup {Nobody}
    BY DEF WebInv, WebTypes, ReadDenied, Denied
  <2>5. record' \in Copies \cup {Nobody} /\ idb' \in Copies \cup {Nobody}
    BY <1>1 DEF WebInv, ReadDenied, ExpiredBy, ClearedFor
  <2>6. idbQueue' \in Seq(IdbWrites) /\ Len(idbQueue') <= MaxIdb
    BY <1>1, WebConsoleAssumption DEF WebInv, ReadDenied, ExpiredBy, ClearedFor
  <2>7. QED
    BY <1>1, WebConsoleAssumption, <2>1, <2>2, <2>3, <2>4, <2>5, <2>6
       DEF WebInv, WebTypes, ReadDenied, Subscribed, Denied, worldVars, ExpiredBy, ClearedFor
<1>3. Numbered'
  BY <1>1 DEF WebInv, Numbered, ReadDenied, Denied, worldVars, ExpiredBy
<1>4. QueueOk'
  BY <1>1 DEF WebInv, QueueOk, ReadDenied, ExpiredBy, ClearedFor
<1>5. UnmountedRests'
  BY <1>1 DEF WebInv, UnmountedRests, ReadDenied, Subscribed, Denied, ExpiredBy, ClearedFor
<1>6. ReadsOrdered'
  BY <1>1 DEF WebInv, ReadsOrdered, RestoredFits, ReadDenied, Denied, Quiet, ExpiredBy
<1>7. OwnShown'
  BY <1>1 DEF WebInv, OwnShown, ReadDenied, ExpiredBy
<1>8. OwnStored'
  BY <1>1 DEF WebInv, OwnStored, ReadDenied, ExpiredBy, ClearedFor
<1>9. WaitsEnd'
  BY <1>1
     DEF WebInv, UnmountedRests, WaitsEnd, Expiries, ReadDenied, Subscribed, Denied, Quiet, ExpiredBy,
         ClearedFor
<1>10. QED
  BY <1>2, <1>3, <1>4, <1>5, <1>6, <1>7, <1>8, <1>9 DEF WebInv

LEMMA PushStep == ASSUME WebInv, Push PROVE WebInv'
<1>1. socket \in Nat /\ snapshot \in Snapshots
  BY WebConsoleAssumption DEF WebInv, WebTypes, Push, Sessions
<1>2. /\ snapshot' \in Snapshots /\ snapshot'.source = snapshot.source /\ snapshot'.device = snapshot.device
      /\ snapshot'.metrics = snapshot.metrics /\ Sources(snapshot') = Sources(snapshot) \cup {socket}
  BY <1>1, PushedIs DEF Push
<1>3. snapshot.device \in TabDevices
  BY <1>1, SnapshotIs
<1>4. /\ socket # Nobody /\ snapshot.source = "live" /\ sessionScope # Nobody
      /\ pull' \in {pull, IF pull = Quiet THEN [at |-> "timer", device |-> snapshot.device] ELSE pull}
      /\ UNCHANGED <<cookie, scopeVars, socket, check, load, saveTimer, expiring, copyVars, idbQueue,
                     gateVars, account, cut, worldVars>>
  BY DEF Push
<1>5. WebTypes'
  BY <1>2, <1>3, <1>4
     DEF WebInv, WebTypes, CheckTypes, ReadTypes, AccountTypes, copyVars, gateVars, worldVars
<1>6. Numbered'
  BY <1>4 DEF WebInv, Numbered, scopeVars, worldVars
<1>7. QueueOk'
  BY <1>4 DEF WebInv, QueueOk, copyVars, worldVars
<1>8. UnmountedRests'
  BY <1>4 DEF WebInv, UnmountedRests, gateVars, Subscribed
<1>9. ReadsOrdered'
  BY <1>2, <1>4 DEF WebInv, ReadsOrdered, RestoredFits, scopeVars
<1>10. OwnShown'
  BY <1>2, <1>4 DEF WebInv, OwnShown, scopeVars
<1>11. OwnStored'
  BY <1>4 DEF WebInv, OwnStored, copyVars
<1>12. WaitsEnd'
  BY <1>4 DEF WebInv, WaitsEnd, gateVars
<1>13. QED
  BY <1>5, <1>6, <1>7, <1>8, <1>9, <1>10, <1>11, <1>12 DEF WebInv

LEMMA PullStartsStep == ASSUME WebInv, PullStarts PROVE WebInv'
<1>1. WebTypes'
  BY DEF WebInv, WebTypes, CheckTypes, ReadTypes, AccountTypes, Numbered, PullStarts, Quiet, copyVars,
         gateVars, worldVars
<1>2. Numbered'
  BY DEF WebInv, Numbered, PullStarts, scopeVars, worldVars
<1>3. QueueOk'
  BY DEF WebInv, QueueOk, PullStarts, copyVars, worldVars
<1>4. UnmountedRests'
  BY DEF WebInv, UnmountedRests, PullStarts, Quiet, gateVars, Subscribed
<1>5. ReadsOrdered'
  BY DEF WebInv, ReadsOrdered, RestoredFits, PullStarts, scopeVars
<1>6. OwnShown'
  BY DEF WebInv, Numbered, OwnShown, PullStarts, Quiet, scopeVars
<1>7. OwnStored'
  BY DEF WebInv, OwnStored, PullStarts, copyVars
<1>8. WaitsEnd'
  BY DEF WebInv, WaitsEnd, PullStarts, gateVars
<1>9. QED
  BY <1>1, <1>2, <1>3, <1>4, <1>5, <1>6, <1>7, <1>8 DEF WebInv

LEMMA PullPublishedStep == ASSUME WebInv, PullPublished PROVE WebInv'
<1>1. snapshot \in Snapshots /\ pull.device \in TabDevices
  BY DEF WebInv, WebTypes, ReadTypes, PullPublished, Quiet
<1>2. \/ snapshot' = snapshot
      \/ /\ pull.cookie # Nobody /\ sessionScope # Nobody /\ snapshot.device = pull.device
         /\ snapshot' \in Snapshots /\ snapshot'.source = snapshot.source /\ snapshot'.device = snapshot.device
         /\ snapshot'.metrics.device = pull.device
         /\ \A n \in Sources(snapshot') : n \in Sources(snapshot) \/ n = pull.cookie
  <2> SUFFICES ASSUME pull.cookie # Nobody, sessionScope # Nobody, snapshot.device = pull.device,
                      snapshot' = [snapshot EXCEPT !.metrics = [session |-> pull.cookie, device |-> pull.device]]
               PROVE  /\ snapshot' \in Snapshots /\ snapshot'.source = snapshot.source /\ snapshot'.device = snapshot.device
                      /\ snapshot'.metrics.device = pull.device
                      /\ \A n \in Sources(snapshot') : n \in Sources(snapshot) \/ n = pull.cookie
    BY DEF PullPublished
  <2> DEFINE v == [session |-> pull.cookie, device |-> pull.device]
  <2>1. v \in Metrics /\ v.session = pull.cookie /\ v.device = pull.device
    BY <1>1 DEF WebInv, WebTypes, ReadTypes, PullPublished, Metrics, TabDevices, Sessions
  <2>2. v # Nobody /\ snapshot' = [snapshot EXCEPT !.metrics = v]
    BY <2>1, WebConsoleAssumption
  <2> HIDE DEF v
  <2>3. QED
    BY <1>1, <2>1, <2>2, ChartedIs
<1>3. WebTypes'
  BY <1>2
     DEF WebInv, WebTypes, CheckTypes, ReadTypes, AccountTypes, PullPublished, Quiet, copyVars, gateVars,
         worldVars
<1>4. Numbered'
  BY DEF WebInv, Numbered, PullPublished, scopeVars, worldVars
<1>5. QueueOk'
  BY DEF WebInv, QueueOk, PullPublished, copyVars, worldVars
<1>6. UnmountedRests'
  BY DEF WebInv, UnmountedRests, PullPublished, Quiet, gateVars, Subscribed
<1>7. ReadsOrdered'
  BY <1>2 DEF WebInv, ReadsOrdered, RestoredFits, PullPublished, scopeVars
<1>8. OwnShown'
  BY <1>2 DEF WebInv, Numbered, OwnShown, PullPublished, Quiet, scopeVars
<1>9. OwnStored'
  BY DEF WebInv, OwnStored, PullPublished, copyVars
<1>10. WaitsEnd'
  BY DEF WebInv, WaitsEnd, PullPublished, gateVars
<1>11. QED
  BY <1>3, <1>4, <1>5, <1>6, <1>7, <1>8, <1>9, <1>10 DEF WebInv

LEMMA ForgetStep == ASSUME WebInv, Forget PROVE WebInv'
<1>1. PICK by \in {"login", "logout", "forget"} :
         /\ by = "login" => gate = "anonymous" /\ lastSession < MaxSessions
         /\ by = "logout" => Subscribed
         /\ account' = [at |-> by, op |-> by]
         /\ socket' = IF by = "logout" THEN Nobody ELSE socket
         /\ MarkSessionExpired(by)
  BY DEF Forget
<1>2. ExpiredBy(by)
  BY <1>1, ExpiredNow DEF Expiries
<1>3. WebTypes'
  <2>1. CheckTypes'
    BY <1>2 DEF WebInv, CheckTypes, Forget, Quiet, ExpiredBy
  <2>2. ReadTypes'
    BY <1>2 DEF WebInv, ReadTypes, Forget, Quiet, ExpiredBy
  <2>3. AccountTypes'
    BY DEF WebInv, AccountTypes, Forget, Quiet
  <2>4. snapshot' \in Snapshots /\ socket' \in Sessions \cup {Nobody}
    BY DEF WebInv, WebTypes, Forget
  <2>5. record' \in Copies \cup {Nobody} /\ idb' \in Copies \cup {Nobody}
    BY <1>2 DEF WebInv, Forget, ExpiredBy, ClearedFor
  <2>6. idbQueue' \in Seq(IdbWrites) /\ Len(idbQueue') <= MaxIdb
    BY <1>2, WebConsoleAssumption DEF WebInv, Forget, ExpiredBy, ClearedFor
  <2>7. QED
    BY <1>1, <1>2, WebConsoleAssumption, <2>1, <2>2, <2>3, <2>4, <2>5, <2>6
       DEF WebInv, WebTypes, Forget, Subscribed, ExpiredBy, ClearedFor
<1>4. Numbered'
  BY <1>2 DEF WebInv, Numbered, Forget, ExpiredBy
<1>5. QueueOk'
  BY <1>2 DEF WebInv, QueueOk, Forget, ExpiredBy, ClearedFor
<1>6. UnmountedRests'
  BY <1>2 DEF WebInv, UnmountedRests, Forget, Subscribed, ExpiredBy, ClearedFor
<1>7. ReadsOrdered'
  BY <1>2 DEF WebInv, ReadsOrdered, RestoredFits, Forget, Quiet, ExpiredBy
<1>8. OwnShown'
  BY <1>2 DEF WebInv, OwnShown, Forget, ExpiredBy
<1>9. OwnStored'
  BY <1>2 DEF WebInv, OwnStored, Forget, ExpiredBy, ClearedFor
<1>10. WaitsEnd'
  BY <1>1, <1>2 DEF WebInv, WaitsEnd, Expiries, Forget, Subscribed, Quiet, ExpiredBy, ClearedFor
<1>11. QED
  BY <1>3, <1>4, <1>5, <1>6, <1>7, <1>8, <1>9, <1>10 DEF WebInv

LEMMA AccountAnsweredStep == ASSUME WebInv, AccountAnswered PROVE WebInv'
<1>1. cut' \in BOOLEAN
  <2> DEFINE c == cut \/ check # Quiet \/ Subscribed \/ expiring
  <2>1. c \in BOOLEAN
    OBVIOUS
  <2>2. cut' = c \/ cut' = cut
    BY DEF AccountAnswered
  <2> HIDE DEF c
  <2>3. QED
    BY <2>1, <2>2 DEF WebInv, WebTypes
<1>2. WebTypes'
  <2>1. CheckTypes'
    BY WebConsoleAssumption
       DEF WebInv, WebTypes, CheckTypes, Numbered, Sessions, AccountAnswered, EstablishSession, StartCheck
  <2>2. ReadTypes'
    BY DEF WebInv, WebTypes, ReadTypes, AccountAnswered, readVarsWeb
  <2>3. AccountTypes'
    BY DEF WebInv, WebTypes, AccountTypes, AccountAnswered, EstablishSession, Quiet
  <2>4. snapshot' \in Snapshots /\ socket' \in Sessions \cup {Nobody}
    BY DEF WebInv, WebTypes, AccountAnswered
  <2>5. record' \in Copies \cup {Nobody} /\ idb' \in Copies \cup {Nobody}
    BY DEF WebInv, WebTypes, AccountAnswered, copyVars
  <2>6. idbQueue' \in Seq(IdbWrites) /\ Len(idbQueue') <= MaxIdb
    BY DEF WebInv, WebTypes, AccountAnswered
  <2>7. QED
    BY <1>1, <2>1, <2>2, <2>3 DEF WebInv, WebTypes, AccountAnswered, readVarsWeb, copyVars, gateVars
<1>3. Numbered'
  BY WebConsoleAssumption
     DEF WebInv, WebTypes, CheckTypes, Numbered, Sessions, AccountAnswered, EstablishSession, StartCheck,
         scopeVars
<1>4. QueueOk'
  BY DEF WebInv, WebTypes, QueueOk, AccountAnswered, EstablishSession, copyVars
<1>5. UnmountedRests'
  BY DEF WebInv, WebTypes, UnmountedRests, AccountAnswered, Subscribed, EstablishSession, Quiet,
         readVarsWeb, copyVars, gateVars
<1>6. ReadsOrdered'
  BY DEF WebInv, ReadsOrdered, RestoredFits, AccountAnswered, scopeVars, readVarsWeb
<1>7. OwnShown'
  BY <1>1
     DEF WebInv, UnmountedRests, OwnShown, AccountAnswered, EstablishSession, Quiet, scopeVars, readVarsWeb
<1>8. OwnStored'
  BY DEF WebInv, WebTypes, OwnStored, AccountAnswered, EstablishSession, copyVars
<1>9. WaitsEnd'
  BY DEF WebInv, WebTypes, AccountTypes, UnmountedRests, WaitsEnd, AccountAnswered, EstablishSession,
         StartCheck, Quiet, gateVars
<1>10. QED
  BY <1>2, <1>3, <1>4, <1>5, <1>6, <1>7, <1>8, <1>9 DEF WebInv

LEMMA HideTabStep == ASSUME WebInv, HideTab PROVE WebInv'
<1>1. Cancelled
  BY CancelledQueue DEF HideTab, CancelSnapshot
<1>2. WebTypes'
  <2>1. CheckTypes'
    BY DEF WebInv, WebTypes, CheckTypes, HideTab
  <2>2. ReadTypes'
    BY DEF WebInv, ReadTypes, HideTab, CancelSnapshot, Quiet
  <2>3. AccountTypes'
    BY DEF WebInv, WebTypes, AccountTypes, HideTab
  <2>4. snapshot' \in Snapshots /\ socket' \in Sessions \cup {Nobody}
    BY DEF WebInv, WebTypes, HideTab
  <2>5. record' \in Copies \cup {Nobody} /\ idb' \in Copies \cup {Nobody}
    BY DEF WebInv, WebTypes, HideTab, copyVars
  <2>6. idbQueue' \in Seq(IdbWrites) /\ Len(idbQueue') <= MaxIdb
    BY <1>1 DEF WebInv, WebTypes, HideTab, Cancelled
  <2>7. QED
    BY <1>1, WebConsoleAssumption, <2>1, <2>2, <2>3, <2>4, <2>5, <2>6
       DEF WebInv, WebTypes, HideTab, Subscribed, CancelSnapshot, scopeVars, copyVars, Cancelled
<1>3. Numbered'
  BY DEF WebInv, Numbered, HideTab, scopeVars
<1>4. QueueOk'
  BY <1>1 DEF WebInv, WebTypes, QueueOk, HideTab, CancelSnapshot, copyVars, Cancelled
<1>5. UnmountedRests'
  BY DEF WebInv, UnmountedRests, HideTab, Subscribed, CancelSnapshot
<1>6. ReadsOrdered'
  BY DEF WebInv, ReadsOrdered, RestoredFits, HideTab, CancelSnapshot, Quiet
<1>7. OwnShown'
  BY DEF WebInv, WebTypes, OwnShown, HideTab, CancelSnapshot, Quiet, scopeVars
<1>8. OwnStored'
  BY <1>1 DEF WebInv, WebTypes, OwnStored, HideTab, CancelSnapshot, copyVars, Cancelled
<1>9. WaitsEnd'
  BY <1>1 DEF WebInv, UnmountedRests, WaitsEnd, HideTab, CancelSnapshot, Cancelled
<1>10. QED
  BY <1>2, <1>3, <1>4, <1>5, <1>6, <1>7, <1>8, <1>9 DEF WebInv

LEMMA DisconnectStep == ASSUME WebInv, Disconnect PROVE WebInv'
<1>1. Cancelled
  BY CancelledQueue DEF Disconnect, CancelSnapshot
<1>2. /\ snapshot' \in Snapshots
      /\ \/ snapshot' = snapshot
         \/ /\ snapshot'.source = "cache"
            /\ snapshot'.metrics # Nobody => snapshot'.metrics.device = snapshot'.device
  BY RestoredIs, SnapshotIs DEF WebInv, WebTypes, Disconnect, Restorable
<1>3. WebTypes'
  <2>1. CheckTypes'
    BY DEF WebInv, WebTypes, CheckTypes, Disconnect
  <2>2. ReadTypes'
    BY DEF WebInv, ReadTypes, Disconnect, CancelSnapshot, Quiet
  <2>3. AccountTypes'
    BY DEF WebInv, WebTypes, AccountTypes, Disconnect
  <2>4. snapshot' \in Snapshots /\ socket' \in Sessions \cup {Nobody}
    BY <1>2 DEF WebInv, Disconnect
  <2>5. record' \in Copies \cup {Nobody} /\ idb' \in Copies \cup {Nobody}
    BY DEF WebInv, WebTypes, Disconnect, copyVars
  <2>6. idbQueue' \in Seq(IdbWrites) /\ Len(idbQueue') <= MaxIdb
    BY <1>1 DEF WebInv, WebTypes, Disconnect, Cancelled
  <2>7. QED
    BY <1>1, <1>2, WebConsoleAssumption, <2>1, <2>2, <2>3, <2>4, <2>5, <2>6
       DEF WebInv, WebTypes, Disconnect, Subscribed, CancelSnapshot, Restorable, copyVars, Cancelled
<1>4. Numbered'
  BY DEF WebInv, Numbered, Disconnect
<1>5. QueueOk'
  BY <1>1 DEF WebInv, WebTypes, QueueOk, Disconnect, CancelSnapshot, copyVars, Cancelled
<1>6. UnmountedRests'
  BY DEF WebInv, UnmountedRests, Disconnect, Subscribed, CancelSnapshot
<1>7. ReadsOrdered'
  BY <1>2 DEF WebInv, ReadsOrdered, RestoredFits, Disconnect, CancelSnapshot, Quiet
<1>8. OwnShown'
  BY <1>2 DEF WebInv, WebTypes, OwnShown, Disconnect, CancelSnapshot, Quiet
<1>9. OwnStored'
  BY <1>1 DEF WebInv, WebTypes, OwnStored, Disconnect, CancelSnapshot, copyVars, Cancelled
<1>10. WaitsEnd'
  BY <1>1 DEF WebInv, UnmountedRests, WaitsEnd, Disconnect, CancelSnapshot, Cancelled
<1>11. QED
  BY <1>3, <1>4, <1>5, <1>6, <1>7, <1>8, <1>9, <1>10 DEF WebInv

LEMMA RevokeStep == ASSUME WebInv, Revoke PROVE WebInv'
<1>1. WebTypes'
  BY DEF WebInv, WebTypes, CheckTypes, ReadTypes, AccountTypes, Revoke, readVarsWeb, copyVars, gateVars
<1>2. Numbered'
  BY DEF WebInv, Numbered, Revoke, scopeVars
<1>3. QueueOk'
  BY DEF WebInv, QueueOk, Revoke, copyVars
<1>4. UnmountedRests'
  BY DEF WebInv, UnmountedRests, Revoke, readVarsWeb, copyVars, gateVars, Subscribed
<1>5. ReadsOrdered'
  BY DEF WebInv, ReadsOrdered, RestoredFits, Revoke, scopeVars, readVarsWeb
<1>6. OwnShown'
  BY DEF WebInv, OwnShown, Revoke, scopeVars, readVarsWeb
<1>7. OwnStored'
  BY DEF WebInv, OwnStored, Revoke, copyVars
<1>8. WaitsEnd'
  BY DEF WebInv, WaitsEnd, Revoke, gateVars
<1>9. QED
  BY <1>1, <1>2, <1>3, <1>4, <1>5, <1>6, <1>7, <1>8 DEF WebInv

LEMMA OtherTabForgetsStep == ASSUME WebInv, OtherTabForgets PROVE WebInv'
<1>1. /\ idbQueue \in Seq(IdbWrites) /\ idb \in Copies \cup {Nobody}
      /\ idbQueue' = [i \in DOMAIN idbQueue |-> [idbQueue[i] EXCEPT !.put = Ended(@)]]
  BY DEF WebInv, WebTypes, OtherTabForgets
<1>2. /\ idbQueue' \in Seq(IdbWrites) /\ Len(idbQueue') = Len(idbQueue)
      /\ NoLift(idbQueue) => NoLift(idbQueue')
      /\ LiftsLast(idbQueue) => LiftsLast(idbQueue')
      /\ \A K : HasClear(idbQueue', K) <=> HasClear(idbQueue, K)
      /\ OwnWrites(idbQueue) => OwnWrites(idbQueue')
  BY <1>1, EndedPuts
<1>3. idb' \in Copies \cup {Nobody} /\ (idb' # Nobody => idb # Nobody /\ (OwnCopy(idb) => OwnCopy(idb')))
  BY <1>1, EndedIs DEF OtherTabForgets, OwnCopy
<1>4. /\ ~resetPending /\ resetPending' = TRUE /\ cleared' = TRUE /\ cookie' \in {cookie, Nobody}
      /\ UNCHANGED <<lastSession, scopeVars, snapshot, socket, check, readVarsWeb, expiring, record, recordLoaded,
                     gateVars, account, cut>>
  BY DEF OtherTabForgets
<1>5. WebTypes'
  BY <1>2, <1>3
     DEF WebInv, WebTypes, CheckTypes, ReadTypes, AccountTypes, OtherTabForgets, readVarsWeb, gateVars
<1>6. Numbered'
  BY DEF WebInv, Numbered, OtherTabForgets, scopeVars
<1>7. QueueOk'
  BY <1>2 DEF WebInv, QueueOk, OtherTabForgets
<1>8. UnmountedRests'
  BY <1>2, <1>4 DEF WebInv, UnmountedRests, Subscribed, readVarsWeb, gateVars
<1>9. ReadsOrdered'
  BY DEF WebInv, ReadsOrdered, RestoredFits, OtherTabForgets, scopeVars, readVarsWeb
<1>10. OwnShown'
  BY DEF WebInv, OwnShown, OtherTabForgets, scopeVars, readVarsWeb
<1>11. OwnStored'
  BY <1>2, <1>3 DEF WebInv, OwnStored, OtherTabForgets
<1>12. WaitsEnd'
  BY <1>2 DEF WebInv, WaitsEnd, OtherTabForgets, gateVars
<1>13. QED
  BY <1>5, <1>6, <1>7, <1>8, <1>9, <1>10, <1>11, <1>12 DEF WebInv

LEMMA OtherTabSignsInStep == ASSUME WebInv, OtherTabSignsIn PROVE WebInv'
<1>1. WebTypes'
  BY DEF WebInv, WebTypes, CheckTypes, ReadTypes, AccountTypes, OtherTabSignsIn, readVarsWeb, copyVars,
         gateVars
<1>2. Numbered'
  BY WebConsoleAssumption DEF WebInv, WebTypes, CheckTypes, Numbered, Sessions, OtherTabSignsIn, scopeVars
<1>3. QueueOk'
  BY DEF WebInv, QueueOk, OtherTabSignsIn, copyVars
<1>4. UnmountedRests'
  BY DEF WebInv, UnmountedRests, OtherTabSignsIn, readVarsWeb, copyVars, gateVars, Subscribed
<1>5. ReadsOrdered'
  BY DEF WebInv, ReadsOrdered, RestoredFits, OtherTabSignsIn, scopeVars, readVarsWeb
<1>6. OwnShown'
  BY DEF WebInv, OwnShown, OtherTabSignsIn, scopeVars, readVarsWeb
<1>7. OwnStored'
  BY DEF WebInv, OwnStored, OtherTabSignsIn, copyVars
<1>8. WaitsEnd'
  BY DEF WebInv, WaitsEnd, OtherTabSignsIn, gateVars
<1>9. QED
  BY <1>1, <1>2, <1>3, <1>4, <1>5, <1>6, <1>7, <1>8 DEF WebInv

LEMMA ResetReceivedStep == ASSUME WebInv, ResetReceived PROVE WebInv'
<1>1. Subscribed => ExpiredBy("denial")
  BY ExpiredNow DEF ResetReceived, Expiries
<1>2. WebTypes'
  <2>1. CheckTypes'
    BY <1>1 DEF WebInv, WebTypes, CheckTypes, ResetReceived, Quiet, ExpiredBy
  <2>2. ReadTypes'
    BY <1>1 DEF WebInv, WebTypes, ReadTypes, ResetReceived, Quiet, readVarsWeb, ExpiredBy
  <2>3. AccountTypes'
    BY DEF WebInv, WebTypes, AccountTypes, ResetReceived
  <2>4. snapshot' \in Snapshots /\ socket' \in Sessions \cup {Nobody}
    BY DEF WebInv, WebTypes, ResetReceived
  <2>5. record' \in Copies \cup {Nobody} /\ idb' \in Copies \cup {Nobody}
    BY <1>1 DEF WebInv, WebTypes, ResetReceived, copyVars, ExpiredBy, ClearedFor
  <2>6. idbQueue' \in Seq(IdbWrites) /\ Len(idbQueue') <= MaxIdb
    BY <1>1, WebConsoleAssumption DEF WebInv, WebTypes, ResetReceived, ExpiredBy, ClearedFor
  <2>7. QED
    BY <1>1, RestsAreOrdered, WebConsoleAssumption, <2>1, <2>2, <2>3, <2>4, <2>5, <2>6
       DEF WebInv, WebTypes, ResetReceived, Subscribed, scopeVars, readVarsWeb, copyVars, ExpiredBy,
           ClearedFor
<1>3. Numbered'
  BY <1>1 DEF WebInv, Numbered, ResetReceived, scopeVars, ExpiredBy
<1>4. QueueOk'
  BY <1>1, RestsAreOrdered
     DEF WebInv, WebTypes, QueueOk, UnmountedRests, ResetReceived, copyVars, ExpiredBy, ClearedFor
<1>5. UnmountedRests'
  BY <1>1 DEF WebInv, UnmountedRests, ResetReceived, Subscribed, readVarsWeb, copyVars, ExpiredBy
<1>6. ReadsOrdered'
  BY <1>1
     DEF WebInv, UnmountedRests, ReadsOrdered, RestoredFits, ResetReceived, Quiet, readVarsWeb, ExpiredBy
<1>7. OwnShown'
  BY <1>1 DEF WebInv, OwnShown, ResetReceived, scopeVars, readVarsWeb, ExpiredBy
<1>8. OwnStored'
  BY <1>1 DEF WebInv, OwnStored, ResetReceived, copyVars, ExpiredBy, ClearedFor
<1>9. WaitsEnd'
  BY <1>1 DEF WebInv, WaitsEnd, Expiries, ResetReceived, Subscribed, Quiet, ExpiredBy, ClearedFor
<1>10. QED
  BY <1>2, <1>3, <1>4, <1>5, <1>6, <1>7, <1>8, <1>9 DEF WebInv

LEMMA ReloadStep == ASSUME WebInv, Reload PROVE WebInv'
<1>1. /\ idbQueue' = <<>> /\ idbQueue' \in Seq(IdbWrites) /\ Len(idbQueue') = 0
      /\ NoLift(idbQueue') /\ LiftsLast(idbQueue') /\ EndedFirst(idbQueue') /\ ~HasEnded(idbQueue') /\ OwnWrites(idbQueue')
      /\ \A K : ~HasClear(idbQueue', K)
  BY DEF Reload, FreshTab, NoLift, LiftsLast, EndedFirst, HasEnded, HasClear, OwnWrites
<1>2. idbQueue \in Seq(IdbWrites) /\ idb \in Copies \cup {Nobody}
  BY DEF WebInv, WebTypes
<1>3. \/ idb' = idb
      \/ /\ idb' \in Copies \cup {Nobody}
         /\ idb' # Nobody /\ idb'.ended => HasEnded(idbQueue)
         /\ idb' # Nobody /\ OwnWrites(idbQueue) => OwnCopy(idb')
  BY <1>2, TailIs, WriteIs DEF Reload
<1>4. WebTypes'
  <2>1. CheckTypes'
    BY DEF WebInv, CheckTypes, Reload, FreshTab, Quiet
  <2>2. ReadTypes'
    BY DEF WebInv, ReadTypes, Reload, FreshTab, Quiet
  <2>3. AccountTypes'
    BY DEF WebInv, AccountTypes, Reload, FreshTab, Quiet
  <2>4. snapshot' \in Snapshots /\ socket' \in Sessions \cup {Nobody}
    BY EmptyIs DEF WebInv, Reload, FreshTab
  <2>5. record' \in Copies \cup {Nobody} /\ idb' \in Copies \cup {Nobody}
    BY <1>3 DEF WebInv, WebTypes, Reload, FreshTab
  <2>6. idbQueue' \in Seq(IdbWrites) /\ Len(idbQueue') <= MaxIdb
    BY WebConsoleAssumption DEF WebInv, Reload, FreshTab
  <2>7. QED
    BY <1>1, <1>2, <1>3, EmptyIs, WebConsoleAssumption, <2>1, <2>2, <2>3, <2>4, <2>5, <2>6
       DEF WebInv, WebTypes, Reload, FreshTab, Subscribed
<1>5. Numbered'
  BY DEF WebInv, Numbered, Reload, FreshTab
<1>6. QueueOk'
  BY <1>1, <1>3 DEF WebInv, QueueOk, Reload
<1>7. UnmountedRests'
  BY <1>1 DEF WebInv, UnmountedRests, Reload, FreshTab
<1>8. ReadsOrdered'
  BY EmptyIs DEF WebInv, ReadsOrdered, RestoredFits, Reload, FreshTab, Quiet
<1>9. OwnShown'
  BY EmptyIs DEF WebInv, OwnShown, Reload, FreshTab
<1>10. OwnStored'
  BY <1>1, <1>3 DEF WebInv, OwnStored, Reload, FreshTab
<1>11. WaitsEnd'
  BY DEF WebInv, WaitsEnd, Reload, FreshTab, Quiet
<1>12. QED
  BY <1>4, <1>5, <1>6, <1>7, <1>8, <1>9, <1>10, <1>11 DEF WebInv

-----------------------------------------------------------------------------
(* The theorems about a tab                                                *)

LEMMA WebStarts == ASSUME WebInit PROVE WebInv
<1>1. /\ idbQueue \in Seq(IdbWrites) /\ Len(idbQueue) <= MaxIdb
      /\ NoLift(idbQueue) /\ LiftsLast(idbQueue) /\ EndedFirst(idbQueue) /\ ~HasEnded(idbQueue) /\ OwnWrites(idbQueue)
      /\ \A K : ~HasClear(idbQueue, K)
  <2>1. idbQueue = <<>> /\ Len(idbQueue) = 0
    BY DEF WebInit
  <2>2. Len(idbQueue) <= MaxIdb
    BY <2>1, WebConsoleAssumption
  <2>3. QED
    BY <2>1, <2>2 DEF NoLift, LiftsLast, EndedFirst, HasEnded, HasClear, OwnWrites
<1>2. /\ lastSession = 1 /\ 1 \in Sessions
      /\ check = Quiet /\ load = Quiet /\ pull = Quiet /\ account = Quiet
      /\ saveTimer = FALSE /\ expiring = FALSE /\ restoring = FALSE /\ resetPending = FALSE /\ cut = FALSE
  BY WebConsoleAssumption DEF WebInit, Sessions
<1>3. CheckTypes /\ ReadTypes /\ AccountTypes
  BY <1>2 DEF CheckTypes, ReadTypes, AccountTypes, Quiet
<1>4. ASSUME NEW s \in Nat, NEW d \in Nodes
      PROVE  /\ CopyFrom(s, d) \in Copies /\ ~CopyFrom(s, d).ended /\ OwnCopy(CopyFrom(s, d))
             /\ \A c \in BOOLEAN : LET r == [CopyFrom(s, d) EXCEPT !.ended = c] IN
                    r \in Copies /\ r.ended = c /\ OwnCopy(r)
  <2> DEFINE v == [device |-> d, rows |-> {s}, metrics |-> [session |-> s, device |-> d]]
             views == <<v>>
  <2>1. v \in TabViews /\ Sources(v) = {s}
    BY WebConsoleAssumption DEF TabViews, Metrics, Sources
  <2> HIDE DEF v
  <2>2. views \in Seq(TabViews) \ {<<>>} /\ DOMAIN views = {1} /\ views[1] = v
    BY <2>1
  <2>3. CopyFrom(s, d) = [scope |-> s, ended |-> FALSE, views |-> views]
    BY DEF CopyFrom, v
  <2> HIDE DEF views
  <2>4. ASSUME NEW c \in BOOLEAN, NEW r, r = [scope |-> s, ended |-> c, views |-> views]
        PROVE  r \in Copies /\ r.ended = c /\ OwnCopy(r)
    BY <2>1, <2>2, <2>4 DEF Copies, OwnCopy
  <2>5. \A c \in BOOLEAN : [CopyFrom(s, d) EXCEPT !.ended = c] = [scope |-> s, ended |-> c, views |-> views]
    BY <2>3
  <2>6. QED
    BY <2>3, <2>4, <2>5
<1>5. CASE WebStart
  <2>1. /\ record = Nobody /\ cleared \in BOOLEAN
        /\ idb \in Copies \cup {Nobody} /\ (idb # Nobody => OwnCopy(idb) /\ idb.ended = cleared)
    <3>1. 0 .. 1 \subseteq Nat
      OBVIOUS
    <3>2. cleared \in BOOLEAN /\ record = Nobody
      BY <1>5 DEF WebStart
    <3>3. CASE idb = Nobody
      BY <3>2, <3>3
    <3>4. CASE idb # Nobody
      <4>1. PICK s \in 0 .. 1, d \in Nodes : idb = [CopyFrom(s, d) EXCEPT !.ended = cleared]
        BY <1>5, <3>4 DEF WebStart
      <4>2. QED
        BY <1>4, <3>1, <3>2, <4>1
    <3>5. QED
      BY <3>3, <3>4
  <2>2. /\ snapshot = emptyConsoleSnapshot /\ socket = Nobody /\ sessionScope = Nobody /\ identityScope = Nobody
        /\ cookie \in {1, Nobody} /\ gate = "loading" /\ boot = "mounting" /\ recordLoaded = FALSE
    BY <1>5 DEF WebStart
  <2>3. WebTypes
    BY <1>1, <1>2, <1>3, <2>1, <2>2, EmptyIs DEF WebTypes
  <2>4. Numbered /\ QueueOk /\ UnmountedRests /\ ReadsOrdered /\ WaitsEnd
    BY <1>1, <1>2, <2>1, <2>2, EmptyIs
       DEF Numbered, QueueOk, UnmountedRests, ReadsOrdered, RestoredFits, WaitsEnd, Quiet, Subscribed, emptyConsoleSnapshot
  <2>5. OwnShown /\ OwnStored
    BY <1>1, <1>2, <2>1, <2>2, EmptyIs DEF OwnShown, OwnStored, Quiet
  <2>6. QED
    BY <2>3, <2>4, <2>5 DEF WebInv
<1>6. CASE WebOpen
  <2>1. PICK d \in Nodes :
           /\ snapshot = [source |-> "live", device |-> d, rows |-> {1}, metrics |-> [session |-> 1, device |-> d]]
           /\ record = CopyFrom(1, d)
    BY <1>6 DEF WebOpen
  <2>2. /\ cookie = 1 /\ sessionScope = 1 /\ identityScope = 1 /\ socket = 1 /\ recordLoaded = TRUE /\ cleared = FALSE
        /\ idb = record /\ gate = "authenticated" /\ boot = "none"
    BY <1>6 DEF WebOpen
  <2>3. record \in Copies /\ ~record.ended /\ OwnCopy(record)
    BY <1>4, <2>1
  <2>4. snapshot \in Snapshots /\ snapshot.source = "live" /\ Sources(snapshot) = {1}
    <3> DEFINE v == [session |-> 1, device |-> d]
    <3>1. v \in Metrics /\ v # Nobody /\ v.session = 1
      BY WebConsoleAssumption DEF Metrics
    <3>2. snapshot = [source |-> "live", device |-> d, rows |-> {1}, metrics |-> v]
      BY <2>1
    <3> HIDE DEF v
    <3>3. QED
      BY <3>1, <3>2 DEF Snapshots, TabDevices, Sources
  <2>5. WebTypes
    BY <1>1, <1>2, <1>3, <2>2, <2>3, <2>4, WebConsoleAssumption DEF WebTypes
  <2>6. Numbered /\ QueueOk /\ UnmountedRests /\ ReadsOrdered /\ WaitsEnd
    BY <1>1, <1>2, <2>2, <2>3, <2>4, WebConsoleAssumption
       DEF Numbered, QueueOk, UnmountedRests, ReadsOrdered, RestoredFits, WaitsEnd, Quiet, Subscribed
  <2>7. OwnShown /\ OwnStored
    BY <1>1, <1>2, <2>2, <2>3, <2>4, WebConsoleAssumption DEF OwnShown, OwnStored, Quiet
  <2>8. QED
    BY <2>5, <2>6, <2>7 DEF WebInv
<1>7. QED
  BY <1>5, <1>6 DEF WebInit

LEMMA WebStays == ASSUME WebInv, UNCHANGED webVars PROVE WebInv'
<1>1. /\ UNCHANGED <<cookie, sessionScope, identityScope, snapshot, socket, check, load, pull, saveTimer>>
      /\ UNCHANGED <<expiring, record, recordLoaded, idb, cleared, idbQueue>>
      /\ UNCHANGED <<gate, boot, restoring, account, cut, lastSession, resetPending>>
  BY DEF webVars, scopeVars, readVarsWeb, copyVars, gateVars, worldVars
<1>2. WebTypes'
  BY <1>1 DEF WebInv, WebTypes, CheckTypes, ReadTypes, AccountTypes
<1>3. Numbered' /\ QueueOk' /\ UnmountedRests' /\ ReadsOrdered'
  BY <1>1 DEF WebInv, Numbered, QueueOk, UnmountedRests, Subscribed, ReadsOrdered, RestoredFits
<1>4. OwnShown' /\ OwnStored' /\ WaitsEnd'
  BY <1>1 DEF WebInv, OwnShown, OwnStored, WaitsEnd
<1>5. QED
  BY <1>2, <1>3, <1>4 DEF WebInv

LEMMA WebInvHolds == WebSpec => []WebInv
<1>1. WebInit => WebInv
  BY WebStarts
<1>2. WebInv /\ [WebNext]_webVars => WebInv'
  BY WebStays,
     CopyLoadedStep, SaveViewStep, PutEndsStep, CopyClearedStep, BootstrapStep, RestoreOfflineStep,
     CheckWaitsStep, CopyOfAnotherStep, CheckEndsStep, CheckDeniedStep, CheckFailsStep,
     LoadSnapshotStep, ShowCopyStep, ListPublishedStep, ChartPublishedStep, ListFailsWebStep,
     ReadDeniedStep, PushStep, PullStartsStep, PullPublishedStep, ForgetStep, AccountAnsweredStep,
     HideTabStep, DisconnectStep, RevokeStep, OtherTabForgetsStep, OtherTabSignsInStep,
     ResetReceivedStep, ReloadStep
     DEF WebNext
<1>3. QED
  BY <1>1, <1>2, PTL DEF WebSpec

\* The types of the run, and everything that is awaited is queued.
LEMMA TypesImplied == ASSUME WebInv PROVE WebTypeOK
<1>1. /\ cookie \in 1 .. MaxSessions \cup {Nobody} /\ sessionScope \in 1 .. MaxSessions \cup {Nobody}
      /\ identityScope \in 1 .. MaxSessions \cup {Nobody}
  BY DEF WebInv, Numbered, Sessions
<1>2. snapshot.source \in {"empty", "live", "cache"} /\ snapshot.device \in Nodes \cup {Nobody}
  BY SnapshotIs DEF WebInv, WebTypes, TabDevices
<1>3. QED
  BY <1>1, <1>2 DEF WebInv, WebTypes, CheckTypes, ReadTypes, AccountTypes, WaitsEnd, HasClear, WebTypeOK

\* However checks, reads, pushes, the storage and other tabs overlap, telemetry
\* of an earlier session is never shown as live or stored under a later one, a
\* copy shows the charts of the device that is selected, and the tab waits for
\* nothing that will not come (checkSession, markSessionExpired, saveSnapshotView,
\* restoreSnapshotView, bootstrapConsole).
THEOREM TabSoundHolds == WebSpec => []TabSound
<1>1. ASSUME WebInv PROVE LiveIsOwn
  <2>1. sessionScope # Nobody => sessionScope = identityScope
    BY <1>1 DEF WebInv, Numbered
  <2>2. QED
    BY <1>1, <2>1 DEF WebInv, OwnShown, LiveIsOwn
<1>2. ASSUME WebInv PROVE CopyIsOwn
  BY <1>2 DEF WebInv, OwnStored, OwnCopy, CopyIsOwn
<1>3. WebInv => TabSound
  BY <1>1, <1>2, TypesImplied DEF WebInv, ReadsOrdered, TabSound
<1>4. QED
  BY <1>3, WebInvHolds, PTL

\* A copy from before the last clear stays behind the tombstone, even when the
\* storage fails, times out or commits late, so that what was forgotten does not
\* come back after a reload (clear, save, wasCleared).
THEOREM ForgottenStaysForgottenHolds == WebSpec => []ForgottenStaysForgotten
<1>1. WebInv => ForgottenStaysForgotten
  BY DEF WebInv, QueueOk, ForgottenStaysForgotten
<1>2. QED
  BY <1>1, WebInvHolds, PTL

\* Under the sign-in form nothing is shown, read or copied, whatever answers
\* late (bootstrapConsole, cacheCurrent).
THEOREM DenialWinsHolds == WebSpec => []DenialWins
<1>1. WebInv => DenialWins
  BY DEF WebInv, UnmountedRests, Subscribed, DenialWins, emptyConsoleSnapshot
<1>2. QED
  BY <1>1, WebInvHolds, PTL
=============================================================================
