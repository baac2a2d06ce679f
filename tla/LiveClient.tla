----------------------------- MODULE LiveClient -----------------------------
(***************************************************************************)
(* The agent's side of the live channel (agents/internal/live/client.go):  *)
(* one connection at a time, whose reader acknowledges requests and starts *)
(* a job for each, and jobs that may outlive their connection.  The Hub's  *)
(* frames may come in any order.  And the slow probes that the sampler     *)
(* runs in the background (agents/live.go), through a channel of one place.*)
(***************************************************************************)
EXTENDS Integers, FiniteSets, Sequences

CONSTANTS
    LiveTopics,     \* metrics, processes, docker
    MaxSessions,    \* connections in a run
    MaxLiveRequests,
    MaxEdits,       \* changes of the configuration
    MaxProbes       \* background collections

VARIABLES
    edition,        \* of the configuration file
    syncOn,         \* cloud sync and recording are on, with a secret
    conn,           \* number of the connection, 0 for none
    phase,          \* "none", "enroll", "hello" or "ready"
    connEdition,    \* the configuration it was opened with
    cancelled,      \* connections whose context is cancelled
    reading,        \* the request the reader has acknowledged and still has in hand
    busyTopics,     \* c.busy
    liveJobs,       \* goroutines, in their handler or about to release their topic
    unanswered,     \* history: acknowledged requests of the connection without an answer
    sessions, liveRequests,
    assets,         \* version of the hardware cache
    slowPending,
    probes,         \* background collections under way
    slowResults, probesRun

channelVars == <<edition, syncOn, conn, phase, connEdition, cancelled, reading, busyTopics, liveJobs,
                 unanswered, sessions, liveRequests>>
probeVars == <<assets, slowPending, probes, slowResults, probesRun>>
readerVars == <<conn, phase, connEdition, reading, sessions>>

NoRequest == [id |-> 0]
RequestFor(t) == [id |-> liveRequests + 1, topic |-> t]

----------------------------------------------------------------------------
(* Connecting.                                                             *)

\* The context of the connection is cancelled; nobody waits for its answers.
SessionStopped ==
    /\ cancelled' = cancelled \union {conn}
    /\ unanswered' = {}

\* connect returns.
Disconnected ==
    /\ SessionStopped
    /\ conn' = 0 /\ phase' = "none" /\ reading' = NoRequest

\* Run finds the channel wanted, and connect enrols.
BeginConnect ==
    /\ conn = 0 /\ syncOn /\ sessions < MaxSessions
    /\ sessions' = sessions + 1 /\ conn' = sessions + 1
    /\ phase' = "enroll" /\ connEdition' = edition
    /\ UNCHANGED <<edition, syncOn, cancelled, reading, busyTopics, liveJobs, unanswered, liveRequests>>

\* Enrolment and dialling succeed and hello is sent.
Enrolled ==
    /\ phase = "enroll"
    /\ phase' = "hello"
    /\ UNCHANGED <<edition, syncOn, conn, connEdition, cancelled, reading, busyTopics, liveJobs, unanswered,
                   sessions, liveRequests>>

\* A refusal, an error, a silence of 20 s, a failed write, an invalid frame,
\* or a job that has closed the connection.
ConnectionEnds ==
    /\ conn # 0 /\ reading = NoRequest
    /\ Disconnected
    /\ UNCHANGED <<edition, syncOn, connEdition, busyTopics, liveJobs, sessions, liveRequests>>

\* The file is edited; recording, sync or the secret may be taken away.
EditConfig ==
    /\ edition < MaxEdits
    /\ edition' = edition + 1 /\ syncOn' \in BOOLEAN
    /\ UNCHANGED <<readerVars, cancelled, busyTopics, liveJobs, unanswered, liveRequests>>

----------------------------------------------------------------------------
(* The reader.                                                             *)

\* A frame arrives while the reader is at its read and the configuration is
\* the one of the connection (after a change, ConnectionEnds).
FrameRead ==
    /\ phase \in {"hello", "ready"} /\ reading = NoRequest
    /\ conn \notin cancelled /\ edition = connEdition

Welcome ==
    /\ FrameRead /\ phase = "hello"
    /\ phase' = "ready"
    /\ UNCHANGED <<edition, syncOn, conn, connEdition, cancelled, reading, busyTopics, liveJobs, unanswered,
                   sessions, liveRequests>>

\* A request that can be served is acknowledged.
AcceptRequest(t) ==
    /\ FrameRead /\ phase = "ready" /\ liveRequests < MaxLiveRequests
    /\ liveRequests' = liveRequests + 1
    /\ reading' = RequestFor(t)
    /\ unanswered' = unanswered \union {RequestFor(t).id}
    /\ UNCHANGED <<edition, syncOn, conn, phase, connEdition, cancelled, busyTopics, liveJobs, sessions>>

\* Mutant: a request for an occupied topic is dropped.
Dropped(id) == unanswered

\* collection_busy.
AnsweredBusy(id) == unanswered \ {id}

\* Mutant: the map of busy topics belongs to the connection.
OccupiedHere(t) == \E j \in liveJobs : j.topic = t /\ j.conn = conn

\* It belongs to the client and survives a reconnection.
Occupied(t) == t \in busyTopics

\* The topic is occupied: the request is refused, or the refusal cannot be written.
RefuseBusy ==
    /\ reading # NoRequest /\ Occupied(reading.topic)
    /\ \/ /\ conn \notin cancelled
          /\ unanswered' = AnsweredBusy(reading.id) /\ reading' = NoRequest
          /\ UNCHANGED <<conn, phase, cancelled>>
       \/ Disconnected
    /\ UNCHANGED <<edition, syncOn, connEdition, busyTopics, liveJobs, sessions, liveRequests>>

\* It is given to a job, even when the connection has been closed meanwhile.
StartJob ==
    /\ reading # NoRequest /\ ~Occupied(reading.topic)
    /\ reading' = NoRequest
    /\ busyTopics' = busyTopics \union {reading.topic}
    /\ liveJobs' = liveJobs \union
            {[id |-> reading.id, topic |-> reading.topic, conn |-> conn, edition |-> connEdition, at |-> "handler"]}
    /\ UNCHANGED <<edition, syncOn, conn, phase, connEdition, cancelled, unanswered, sessions, liveRequests>>

----------------------------------------------------------------------------
(* Jobs.                                                                   *)

\* A failure, a panic and an expired query are answered with their code.
Replied(j) == unanswered \ {j.id}

\* The handler ends.  Nothing is said on a closed connection; a changed
\* configuration, and an answer that cannot be written, close it.
FinishHandler(j) ==
    /\ j.at = "handler"
    /\ liveJobs' = (liveJobs \ {j}) \union {[j EXCEPT !.at = "release"]}
    /\ \/ j.conn \in cancelled /\ UNCHANGED <<cancelled, unanswered>>
       \/ j.conn \notin cancelled /\ SessionStopped
       \/ /\ j.conn \notin cancelled /\ j.edition = edition
          /\ unanswered' = Replied(j)
          /\ UNCHANGED cancelled
    /\ UNCHANGED <<edition, syncOn, readerVars, busyTopics, liveRequests>>

\* The deferred release.
Released(j) == busyTopics \ {j.topic}

ReleaseTopic(j) ==
    /\ j.at = "release"
    /\ liveJobs' = liveJobs \ {j}
    /\ busyTopics' = Released(j)
    /\ UNCHANGED <<edition, syncOn, readerVars, cancelled, unanswered, liveRequests>>

ChannelInit ==
    /\ edition = 0 /\ syncOn = TRUE
    /\ conn = 0 /\ phase = "none" /\ connEdition = 0 /\ cancelled = {} /\ reading = NoRequest
    /\ busyTopics = {} /\ liveJobs = {} /\ unanswered = {}
    /\ sessions = 0 /\ liveRequests = 0

ChannelNext ==
    \/ BeginConnect \/ Enrolled \/ ConnectionEnds \/ EditConfig \/ Welcome
    \/ \E t \in LiveTopics : AcceptRequest(t)
    \/ RefuseBusy \/ StartJob
    \/ \E j \in liveJobs : FinishHandler(j) \/ ReleaseTopic(j)

----------------------------------------------------------------------------
(* Slow probes.                                                            *)

\* refreshSlowAsync: the outcome that has arrived is taken, then the next
\* collection is started if it is due.
RefreshSlow(due) ==
    LET arrived == slowResults # <<>>
        known == IF arrived THEN Head(slowResults).version ELSE assets
        idle == arrived \/ ~slowPending
    IN  /\ assets' = known
        /\ slowResults' = IF arrived THEN Tail(slowResults) ELSE slowResults
        /\ IF due /\ idle /\ probesRun < MaxProbes
           THEN /\ slowPending' = TRUE /\ probesRun' = probesRun + 1
                /\ probes' = probes \union {[base |-> known, version |-> probesRun + 1]}
           ELSE slowPending' = ~idle /\ UNCHANGED <<probes, probesRun>>

\* The collection ends, completely or with an empty result after a panic, and
\* its outcome goes into the channel once there is room.
ProbeEnds(p) ==
    /\ slowResults = <<>>
    /\ probes' = probes \ {p}
    /\ \E v \in {p.base, p.version} : slowResults' = <<[base |-> p.base, version |-> v]>>
    /\ UNCHANGED <<assets, slowPending, probesRun>>

ProbesInit == assets = 0 /\ slowPending = FALSE /\ probes = {} /\ slowResults = <<>> /\ probesRun = 0

ProbesNext ==
    \/ \E due \in BOOLEAN : RefreshSlow(due)
    \/ \E p \in probes : ProbeEnds(p)

\* The channel and the sampler run side by side and share no state.
ClientNext ==
    \/ ChannelNext /\ UNCHANGED probeVars
    \/ ProbesNext /\ UNCHANGED channelVars

ClientSpec == ChannelInit /\ ProbesInit /\ [][ClientNext]_<<channelVars, probeVars>>

----------------------------------------------------------------------------
(* Properties.                                                             *)

\* A collector is never entered twice at a time, although a job may outlive
\* its connection and the next one asks for the same topic (busy in connect).
OneJobPerTopic == \A j, k \in liveJobs : j.topic = k.topic => j = k

\* What was acknowledged is answered: the reader or a handler still has it in
\* hand, unless the connection is being closed (connect, safeHandle).
AcknowledgedIsAnswered ==
    \A id \in unanswered : reading.id = id \/ \E j \in liveJobs : j.id = id /\ j.at = "handler"

\* Types; a topic is occupied exactly while a goroutine will release it, so no
\* topic is lost to a connection that ended (the deferred delete in connect).
LiveClientTypeOK ==
    /\ phase \in {"none", "enroll", "hello", "ready"} /\ (phase = "none" <=> conn = 0)
    /\ conn \in 0 .. sessions /\ cancelled \subseteq 1 .. sessions /\ connEdition \in 0 .. edition
    /\ unanswered \subseteq 1 .. liveRequests /\ (unanswered # {} => phase = "ready" /\ conn \notin cancelled)
    /\ busyTopics = {j.topic : j \in liveJobs}

\* At most one slow collection runs or waits to be taken, so its send never
\* blocks, and its outcome extends the cache it will replace: no finding of
\* another collection is lost (slowPending, refreshSlowAsync).
ProbesNeverBlock ==
    /\ Cardinality(probes) + Len(slowResults) = IF slowPending THEN 1 ELSE 0
    /\ \A p \in probes : p.base = assets
    /\ slowResults # <<>> => Head(slowResults).base = assets

\* What the agent's background work keeps true over lost connections and slow
\* collectors: one job per topic, each topic released again, one slow collection.
LiveClientSound == LiveClientTypeOK /\ OneJobPerTopic /\ ProbesNeverBlock
=============================================================================
