---------------------------- MODULE LiveRegistry ----------------------------
(***************************************************************************)
(* The Hub's live channel (apps/server/src/live): at most one agent socket *)
(* per device, leases renewed by heartbeats, and ephemeral reads that the  *)
(* viewers of a device share.  Credentials decide which installation may   *)
(* connect as a device (live/credentials.ts, here without its file).       *)
(*                                                                         *)
(* JavaScript callbacks are the atomic steps: HTTP handlers, socket events *)
(* and timers, in any order.  A socket may die long before its close event *)
(* is delivered, frames it received earlier may still be delivered, and a  *)
(* timer may fire late.                                                    *)
(***************************************************************************)
EXTENDS Integers, Sequences, FiniteSets

CONSTANTS
    Devices,         \* device ids
    Installation,    \* agent installations, each with its own token
    Sockets,         \* bound: the agent connections of a run
    Query,           \* bound: the device requests of a run
    Viewers,         \* HTTP requests that read live data
    Topic,           \* LiveTopic
    Nobody,          \* no session, no credential, no request
    HandshakeTime,   \* lease until the agent is ready (5 s)
    LeaseTime,       \* LIVE_LEASE_MS
    RequestTime,     \* LIVE_REQUEST_MS
    ResultTime,      \* LIVE_RESULT_TTL_MS
    TakeoverLimit,   \* LIVE_TAKEOVER_LIMIT
    TakeoverWindow,  \* LIVE_TAKEOVER_WINDOW_MS
    MaxPending,      \* outstanding requests over all sessions (256)
    MaxClock         \* bound: time

ASSUME LiveAssumption ==
    /\ Devices # {}
    /\ Nobody \notin Sockets \cup Query \cup Installation \cup Topic
    /\ HandshakeTime \in Nat \ {0} /\ LeaseTime \in Nat \ {0} /\ RequestTime \in Nat \ {0}
    /\ ResultTime \in Nat \ {0} /\ TakeoverLimit \in Nat \ {0} /\ TakeoverWindow \in Nat \ {0}
    /\ MaxPending \in Nat \ {0} /\ MaxClock \in Nat

VARIABLES
    current,    \* sessions: the session registered for each device
    session,    \* the AgentSession of each socket
    query,      \* the requests sent to devices
    viewer,     \* what each viewer waits for or got
    takeovers,  \* recent takeovers of each device
    bound,      \* the installation enrolled for each device
    resetting,  \* devices whose reset removed the credential but not yet the session
    closed,     \* the registry was closed
    now,        \* monotonic clock
    replaced    \* history: every takeover of a live session

vars == <<current, session, query, viewer, takeovers, bound, resetting, closed, now, replaced>>

NoResult  == [query |-> Nobody, at |-> 0]
NoSession == [stage |-> "unused", dev |-> CHOOSE d \in Devices : TRUE, inst |-> Nobody, open |-> FALSE,
              ready |-> FALSE, caps |-> {}, expires |-> 0, challenge |-> FALSE,
              results |-> [t \in Topic |-> NoResult]]
NoQuery   == [stage |-> "unused", by |-> Nobody, topic |-> Nobody,
              acked |-> FALSE, deadline |-> 0]

-----------------------------------------------------------------------------
(* Sessions *)

IsCurrent(s) == current[session[s].dev] = s

valid(s) == IsCurrent(s) /\ session[s].open /\ session[s].expires > now

Pendings == {q \in Query : query[q].stage = "pending"}

PendingOf(s) == {q \in Pendings : query[q].by = s}

\* A rejected request is forgotten, but for its id.
Ended(p, outcome) == [IF outcome = "done" THEN p ELSE NoQuery EXCEPT !.stage = outcome]

\* The requests in Q end; the viewers that share them get the outcome, and so
\* do the viewers in V.
FinishFor(Q, outcome, V) ==
    /\ query' = [q \in Query |-> IF q \in Q THEN Ended(query[q], outcome) ELSE query[q]]
    /\ viewer' = [v \in Viewers |->
         IF v \in V \/ (viewer[v].stage = "waiting" /\ viewer[v].query \in Q)
           THEN [stage |-> outcome, query |-> IF outcome = "done" THEN viewer[v].query ELSE Nobody]
           ELSE viewer[v]]

Finish(Q, outcome) == FinishFor(Q, outcome, {})

\* Mutant: whatever session the device has is unregistered.
UnregisteredAny(s) == [current EXCEPT ![session[s].dev] = Nobody]

Unregistered(s) == [d \in Devices |-> IF current[d] = s THEN Nobody ELSE current[d]]

\* A closed session keeps nothing but its socket's callbacks.
Gone(s, stage) == [NoSession EXCEPT !.stage = stage, !.dev = session[s].dev, !.inst = session[s].inst]

\* Mutant: the pending requests are dropped without being rejected.
DetachSilently(s, V) ==
    /\ current' = Unregistered(s)
    /\ session' = [session EXCEPT ![s] = Gone(s, session[s].stage)]
    /\ query' = [q \in Query |-> IF q \in PendingOf(s) THEN [query[q] EXCEPT !.stage = "failed"] ELSE query[q]]
    /\ viewer' = [v \in Viewers |-> IF v \in V THEN [viewer[v] EXCEPT !.stage = "failed"] ELSE viewer[v]]

\* detach: unregister the session if it is the registered one, reject what is
\* pending on it, close its transport.  The viewers in V learn of it too.
DetachFor(s, V) ==
    /\ current' = Unregistered(s)
    /\ session' = [session EXCEPT ![s] = Gone(s, session[s].stage)]
    /\ FinishFor(PendingOf(s), "failed", V)

Detach(s) == DetachFor(s, {})

\* preValidation: the credential is checked before the socket is upgraded.
Connect(s, d, i) ==
    /\ ~closed
    /\ session[s].stage = "unused"
    /\ bound[d] = i
    /\ session' = [session EXCEPT ![s] = [NoSession EXCEPT !.stage = "verified", !.dev = d, !.inst = i]]
    /\ UNCHANGED <<current, query, viewer, takeovers, bound, resetting, closed, now, replaced>>

\* Mutant: the window is one instant too short.
ExpiredEarly(d) == {i \in DOMAIN takeovers[d] : now - takeovers[d][i] >= TakeoverWindow - 1}

\* The takeovers that are no longer counted.
Expired(d) == {i \in DOMAIN takeovers[d] : now - takeovers[d][i] >= TakeoverWindow}

\* The filter of attach; the list is in order of time, so the expired ones come first.
Recent(d) == SubSeq(takeovers[d], Cardinality(Expired(d)) + 1, Len(takeovers[d]))

\* attach: a live session is replaced unless that happened too often lately.
Attach(s) ==
    LET d == session[s].dev  previous == current[d]
        live  == previous # Nobody /\ valid(previous)
        fresh == [session[s] EXCEPT !.stage = "attached", !.open = TRUE, !.expires = now + HandshakeTime]
    IN
    /\ session[s].stage = "verified"
    /\ \/ /\ closed \/ (live /\ Len(Recent(d)) >= TakeoverLimit)
          /\ session' = [session EXCEPT ![s] = Gone(s, "gone")]
          /\ takeovers' = IF closed THEN takeovers ELSE [takeovers EXCEPT ![d] = Recent(d)]
          /\ UNCHANGED <<current, query, viewer, replaced>>
       \/ /\ ~closed
          /\ ~(live /\ Len(Recent(d)) >= TakeoverLimit)
          /\ takeovers' = IF live THEN [takeovers EXCEPT ![d] = Append(Recent(d), now)] ELSE takeovers
          /\ replaced' = IF live THEN [replaced EXCEPT ![d] = Append(@, now)] ELSE replaced
          /\ current' = [current EXCEPT ![d] = s]
          /\ session' = [x \in Sockets |->
               IF x = s THEN fresh ELSE IF x = previous THEN Gone(x, session[x].stage) ELSE session[x]]
          /\ Finish({q \in Pendings : query[q].by = previous}, "failed")
    /\ UNCHANGED <<bound, resetting, closed, now>>

\* The peer is gone; nobody has noticed yet.
Disconnect(s) ==
    /\ session[s].open
    /\ session' = [session EXCEPT ![s].open = FALSE]
    /\ UNCHANGED <<current, query, viewer, takeovers, bound, resetting, closed, now, replaced>>

\* The close event, and a protocol violation, detach the session; after the
\* close event no frame and no heartbeat of the socket runs any more.
SocketClosed(s) ==
    /\ session[s].stage = "attached"
    /\ ~session[s].open
    /\ current' = Unregistered(s)
    /\ session' = [session EXCEPT ![s] = Gone(s, "gone")]
    /\ Finish(PendingOf(s), "failed")
    /\ UNCHANGED <<takeovers, bound, resetting, closed, now, replaced>>

BadFrame(s) ==
    /\ session[s].stage = "attached"
    /\ Detach(s)
    /\ UNCHANGED <<takeovers, bound, resetting, closed, now, replaced>>

\* ready; a second one, or one of a session that is no longer valid, detaches.
Ready(s, caps) ==
    /\ session[s].stage = "attached"
    /\ IF valid(s) /\ ~session[s].ready
         THEN /\ session' = [session EXCEPT ![s].ready = TRUE, ![s].caps = caps, ![s].expires = now + LeaseTime]
              /\ UNCHANGED <<current, query, viewer>>
         ELSE Detach(s)
    /\ UNCHANGED <<takeovers, bound, resetting, closed, now, replaced>>

\* Mutant: the credential is not looked at again.
StillBoundAlways(s) == TRUE

\* The heartbeat timer verifies the credential again.
StillBound(s) == bound[session[s].dev] = session[s].inst

\* The 5 s heartbeat timer; a ping that cannot be sent detaches.
Heartbeat(s) ==
    /\ session[s].stage = "attached"
    /\ \/ /\ StillBound(s) /\ valid(s)
          /\ session' = [session EXCEPT ![s].challenge = TRUE]
          /\ UNCHANGED <<current, query, viewer>>
       \/ Detach(s)
    /\ UNCHANGED <<takeovers, bound, resetting, closed, now, replaced>>

\* pong with the nonce of the outstanding challenge renews the lease.
Pong(s) ==
    /\ session[s].stage = "attached"
    /\ valid(s) /\ session[s].challenge
    /\ session' = [session EXCEPT ![s].challenge = FALSE, ![s].expires = now + LeaseTime]
    /\ UNCHANGED <<current, query, viewer, takeovers, bound, resetting, closed, now, replaced>>

-----------------------------------------------------------------------------
(* Reads *)

\* describe and read unregister a session they find expired or closed.
Describe(d) ==
    /\ current[d] # Nobody
    /\ ~valid(current[d])
    /\ Detach(current[d])
    /\ UNCHANGED <<takeovers, bound, resetting, closed, now, replaced>>

Usable(d) == current[d] # Nobody /\ valid(current[d]) /\ session[current[d]].ready

Cached(s, t) ==
    /\ session[s].results[t] # NoResult
    /\ now - session[s].results[t].at < ResultTime

\* Mutant: a request that was acknowledged is no longer shared.
InFlightUnacked(s, t) == {q \in PendingOf(s) : query[q].topic = t /\ ~query[q].acked}

InFlight(s, t) == {q \in PendingOf(s) : query[q].topic = t}

Reads(v) == viewer[v].stage # "waiting"

\* read, refused: no usable session (an invalid one is detached), no such
\* capability, or too many requests outstanding.
ReadRefused(v, d, t) ==
    LET s == current[d] IN
    /\ Reads(v)
    /\ \/ /\ ~Usable(d)
          /\ IF s # Nobody /\ ~valid(s) THEN DetachFor(s, {v})
             ELSE FinishFor({}, "failed", {v}) /\ UNCHANGED <<current, session>>
       \/ /\ Usable(d)
          /\ \/ t \notin session[s].caps
             \/ ~Cached(s, t) /\ InFlight(s, t) = {} /\ Cardinality(Pendings) >= MaxPending
          /\ FinishFor({}, "failed", {v})
          /\ UNCHANGED <<current, session>>
    /\ UNCHANGED <<takeovers, bound, resetting, closed, now, replaced>>

\* read, from a fresh result or by sharing the request in flight.
ReadShared(v, d, t) ==
    LET s == current[d] IN
    /\ Reads(v)
    /\ Usable(d)
    /\ t \in session[s].caps
    /\ \/ /\ Cached(s, t)
          /\ viewer' = [viewer EXCEPT ![v] = [stage |-> "done", query |-> session[s].results[t].query]]
       \/ /\ ~Cached(s, t)
          /\ \E q \in InFlight(s, t) : viewer' = [viewer EXCEPT ![v] = [stage |-> "waiting", query |-> q]]
    /\ UNCHANGED <<current, session, query, takeovers, bound, resetting, closed, now, replaced>>

\* read, with a new request; if it cannot be sent the session is detached.
ReadDevice(v, d, t, q) ==
    LET s == current[d] IN
    /\ Reads(v)
    /\ Usable(d)
    /\ t \in session[s].caps
    /\ ~Cached(s, t) /\ InFlight(s, t) = {} /\ Cardinality(Pendings) < MaxPending
    /\ query[q].stage = "unused"
    /\ \/ /\ query' = [query EXCEPT ![q] = [stage |-> "pending", by |-> s, topic |-> t, acked |-> FALSE,
                                            deadline |-> now + RequestTime]]
          /\ viewer' = [viewer EXCEPT ![v] = [stage |-> "waiting", query |-> q]]
          /\ UNCHANGED <<current, session>>
       \/ DetachFor(s, {v})
    /\ UNCHANGED <<takeovers, bound, resetting, closed, now, replaced>>

\* The request's timer, at its deadline or later.
Timeout(q) ==
    /\ q \in Pendings
    /\ now >= query[q].deadline
    /\ Finish({q}, "failed")
    /\ UNCHANGED <<current, session, takeovers, bound, resetting, closed, now, replaced>>

Acknowledge(s, q) ==
    /\ session[s].stage = "attached" /\ valid(s)
    /\ q \in PendingOf(s)
    /\ query' = [query EXCEPT ![q].acked = TRUE]
    /\ UNCHANGED <<current, session, viewer, takeovers, bound, resetting, closed, now, replaced>>

\* Mutant: the deadline is left to the timer.
InTimeAlways(q) == TRUE

\* The deadline itself is authoritative, not the timer.
InTime(q) == now < query[q].deadline

\* result: of a session that is not valid any more it only detaches that one.
Result(s, q) ==
    LET t == query[q].topic IN
    /\ session[s].stage = "attached"
    /\ \/ /\ ~valid(s)
          /\ Detach(s)
       \/ /\ valid(s) /\ q \in PendingOf(s) /\ query[q].acked /\ ~InTime(q)
          /\ Finish({q}, "failed")
          /\ UNCHANGED <<current, session>>
       \/ /\ valid(s) /\ q \in PendingOf(s) /\ query[q].acked /\ InTime(q)
          /\ session' = [session EXCEPT ![s].results[t] = [query |-> q, at |-> now]]
          /\ Finish({q}, "done")
          /\ UNCHANGED current
    /\ UNCHANGED <<takeovers, bound, resetting, closed, now, replaced>>

\* fail: the agent reports an error, or its result does not pass the schema.
Fail(s, q) ==
    /\ session[s].stage = "attached" /\ valid(s)
    /\ q \in PendingOf(s)
    /\ Finish({q}, "failed")
    /\ UNCHANGED <<current, session, takeovers, bound, resetting, closed, now, replaced>>

-----------------------------------------------------------------------------
(* Credentials, removal and shutdown *)

\* enroll: the first installation binds the device, another one is refused.
Enroll(d, i) ==
    /\ bound[d] = Nobody
    /\ bound' = [bound EXCEPT ![d] = i]
    /\ UNCHANGED <<current, session, query, viewer, takeovers, resetting, closed, now, replaced>>

\* Reset of a device's enrolment and removal of the device: credentials.remove,
\* then closeDevice once the credential file is written.
Reset(d) ==
    /\ ~closed
    /\ bound' = [bound EXCEPT ![d] = Nobody]
    /\ resetting' = resetting \cup {d}
    /\ UNCHANGED <<current, session, query, viewer, takeovers, closed, now, replaced>>

CloseDevice(d) ==
    /\ d \in resetting
    /\ resetting' = resetting \ {d}
    /\ IF current[d] = Nobody THEN UNCHANGED <<current, session, query, viewer>> ELSE Detach(current[d])
    /\ UNCHANGED <<takeovers, bound, closed, now, replaced>>

Close ==
    /\ ~closed
    /\ closed' = TRUE
    /\ current' = [d \in Devices |-> Nobody]
    /\ session' = [s \in Sockets |-> IF IsCurrent(s) THEN Gone(s, session[s].stage) ELSE session[s]]
    /\ Finish({q \in Pendings : IsCurrent(query[q].by)}, "failed")
    /\ UNCHANGED <<takeovers, bound, resetting, now, replaced>>

Tick ==
    /\ now < MaxClock
    /\ now' = now + 1
    /\ UNCHANGED <<current, session, query, viewer, takeovers, bound, resetting, closed, replaced>>

-----------------------------------------------------------------------------
Init ==
    /\ current = [d \in Devices |-> Nobody]
    /\ session = [s \in Sockets |-> NoSession]
    /\ query = [q \in Query |-> NoQuery]
    /\ viewer = [v \in Viewers |-> [stage |-> "idle", query |-> Nobody]]
    /\ takeovers = [d \in Devices |-> <<>>]
    /\ bound = [d \in Devices |-> Nobody]
    /\ resetting = {}
    /\ closed = FALSE
    /\ now = 0
    /\ replaced = [d \in Devices |-> <<>>]

SocketEvent(s) ==
    \/ Attach(s) \/ Disconnect(s) \/ SocketClosed(s) \/ BadFrame(s) \/ Pong(s)
    \/ \E caps \in SUBSET Topic : Ready(s, caps)
    \/ \E q \in Query : Acknowledge(s, q) \/ Result(s, q) \/ Fail(s, q)

Read(v, d) ==
    \E t \in Topic :
        ReadRefused(v, d, t) \/ ReadShared(v, d, t) \/ \E q \in Query : ReadDevice(v, d, t, q)

Next ==
    \/ \E s \in Sockets : SocketEvent(s) \/ Heartbeat(s) \/ \E d \in Devices, i \in Installation : Connect(s, d, i)
    \/ \E d \in Devices : Describe(d) \/ Reset(d) \/ CloseDevice(d)
                         \/ (\E i \in Installation : Enroll(d, i)) \/ \E v \in Viewers : Read(v, d)
    \/ \E q \in Query : Timeout(q)
    \/ Close \/ Tick

Spec == Init /\ [][Next]_vars

-----------------------------------------------------------------------------
(* Properties *)

\* Types; only a viewer that waits or was served has a request.
TypeOK ==
    /\ current \in [Devices -> Sockets \cup {Nobody}]
    /\ session \in [Sockets ->
         [stage : {"unused", "verified", "attached", "gone"}, dev : Devices, inst : Installation \cup {Nobody},
          open : BOOLEAN, ready : BOOLEAN, caps : SUBSET Topic, expires : Nat, challenge : BOOLEAN,
          results : [Topic -> [query : Query \cup {Nobody}, at : 0..MaxClock]]]]
    /\ query \in [Query -> [stage : {"unused", "pending", "done", "failed"}, by : Sockets \cup {Nobody},
                           topic : Topic \cup {Nobody}, acked : BOOLEAN, deadline : Nat]]
    /\ viewer \in [Viewers -> [stage : {"waiting", "done"}, query : Query]
                                \cup [stage : {"idle", "failed"}, query : {Nobody}]]
    /\ takeovers \in [Devices -> Seq(0..MaxClock)]
    /\ bound \in [Devices -> Installation \cup {Nobody}]
    /\ resetting \subseteq Devices
    /\ closed \in BOOLEAN
    /\ now \in 0..MaxClock
    /\ replaced \in [Devices -> Seq(0..MaxClock)]

\* However reconnects, late close events and frames of replaced sockets are
\* ordered, an open agent socket is the registered session of its device: the
\* cleanup of an old session never unregisters its replacement, and no replaced
\* socket is left open.
OpenIsRegistered ==
    \A s \in Sockets : session[s].open => IsCurrent(s) /\ session[s].stage = "attached"

\* The registry and the sockets agree, whatever is delivered late.
RegistrySound == TypeOK /\ OpenIsRegistered

\* What waits on a session waits on the registered one, so nobody waits for a
\* socket that was replaced or closed by the Hub; a waiting viewer has a request
\* that will settle.
NobodyWaitsInVain ==
    /\ \A q \in Pendings : IsCurrent(query[q].by)
    /\ \A v \in Viewers : viewer[v].stage = "waiting" => viewer[v].query \in Pendings

\* However many viewers poll and however often the agent reconnects, a device is
\* collecting a topic for at most one outstanding request.
OneCollectionPerTopic ==
    \A p, q \in Pendings :
        session[query[p].by].dev = session[query[q].by].dev /\ query[p].topic = query[q].topic => p = q

\* No more than the allowed number of takeovers of a live session happen within
\* any window of time.
TakeoversLimited ==
    \A d \in Devices : \A i \in 1..(Len(replaced[d]) - TakeoverLimit) :
        replaced[d][i + TakeoverLimit] - replaced[d][i] >= TakeoverWindow

\* A viewer only ever gets a result that arrived before its request's deadline,
\* on the registered session while its lease ran, and that is not older than the
\* sharing time, even when timers fire late.
ServedFresh ==
    [][\A v \in Viewers : viewer'[v].stage = "done" /\ viewer[v] # viewer'[v] =>
          LET q == viewer'[v].query  s == query[q].by IN
          /\ valid(s) /\ session[s].ready
          /\ query'[q].stage = "done" /\ query[q].acked
          /\ query[q].stage = "pending" => now < query[q].deadline
          /\ now - session'[s].results[query[q].topic].at < ResultTime]_viewer

\* Every read whose deadline is within the run's time is answered, by a result,
\* an error or its timeout.
ReadsAnswered ==
    \A v \in Viewers, q \in Query :
        viewer[v] = [stage |-> "waiting", query |-> q] /\ query[q].deadline <= MaxClock
            ~> viewer[v] # [stage |-> "waiting", query |-> q]

\* A session whose enrolment was removed ends, even one whose credential was
\* checked just before the removal and that attached just after it.
RevokedEnds ==
    \A s \in Sockets :
        session[s].open /\ bound[session[s].dev] # session[s].inst
            ~> ~session[s].open \/ bound[session[s].dev] = session[s].inst

=============================================================================
