------------------------- MODULE LiveRegistryProofs -------------------------
(***************************************************************************)
(* Machine-checked theorems about LiveRegistry, for any devices, sockets,  *)
(* requests, viewers and times.                                            *)
(***************************************************************************)
EXTENDS LiveRegistry, TLAPS, FiniteSetTheorems, SequenceTheorems, WellFoundedInduction

Stages == {"unused", "verified", "attached", "gone"}
Results == [query : Query \cup {Nobody}, at : 0..MaxClock]
Sessions ==
    [stage : Stages, dev : Devices, inst : Installation \cup {Nobody},
     open : BOOLEAN, ready : BOOLEAN, caps : SUBSET Topic, expires : Nat, challenge : BOOLEAN,
     results : [Topic -> Results]]
Queries ==
    [stage : {"unused", "pending", "done", "failed"}, by : Sockets \cup {Nobody},
     topic : Topic \cup {Nobody}, acked : BOOLEAN, deadline : Nat]
ViewerStates ==
    [stage : {"waiting", "done"}, query : Query] \cup [stage : {"idle", "failed"}, query : {Nobody}]

\* The two halves of TypeOK: what reads and sockets change, and the rest.
CoreTypes ==
    /\ current \in [Devices -> Sockets \cup {Nobody}]
    /\ session \in [Sockets -> Sessions]
    /\ query \in [Query -> Queries]
    /\ viewer \in [Viewers -> ViewerStates]

RestTypes ==
    /\ takeovers \in [Devices -> Seq(0..MaxClock)]
    /\ bound \in [Devices -> Installation \cup {Nobody}]
    /\ resetting \subseteq Devices
    /\ closed \in BOOLEAN
    /\ now \in 0..MaxClock
    /\ replaced \in [Devices -> Seq(0..MaxClock)]

\* What is registered for a device is a socket of that device.
RegisteredIsAttached ==
    \A d \in Devices : current[d] # Nobody =>
        session[current[d]].stage = "attached" /\ session[current[d]].dev = d

\* A result that is kept answers an acknowledged request of the same session.
ResultsKept ==
    \A s \in Sockets, t \in Topic :
        LET r == session[s].results[t] IN
        r # NoResult =>
            /\ r.query \in Query
            /\ query[r.query].stage = "done" /\ query[r.query].acked
            /\ query[r.query].by = s /\ query[r.query].topic = t

\* What waits was sent over a socket that had become ready.
PendingServed ==
    \A q \in Pendings : query[q].by \in Sockets /\ session[query[q].by].ready /\ query[q].topic \in Topic

CoreInv ==
    /\ CoreTypes /\ RegisteredIsAttached /\ ResultsKept /\ PendingServed
    /\ OpenIsRegistered /\ NobodyWaitsInVain /\ OneCollectionPerTopic

\* The counted takeovers of a device are the last of all its takeovers, which
\* are in order of time; the others are older than the window.
TakeoversOf(all, counted) ==
    /\ \A i, j \in 1..Len(all) : i <= j => all[i] <= all[j]
    /\ \A i \in 1..Len(all) : all[i] <= now
    /\ Len(counted) <= Len(all)
    /\ \A i \in 1..Len(counted) : counted[i] = all[Len(all) - Len(counted) + i]
    /\ \A i \in 1..(Len(all) - Len(counted)) : now - all[i] >= TakeoverWindow
TakeoversKept == \A d \in Devices : TakeoversOf(replaced[d], takeovers[d])

RestInv == RestTypes /\ TakeoversKept /\ TakeoversLimited

RegistryInv == CoreInv /\ RestInv

-----------------------------------------------------------------------------
(* Sessions that end *)

\* The assumptions that the types need, in one place.
LEMMA Constants ==
    /\ Nobody \notin Sockets /\ Nobody \notin Query /\ Nobody \notin Topic
    /\ \A t \in {HandshakeTime, LeaseTime, RequestTime, ResultTime, TakeoverWindow, TakeoverLimit} : t \in Nat /\ t > 0
    /\ MaxClock \in Nat
BY LiveAssumption

LEMMA NoSessionFacts ==
    /\ NoSession \in Sessions /\ NoResult \in Results
    /\ NoSession.open = FALSE /\ NoSession.ready = FALSE
    /\ \A t \in Topic : NoSession.results[t] = NoResult
<1>1. (CHOOSE d \in Devices : TRUE) \in Devices
  BY LiveAssumption
<1>2. NoResult \in Results
  BY Constants DEF NoResult, Results
<1>3. QED
  BY <1>1, <1>2 DEF NoSession, Sessions, Stages

\* What is left of a closed session.
LEMMA GoneFacts ==
    ASSUME CoreTypes, NEW s \in Sockets, NEW stage \in Stages
    PROVE  /\ Gone(s, stage) \in Sessions
           /\ Gone(s, stage).stage = stage /\ Gone(s, stage).dev = session[s].dev
           /\ Gone(s, stage).open = FALSE /\ Gone(s, stage).ready = FALSE
           /\ \A t \in Topic : Gone(s, stage).results[t] = NoResult
<1>1. session[s] \in Sessions
  BY DEF CoreTypes
<1>2. QED
  BY <1>1, NoSessionFacts DEF Gone, Sessions

LEMMA EndedFacts ==
    ASSUME NEW p \in Queries
    PROVE  /\ Ended(p, "failed") \in Queries /\ Ended(p, "failed").stage = "failed"
           /\ Ended(p, "done") = [p EXCEPT !.stage = "done"]
BY DEF Ended, NoQuery, Queries

\* A viewer that shares no request of Q keeps what it has.
Unaffected(v, Q) ==
    /\ viewer'[v] = viewer[v]
    /\ ~(viewer[v].stage = "waiting" /\ viewer[v].query \in Q)

\* What FinishFor does to requests and viewers when the requests in Q fail.
LEMMA FinishFails ==
    ASSUME CoreTypes, NEW Q \in SUBSET Pendings, NEW V, FinishFor(Q, "failed", V)
    PROVE  /\ query' \in [Query -> Queries]
           /\ viewer' \in [Viewers -> ViewerStates]
           /\ Pendings' = Pendings \ Q
           /\ \A q \in Query \ Q : query'[q] = query[q]
           /\ \A q \in Q : query'[q].stage = "failed"
           /\ \A v \in Viewers : Unaffected(v, Q) \/ viewer'[v].stage = "failed"
<1>1. \A q \in Query : query[q] \in Queries
  BY DEF CoreTypes
<1>2. Q \subseteq Query
  BY DEF Pendings
<1>3. query' = [q \in Query |-> IF q \in Q THEN Ended(query[q], "failed") ELSE query[q]]
  BY DEF FinishFor
<1>4. query' \in [Query -> Queries]
  BY <1>1, <1>3, EndedFacts
<1>5. \A q \in Query : query'[q] = IF q \in Q THEN Ended(query[q], "failed") ELSE query[q]
  BY <1>3
<1>6. \A q \in Q : query'[q].stage = "failed"
  BY <1>1, <1>2, <1>5, EndedFacts
<1>7. Pendings' = Pendings \ Q
  BY <1>2, <1>5, <1>6 DEF Pendings
<1>8. /\ viewer' = [v \in Viewers |->
              IF v \in V \/ (viewer[v].stage = "waiting" /\ viewer[v].query \in Q)
                THEN [stage |-> "failed", query |-> Nobody] ELSE viewer[v]]
  BY DEF FinishFor
<1>9. viewer' \in [Viewers -> ViewerStates]
  <2>1. [stage |-> "failed", query |-> Nobody] \in ViewerStates
    BY DEF ViewerStates
  <2>2. \A v \in Viewers : viewer[v] \in ViewerStates
    BY DEF CoreTypes
  <2>3. QED
    BY <1>8, <2>1, <2>2
<1>10. QED
  BY <1>2, <1>4, <1>5, <1>6, <1>7, <1>8, <1>9 DEF Unaffected

\* Requests that fail on their own leave the registry sound.
LEMMA FailStep ==
    ASSUME CoreInv, NEW Q \in SUBSET Pendings, NEW V, FinishFor(Q, "failed", V), UNCHANGED <<current, session>>
    PROVE  CoreInv'
<1> USE DEF CoreInv
<1>1. /\ query' \in [Query -> Queries]
      /\ viewer' \in [Viewers -> ViewerStates]
      /\ Pendings' = Pendings \ Q
      /\ \A q \in Query \ Q : query'[q] = query[q]
      /\ \A v \in Viewers : Unaffected(v, Q) \/ viewer'[v].stage = "failed"
  BY FinishFails
<1>2. CoreTypes' /\ RegisteredIsAttached' /\ OpenIsRegistered'
  BY <1>1 DEF CoreTypes, RegisteredIsAttached, OpenIsRegistered, IsCurrent
<1>3. \A q \in Query : query[q].stage = "done" => q \notin Q
  BY DEF Pendings
<1>4. ResultsKept'
  BY <1>1, <1>3 DEF ResultsKept
<1>5. \A q \in Pendings' : q \in Pendings /\ query'[q] = query[q]
  BY <1>1 DEF Pendings
<1>6. PendingServed' /\ OneCollectionPerTopic'
  BY <1>5 DEF PendingServed, OneCollectionPerTopic
<1>7. NobodyWaitsInVain'
  BY <1>1, <1>5 DEF NobodyWaitsInVain, IsCurrent, Unaffected
<1>8. QED
  BY <1>2, <1>4, <1>6, <1>7

\* detach, and the close event, which marks the session gone as well.
LEMMA DetachStep ==
    ASSUME CoreInv, NEW s \in Sockets, NEW stage \in {session[s].stage, "gone"}, NEW V,
           current' = Unregistered(s), session' = [session EXCEPT ![s] = Gone(s, stage)],
           FinishFor(PendingOf(s), "failed", V)
    PROVE  CoreInv'
<1> USE DEF CoreInv
<1>1. PendingOf(s) \in SUBSET Pendings
  BY DEF PendingOf
<1>2. /\ query' \in [Query -> Queries]
      /\ viewer' \in [Viewers -> ViewerStates]
      /\ Pendings' = Pendings \ PendingOf(s)
      /\ \A q \in Query \ PendingOf(s) : query'[q] = query[q]
      /\ \A v \in Viewers : Unaffected(v, PendingOf(s)) \/ viewer'[v].stage = "failed"
  BY <1>1, FinishFails
<1>3. stage \in Stages /\ session \in [Sockets -> Sessions]
  BY DEF CoreTypes, Sessions, Stages
<1>4. /\ session' \in [Sockets -> Sessions]
      /\ \A x \in Sockets \ {s} : session'[x] = session[x]
      /\ session'[s].dev = session[s].dev /\ session'[s].open = FALSE
      /\ \A t \in Topic : session'[s].results[t] = NoResult
  BY <1>3, GoneFacts
<1>5. /\ current' \in [Devices -> Sockets \cup {Nobody}]
      /\ \A d \in Devices : current'[d] = IF current[d] = s THEN Nobody ELSE current[d]
  BY DEF Unregistered, CoreTypes
<1>6. CoreTypes'
  BY <1>2, <1>4, <1>5 DEF CoreTypes
<1>7. RegisteredIsAttached'
  BY <1>4, <1>5, Constants DEF RegisteredIsAttached, CoreTypes
<1>8. \A x \in Sockets \ {s} : IsCurrent(x) => IsCurrent(x)'
  <2>1. \A x \in Sockets : session[x].dev \in Devices
    BY <1>3 DEF Sessions
  <2>2. QED
    BY <1>4, <1>5, <2>1 DEF IsCurrent
<1>9. OpenIsRegistered'
  BY <1>4, <1>8 DEF OpenIsRegistered
<1>10. ResultsKept'
  <2>1. \A q \in Query : query[q].stage = "done" => q \notin PendingOf(s)
    BY DEF PendingOf, Pendings
  <2>2. QED
    BY <1>2, <1>4, <2>1 DEF ResultsKept
<1>11. \A q \in Pendings' : q \in Pendings /\ query'[q] = query[q] /\ query[q].by # s
  BY <1>2 DEF PendingOf, Pendings
<1>12. PendingServed' /\ OneCollectionPerTopic'
  BY <1>4, <1>11 DEF PendingServed, OneCollectionPerTopic
<1>13. NobodyWaitsInVain'
  BY <1>2, <1>8, <1>11 DEF NobodyWaitsInVain, PendingServed, Unaffected
<1>14. QED
  BY <1>6, <1>7, <1>9, <1>10, <1>12, <1>13

LEMMA DetachForStep ==
    ASSUME CoreInv, NEW s \in Sockets, NEW V, DetachFor(s, V)
    PROVE  CoreInv'
BY DetachStep DEF DetachFor

-----------------------------------------------------------------------------
(* Sockets *)

\* A change of one session that keeps what the registry relies on.
LEMMA SessionStep ==
    ASSUME CoreInv, NEW s \in Sockets, NEW new \in Sessions,
           session' = [session EXCEPT ![s] = new],
           UNCHANGED <<current, query, viewer>>,
           new.dev = session[s].dev, new.stage = session[s].stage, new.results = session[s].results,
           new.open => session[s].open, session[s].ready => new.ready
    PROVE  CoreInv'
<1> USE DEF CoreInv
<1>1. /\ session' \in [Sockets -> Sessions]
      /\ \A x \in Sockets : session'[x] = IF x = s THEN new ELSE session[x]
  BY DEF CoreTypes
<1>2. \A x \in Sockets : /\ session'[x].dev = session[x].dev /\ session'[x].stage = session[x].stage
                         /\ session'[x].results = session[x].results
                         /\ session'[x].open => session[x].open
                         /\ session[x].ready => session'[x].ready
  BY <1>1
<1>3. CoreTypes'
  BY <1>1 DEF CoreTypes
<1>4. RegisteredIsAttached' /\ OpenIsRegistered' /\ ResultsKept'
  BY <1>2 DEF RegisteredIsAttached, OpenIsRegistered, ResultsKept, IsCurrent, CoreTypes
<1>5. Pendings' = Pendings
  BY DEF Pendings
<1>6. PendingServed'
  BY <1>2, <1>5 DEF PendingServed
<1>7. NobodyWaitsInVain' /\ OneCollectionPerTopic'
  BY <1>2, <1>5 DEF NobodyWaitsInVain, OneCollectionPerTopic, PendingServed, IsCurrent
<1>8. QED
  BY <1>3, <1>4, <1>6, <1>7

LEMMA ConnectStep ==
    ASSUME CoreInv, NEW s \in Sockets, NEW d \in Devices, NEW i \in Installation, Connect(s, d, i)
    PROVE  CoreInv'
<1> USE DEF CoreInv
<1> DEFINE new == [NoSession EXCEPT !.stage = "verified", !.dev = d, !.inst = i]
<1>1. /\ session[s].stage = "unused" /\ session' = [session EXCEPT ![s] = new]
      /\ UNCHANGED <<current, query, viewer>>
  BY DEF Connect
<1>2. /\ new \in Sessions /\ new.open = FALSE /\ \A t \in Topic : new.results[t] = NoResult
  BY NoSessionFacts DEF Sessions, Stages
<1> HIDE DEF new
<1>3. /\ session' \in [Sockets -> Sessions]
      /\ \A x \in Sockets : session'[x] = IF x = s THEN new ELSE session[x]
  BY <1>1, <1>2 DEF CoreTypes
<1>4. \A d1 \in Devices : current[d1] # s
  BY <1>1, Constants DEF RegisteredIsAttached
<1>5. Pendings' = Pendings
  BY <1>1 DEF Pendings
<1>6. \A q \in Pendings : query[q].by \in Sockets /\ query[q].by # s
  <2>1. \A q \in Pendings : session[query[q].by].dev \in Devices
    BY DEF PendingServed, CoreTypes, Sessions
  <2>2. QED
    BY <1>4, <2>1 DEF PendingServed, NobodyWaitsInVain, IsCurrent
<1>7. CoreTypes' /\ RegisteredIsAttached' /\ OpenIsRegistered' /\ ResultsKept'
  BY <1>1, <1>2, <1>3, <1>4 DEF CoreTypes, RegisteredIsAttached, OpenIsRegistered, ResultsKept, IsCurrent
<1>8. PendingServed' /\ NobodyWaitsInVain' /\ OneCollectionPerTopic'
  BY <1>1, <1>3, <1>5, <1>6 DEF PendingServed, NobodyWaitsInVain, OneCollectionPerTopic, IsCurrent
<1>9. QED
  BY <1>7, <1>8

\* attach: the session of the device before this one ends in the same step.
LEMMA AttachStep ==
    ASSUME CoreInv, RestTypes, NEW s \in Sockets, Attach(s)
    PROVE  CoreInv'
<1> USE DEF CoreInv
<1> DEFINE d == session[s].dev
           previous == current[d]
           fresh == [session[s] EXCEPT !.stage = "attached", !.open = TRUE, !.expires = now + HandshakeTime]
<1>1. session[s] \in Sessions /\ d \in Devices /\ session[s].stage = "verified"
  BY DEF CoreTypes, Sessions, Attach
<1>2. \A e \in Devices : current[e] # s
  BY <1>1, Constants DEF RegisteredIsAttached
<1>3. \A q \in Pendings : query[q].by \in Sockets /\ query[q].by # s /\ session[query[q].by].dev \in Devices
  <2>1. \A q \in Pendings : session[query[q].by].dev \in Devices
    BY DEF PendingServed, CoreTypes, Sessions
  <2>2. QED
    BY <1>2, <2>1 DEF PendingServed, NobodyWaitsInVain, IsCurrent
<1>4. CASE session' = [session EXCEPT ![s] = Gone(s, "gone")] /\ UNCHANGED <<current, query, viewer>>
  <2>1. /\ Gone(s, "gone") \in Sessions /\ Gone(s, "gone").open = FALSE
        /\ \A t \in Topic : Gone(s, "gone").results[t] = NoResult
    BY GoneFacts DEF Stages
  <2>2. /\ session' \in [Sockets -> Sessions]
        /\ \A x \in Sockets : session'[x] = IF x = s THEN Gone(s, "gone") ELSE session[x]
    BY <1>4, <2>1 DEF CoreTypes
  <2>3. Pendings' = Pendings
    BY <1>4 DEF Pendings
  <2>4. CoreTypes' /\ RegisteredIsAttached' /\ OpenIsRegistered' /\ ResultsKept'
    BY <1>2, <1>4, <2>1, <2>2 DEF CoreTypes, RegisteredIsAttached, OpenIsRegistered, ResultsKept, IsCurrent
  <2>5. PendingServed' /\ NobodyWaitsInVain' /\ OneCollectionPerTopic'
    BY <1>3, <1>4, <2>2, <2>3 DEF PendingServed, NobodyWaitsInVain, OneCollectionPerTopic, IsCurrent
  <2>6. QED
    BY <2>4, <2>5
<1>5. CASE /\ current' = [current EXCEPT ![d] = s]
           /\ session' = [x \in Sockets |->
                IF x = s THEN fresh ELSE IF x = previous THEN Gone(x, session[x].stage) ELSE session[x]]
           /\ Finish({q \in Pendings : query[q].by = previous}, "failed")
  <2> DEFINE Q == {q \in Pendings : query[q].by = previous}
  <2>1. FinishFor(Q, "failed", {}) /\ Q \in SUBSET Pendings
    BY <1>5 DEF Finish
  <2>2. /\ query' \in [Query -> Queries]
        /\ viewer' \in [Viewers -> ViewerStates]
        /\ Pendings' = Pendings \ Q
        /\ \A q \in Query \ Q : query'[q] = query[q]
        /\ \A v \in Viewers : Unaffected(v, Q) \/ viewer'[v].stage = "failed"
    BY <2>1, FinishFails
  <2>3. /\ fresh \in Sessions /\ fresh.dev = d /\ fresh.stage = "attached"
        /\ fresh.results = session[s].results /\ fresh.open = TRUE
    <3>1. now + HandshakeTime \in Nat /\ "attached" \in Stages
      BY Constants DEF RestTypes, Stages
    <3>2. QED
      BY <1>1, <3>1 DEF Sessions
  <2> HIDE DEF fresh, Q
  <2>4. /\ session' \in [Sockets -> Sessions]
        /\ session'[s] = fresh
        /\ \A x \in Sockets \ {s, previous} : session'[x] = session[x]
        /\ previous \in Sockets =>
              /\ session'[previous].open = FALSE
              /\ \A t \in Topic : session'[previous].results[t] = NoResult
    <3>1. \A x \in Sockets : /\ session[x].stage \in Stages /\ session[x] \in Sessions
      BY DEF CoreTypes, Sessions
    <3>2. \A x \in Sockets : /\ Gone(x, session[x].stage) \in Sessions
                             /\ Gone(x, session[x].stage).open = FALSE
                             /\ \A t \in Topic : Gone(x, session[x].stage).results[t] = NoResult
      BY <3>1, GoneFacts
    <3>3. previous # s
      BY <1>1, <1>2
    <3>4. QED
      BY <1>5, <2>3, <3>1, <3>2, <3>3
  <2>5. current' \in [Devices -> Sockets \cup {Nobody}] /\ \A e \in Devices : current'[e] = IF e = d THEN s ELSE current[e]
    BY <1>1, <1>5 DEF CoreTypes
  <2>6. \A x \in Sockets \ {s, previous} : IsCurrent(x) => IsCurrent(x)'
    <3>1. \A x \in Sockets : session[x].dev \in Devices
      BY DEF CoreTypes, Sessions
    <3>2. QED
      BY <2>4, <2>5, <3>1 DEF IsCurrent
  <2>7. CoreTypes'
    BY <2>2, <2>4, <2>5 DEF CoreTypes
  <2>8. RegisteredIsAttached'
    <3>1. \A e \in Devices : e # d /\ current[e] # Nobody => current[e] # previous /\ current[e] # s
      BY <1>1, <1>2 DEF RegisteredIsAttached
    <3>2. QED
      BY <2>3, <2>4, <2>5, <3>1 DEF RegisteredIsAttached, CoreTypes
  <2>9. IsCurrent(s)'
    BY <1>1, <2>3, <2>4, <2>5 DEF IsCurrent
  <2>10. OpenIsRegistered'
    BY <2>3, <2>4, <2>6, <2>9 DEF OpenIsRegistered
  <2>11. ResultsKept'
    <3>1. \A q \in Query : query[q].stage = "done" => q \notin Q
      BY DEF Pendings, Q
    <3>2. \A x \in Sockets, t \in Topic :
             session'[x].results[t] = session[x].results[t] \/ session'[x].results[t] = NoResult
      BY <2>3, <2>4
    <3>3. QED
      BY <2>2, <3>1, <3>2 DEF ResultsKept
  <2>12. \A q \in Pendings' : /\ q \in Pendings /\ query'[q] = query[q]
                              /\ query[q].by \in Sockets \ {s, previous}
    BY <1>3, <2>2 DEF Pendings, Q
  <2>13. PendingServed' /\ OneCollectionPerTopic'
    BY <2>4, <2>12 DEF PendingServed, OneCollectionPerTopic
  <2>14. NobodyWaitsInVain'
    BY <2>2, <2>6, <2>12 DEF NobodyWaitsInVain, Unaffected
  <2>15. QED
    BY <2>7, <2>8, <2>10, <2>11, <2>13, <2>14
<1>6. QED
  BY <1>4, <1>5 DEF Attach

\* Events and timers of one socket that has been attached.
LEMMA SocketSteps ==
    ASSUME CoreInv, RestTypes, NEW s \in Sockets,
           \/ Disconnect(s) \/ SocketClosed(s) \/ BadFrame(s) \/ Pong(s) \/ Heartbeat(s)
           \/ \E caps \in SUBSET Topic : Ready(s, caps)
    PROVE  CoreInv'
<1>1. session[s] \in Sessions
  BY DEF CoreInv, CoreTypes
<1>2. now + LeaseTime \in Nat
  BY Constants DEF RestTypes
<1>3. CASE Disconnect(s)
  <2> DEFINE new == [session[s] EXCEPT !.open = FALSE]
  <2>1. session' = [session EXCEPT ![s] = new] /\ UNCHANGED <<current, query, viewer>>
    BY <1>3 DEF Disconnect
  <2>2. /\ new \in Sessions /\ new.dev = session[s].dev /\ new.stage = session[s].stage
        /\ new.results = session[s].results /\ new.open = FALSE /\ new.ready = session[s].ready
    BY <1>1 DEF Sessions
  <2> HIDE DEF new
  <2>3. QED
    BY <2>1, <2>2, SessionStep
<1>4. CASE SocketClosed(s)
  BY <1>4, DetachStep DEF SocketClosed, Finish
<1>5. CASE BadFrame(s)
  BY <1>5, DetachForStep DEF BadFrame, Detach
<1>6. CASE Pong(s)
  <2> DEFINE new == [session[s] EXCEPT !.challenge = FALSE, !.expires = now + LeaseTime]
  <2>1. session' = [session EXCEPT ![s] = new] /\ UNCHANGED <<current, query, viewer>>
    BY <1>6 DEF Pong
  <2>2. /\ new \in Sessions /\ new.dev = session[s].dev /\ new.stage = session[s].stage
        /\ new.results = session[s].results /\ new.open = session[s].open /\ new.ready = session[s].ready
    BY <1>1, <1>2 DEF Sessions
  <2> HIDE DEF new
  <2>3. QED
    BY <2>1, <2>2, SessionStep
<1>7. CASE Heartbeat(s)
  <2> DEFINE new == [session[s] EXCEPT !.challenge = TRUE]
  <2>1. CASE session' = [session EXCEPT ![s] = new] /\ UNCHANGED <<current, query, viewer>>
    <3>1. /\ new \in Sessions /\ new.dev = session[s].dev /\ new.stage = session[s].stage
          /\ new.results = session[s].results /\ new.open = session[s].open /\ new.ready = session[s].ready
      BY <1>1 DEF Sessions
    <3> HIDE DEF new
    <3>2. QED
      BY <2>1, <3>1, SessionStep
  <2>2. CASE Detach(s)
    BY <2>2, DetachForStep DEF Detach
  <2>3. QED
    BY <1>7, <2>1, <2>2 DEF Heartbeat
<1>8. ASSUME NEW caps \in SUBSET Topic, Ready(s, caps) PROVE CoreInv'
  <2> DEFINE new == [session[s] EXCEPT !.ready = TRUE, !.caps = caps, !.expires = now + LeaseTime]
  <2>1. CASE session' = [session EXCEPT ![s] = new] /\ UNCHANGED <<current, query, viewer>>
    <3>1. /\ new \in Sessions /\ new.dev = session[s].dev /\ new.stage = session[s].stage
          /\ new.results = session[s].results /\ new.open = session[s].open /\ new.ready = TRUE
      BY <1>1, <1>2 DEF Sessions
    <3> HIDE DEF new
    <3>2. QED
      BY <2>1, <3>1, SessionStep
  <2>2. CASE Detach(s)
    BY <2>2, DetachForStep DEF Detach
  <2>3. QED
    BY <1>8, <2>1, <2>2 DEF Ready
<1>9. QED
  BY <1>3, <1>4, <1>5, <1>6, <1>7, <1>8

-----------------------------------------------------------------------------
(* Reads *)

LEMMA ReadSharedStep ==
    ASSUME CoreInv, NEW v \in Viewers, NEW d \in Devices, NEW t \in Topic, ReadShared(v, d, t)
    PROVE  CoreInv'
<1> USE DEF CoreInv
<1> DEFINE s == current[d]
<1>1. s \in Sockets /\ UNCHANGED <<current, session, query>>
  BY DEF ReadShared, Usable, CoreTypes
<1>2. \E q \in Query : \/ viewer' = [viewer EXCEPT ![v] = [stage |-> "done", query |-> q]]
                       \/ /\ q \in Pendings
                          /\ viewer' = [viewer EXCEPT ![v] = [stage |-> "waiting", query |-> q]]
  <2>1. Cached(s, t) => session[s].results[t].query \in Query
    BY <1>1 DEF Cached, ResultsKept
  <2>2. InFlight(s, t) \subseteq Pendings /\ Pendings \subseteq Query
    BY DEF InFlight, PendingOf, Pendings
  <2>3. QED
    BY <2>1, <2>2 DEF ReadShared
<1>3. CoreTypes' /\ NobodyWaitsInVain'
  <2>1. PICK q \in Query : \/ viewer' = [viewer EXCEPT ![v] = [stage |-> "done", query |-> q]]
                           \/ /\ q \in Pendings
                              /\ viewer' = [viewer EXCEPT ![v] = [stage |-> "waiting", query |-> q]]
    BY <1>2
  <2>2. \A w \in Viewers \ {v} : viewer'[w] = viewer[w]
    BY <2>1 DEF CoreTypes
  <2>3. \/ viewer'[v] = [stage |-> "done", query |-> q]
        \/ /\ q \in Pendings
           /\ viewer'[v] = [stage |-> "waiting", query |-> q]
    BY <2>1 DEF CoreTypes
  <2>4. Pendings' = Pendings
    BY <1>1 DEF Pendings
  <2>5. NobodyWaitsInVain'
    BY <1>1, <2>2, <2>3, <2>4 DEF NobodyWaitsInVain, IsCurrent
  <2>6. viewer' \in [Viewers -> ViewerStates]
    BY <2>1 DEF CoreTypes, ViewerStates
  <2>7. QED
    BY <1>1, <2>5, <2>6 DEF CoreTypes
<1>4. RegisteredIsAttached' /\ ResultsKept' /\ PendingServed' /\ OpenIsRegistered' /\ OneCollectionPerTopic'
  BY <1>1 DEF RegisteredIsAttached, ResultsKept, PendingServed, OpenIsRegistered, OneCollectionPerTopic, Pendings,
              IsCurrent
<1>5. QED
  BY <1>3, <1>4

\* A new request: no other one of the session is out for its topic.
LEMMA NewRequestStep ==
    ASSUME CoreInv, RestTypes, NEW v \in Viewers, NEW d \in Devices, NEW t \in Topic, NEW q \in Query,
           Usable(d), InFlight(current[d], t) = {}, query[q].stage = "unused",
           query' = [query EXCEPT ![q] = [stage |-> "pending", by |-> current[d], topic |-> t, acked |-> FALSE,
                                          deadline |-> now + RequestTime]],
           viewer' = [viewer EXCEPT ![v] = [stage |-> "waiting", query |-> q]],
           UNCHANGED <<current, session>>
    PROVE  CoreInv'
<1> USE DEF CoreInv
<1> DEFINE s == current[d]
           new == [stage |-> "pending", by |-> s, topic |-> t, acked |-> FALSE, deadline |-> now + RequestTime]
<1>1. s \in Sockets /\ session[s].dev = d /\ session[s].ready
  BY DEF Usable, CoreTypes, RegisteredIsAttached
<1>2. new \in Queries /\ new.stage = "pending" /\ new.by = s /\ new.topic = t
  BY <1>1, Constants DEF Queries, RestTypes
<1> HIDE DEF new
<1>3. query' \in [Query -> Queries] /\ \A p \in Query : query'[p] = IF p = q THEN new ELSE query[p]
  BY <1>2 DEF CoreTypes, new
<1>4. Pendings' = Pendings \cup {q} /\ q \notin Pendings
  BY <1>2, <1>3 DEF Pendings
<1>5. viewer' \in [Viewers -> ViewerStates] /\ viewer'[v] = [stage |-> "waiting", query |-> q]
        /\ \A w \in Viewers \ {v} : viewer'[w] = viewer[w]
  BY DEF CoreTypes, ViewerStates
<1>6. CoreTypes' /\ RegisteredIsAttached' /\ OpenIsRegistered'
  BY <1>3, <1>5 DEF CoreTypes, RegisteredIsAttached, OpenIsRegistered, IsCurrent
<1>7. ResultsKept'
  BY <1>3 DEF ResultsKept
<1>8. PendingServed'
  BY <1>1, <1>2, <1>3, <1>4 DEF PendingServed
<1>9. NobodyWaitsInVain'
  BY <1>1, <1>2, <1>3, <1>4, <1>5 DEF NobodyWaitsInVain, IsCurrent
<1>10. OneCollectionPerTopic'
  <2>1. ASSUME NEW p \in Pendings, session[query[p].by].dev = d PROVE query[p].topic # t
    <3>1. query[p].by = s
      BY <2>1 DEF NobodyWaitsInVain, IsCurrent
    <3>2. QED
      BY <3>1 DEF InFlight, PendingOf
  <2>2. \A p \in Pendings' \ {q} : p \in Pendings /\ query'[p] = query[p]
    BY <1>3, <1>4 DEF Pendings
  <2>3. query'[q] = new /\ session' = session
    BY <1>3
  <2>4. QED
    BY <1>1, <1>2, <2>1, <2>2, <2>3 DEF OneCollectionPerTopic
<1>11. QED
  BY <1>6, <1>7, <1>8, <1>9, <1>10

LEMMA ReadStep ==
    ASSUME CoreInv, RestTypes, NEW v \in Viewers, NEW d \in Devices, Read(v, d)
    PROVE  CoreInv'
<1>1. current[d] # Nobody => current[d] \in Sockets
  BY DEF CoreInv, CoreTypes
<1>2. ASSUME NEW t \in Topic, ReadRefused(v, d, t) PROVE CoreInv'
  <2>1. CASE current[d] # Nobody /\ DetachFor(current[d], {v})
    BY <1>1, <2>1, DetachForStep
  <2>2. CASE FinishFor({}, "failed", {v}) /\ UNCHANGED <<current, session>>
    BY <2>2, FailStep
  <2>3. QED
    BY <1>2, <2>1, <2>2 DEF ReadRefused
<1>3. ASSUME NEW t \in Topic, NEW q \in Query, ReadDevice(v, d, t, q) PROVE CoreInv'
  <2>1. Usable(d) /\ InFlight(current[d], t) = {} /\ query[q].stage = "unused"
    BY <1>3 DEF ReadDevice
  <2>2. CASE DetachFor(current[d], {v})
    BY <1>1, <2>1, <2>2, DetachForStep DEF Usable
  <2>3. QED
    BY <1>3, <2>1, <2>2, NewRequestStep DEF ReadDevice
<1>4. QED
  BY <1>2, <1>3, ReadSharedStep DEF Read

-----------------------------------------------------------------------------
(* Answers, timeouts, removal and shutdown *)

LEMMA AcknowledgeStep ==
    ASSUME CoreInv, NEW s \in Sockets, NEW q \in Query, Acknowledge(s, q)
    PROVE  CoreInv'
<1> USE DEF CoreInv
<1>1. q \in Pendings /\ query' = [query EXCEPT ![q].acked = TRUE] /\ UNCHANGED <<current, session, viewer>>
  BY DEF Acknowledge, PendingOf
<1>2. /\ query' \in [Query -> Queries]
      /\ \A p \in Query \ {q} : query'[p] = query[p]
      /\ query'[q].stage = "pending" /\ query'[q].by = query[q].by /\ query'[q].topic = query[q].topic
  BY <1>1 DEF CoreTypes, Queries, Pendings
<1>3. Pendings' = Pendings
  BY <1>1, <1>2 DEF Pendings
<1>4. \A p \in Query : query'[p].by = query[p].by /\ query'[p].topic = query[p].topic
  BY <1>2
<1>5. CoreTypes' /\ RegisteredIsAttached' /\ OpenIsRegistered'
  BY <1>1, <1>2 DEF CoreTypes, RegisteredIsAttached, OpenIsRegistered, IsCurrent
<1>6. ResultsKept'
  <2>1. query[q].stage # "done"
    BY <1>1 DEF Pendings
  <2>2. QED
    BY <1>1, <1>2, <2>1 DEF ResultsKept
<1>7. Pendings \subseteq Query
  BY DEF Pendings
<1>8. PendingServed'
  BY <1>1, <1>3, <1>4, <1>7 DEF PendingServed
<1>9. NobodyWaitsInVain'
  BY <1>1, <1>3, <1>4, <1>7 DEF NobodyWaitsInVain, IsCurrent
<1>10. OneCollectionPerTopic'
  BY <1>1, <1>3, <1>4, <1>7 DEF OneCollectionPerTopic
<1>11. QED
  BY <1>5, <1>6, <1>8, <1>9, <1>10

\* A result that is accepted: the request is over, and its result is kept.
LEMMA AcceptStep ==
    ASSUME CoreInv, RestTypes, NEW s \in Sockets, NEW q \in PendingOf(s), query[q].acked = TRUE,
           session' = [session EXCEPT ![s].results[query[q].topic] = [query |-> q, at |-> now]],
           Finish({q}, "done"), UNCHANGED current
    PROVE  CoreInv'
<1> USE DEF CoreInv
<1> DEFINE t == query[q].topic
           r == [query |-> q, at |-> now]
           new == [session[s] EXCEPT !.results = [@ EXCEPT ![t] = r]]
<1>1. q \in Pendings /\ q \in Query /\ query[q].by = s /\ t \in Topic
  BY DEF PendingOf, Pendings, PendingServed
<1>2. query[q] \in Queries /\ session[s] \in Sessions
  BY <1>1 DEF CoreTypes
<1>3. r \in Results
  BY <1>1 DEF Results, RestTypes
<1>4. new \in Sessions
  BY <1>1, <1>2, <1>3 DEF Sessions
<1>5. /\ session' \in [Sockets -> Sessions]
      /\ \A x \in Sockets \ {s} : session'[x] = session[x]
      /\ session'[s] = new
  BY <1>4 DEF CoreTypes
<1>6. /\ new.dev = session[s].dev /\ new.stage = session[s].stage
      /\ new.open = session[s].open /\ new.ready = session[s].ready
      /\ new.results[t] = r
      /\ \A u \in Topic : u # t => new.results[u] = session[s].results[u]
  BY <1>1, <1>2 DEF Sessions
<1> HIDE DEF new, r
<1>7. \A x \in Sockets : /\ session'[x].dev = session[x].dev /\ session'[x].stage = session[x].stage
                         /\ session'[x].open = session[x].open /\ session'[x].ready = session[x].ready
  BY <1>5, <1>6
<1>8. /\ query' = [p \in Query |-> IF p \in {q} THEN Ended(query[p], "done") ELSE query[p]]
      /\ viewer' = [v \in Viewers |->
            IF v \in {} \/ (viewer[v].stage = "waiting" /\ viewer[v].query \in {q})
              THEN [stage |-> "done", query |-> viewer[v].query] ELSE viewer[v]]
  BY DEF Finish, FinishFor
<1>9. /\ query'[q] = [query[q] EXCEPT !.stage = "done"]
      /\ \A p \in Query \ {q} : query'[p] = query[p]
  BY <1>1, <1>2, <1>8, EndedFacts
<1>10. query' \in [Query -> Queries]
  <2>1. query'[q] \in Queries
    BY <1>2, <1>9 DEF Queries
  <2>2. query' = [p \in Query |-> query'[p]]
    BY <1>8
  <2>3. QED
    BY <1>9, <2>1, <2>2 DEF CoreTypes
<1>11. /\ query'[q].stage = "done" /\ query'[q].acked = TRUE
       /\ query'[q].by = s /\ query'[q].topic = t
  BY <1>1, <1>2, <1>9 DEF Queries
<1>12. Pendings' = Pendings \ {q}
  BY <1>9, <1>11 DEF Pendings
<1>13. viewer' \in [Viewers -> ViewerStates]
  BY <1>1, <1>8 DEF CoreTypes, ViewerStates
<1>14. CoreTypes'
  BY <1>5, <1>10, <1>13 DEF CoreTypes
<1>15. RegisteredIsAttached' /\ OpenIsRegistered'
  BY <1>7 DEF RegisteredIsAttached, OpenIsRegistered, IsCurrent, CoreTypes
<1>16. ResultsKept'
  <2>1. SUFFICES ASSUME NEW x \in Sockets, NEW u \in Topic, session'[x].results[u] # NoResult
                 PROVE  /\ session'[x].results[u].query \in Query
                        /\ query'[session'[x].results[u].query].stage = "done"
                        /\ query'[session'[x].results[u].query].acked
                        /\ query'[session'[x].results[u].query].by = x
                        /\ query'[session'[x].results[u].query].topic = u
    BY DEF ResultsKept
  <2>2. CASE x = s /\ u = t
    <3>1. session'[x].results[u] = r
      <4>1. session'[s].results[t] = r
        BY <1>5, <1>6, Zenon
      <4>2. QED
        BY <2>2, <4>1, Zenon
    <3>2. session'[x].results[u].query = q
      BY <3>1 DEF r
    <3>3. QED
      BY <1>1, <1>11, <2>2, <3>2
  <2>3. CASE ~(x = s /\ u = t)
    <3>1. session'[x].results[u] = session[x].results[u]
      BY <1>5, <1>6, <2>3
    <3>2. query[q].stage # "done"
      BY <1>1 DEF Pendings
    <3>3. QED
      BY <1>9, <2>1, <3>1, <3>2 DEF ResultsKept
  <2>4. QED
    BY <2>2, <2>3
<1>17. \A p \in Pendings' : p \in Pendings /\ query'[p] = query[p] /\ query[p].by \in Sockets
  BY <1>9, <1>12 DEF Pendings, PendingServed
<1>18. PendingServed' /\ OneCollectionPerTopic'
  BY <1>7, <1>17 DEF PendingServed, OneCollectionPerTopic
<1>19. NobodyWaitsInVain'
  <2>1. \A p \in Pendings' : IsCurrent(query[p].by)'
    BY <1>7, <1>17 DEF NobodyWaitsInVain, IsCurrent
  <2>2. \A v \in Viewers : viewer'[v].stage = "waiting" => viewer'[v] = viewer[v] /\ viewer[v].query # q
    BY <1>8
  <2>3. QED
    BY <1>12, <1>17, <2>1, <2>2 DEF NobodyWaitsInVain
<1>20. QED
  BY <1>14, <1>15, <1>16, <1>18, <1>19

LEMMA AnswerSteps ==
    ASSUME CoreInv, RestTypes, NEW s \in Sockets, NEW q \in Query, Result(s, q) \/ Fail(s, q) \/ Timeout(q)
    PROVE  CoreInv'
<1>1. PendingOf(s) \subseteq Pendings
  BY DEF PendingOf
<1>2. CASE q \in Pendings /\ Finish({q}, "failed") /\ UNCHANGED <<current, session>>
  BY <1>2, FailStep DEF Finish
<1>3. CASE Detach(s)
  BY <1>3, DetachForStep DEF Detach
<1>4. CASE Result(s, q)
  <2>1. CASE /\ valid(s) /\ q \in PendingOf(s) /\ query[q].acked /\ InTime(q)
             /\ session' = [session EXCEPT ![s].results[query[q].topic] = [query |-> q, at |-> now]]
             /\ Finish({q}, "done")
             /\ UNCHANGED current
    <3>1. query[q].acked = TRUE
      BY <2>1 DEF CoreInv, CoreTypes, Queries
    <3>2. QED
      BY <2>1, <3>1, AcceptStep
  <2>2. QED
    BY <1>1, <1>2, <1>3, <1>4, <2>1 DEF Result
<1>5. QED
  BY <1>1, <1>2, <1>4 DEF Fail, Timeout

LEMMA CloseStep ==
    ASSUME CoreInv, Close
    PROVE  CoreInv'
<1> USE DEF CoreInv
<1> DEFINE Q == {q \in Pendings : IsCurrent(query[q].by)}
<1>1. Q = Pendings
  BY DEF NobodyWaitsInVain
<1>2. /\ query' \in [Query -> Queries]
      /\ viewer' \in [Viewers -> ViewerStates]
      /\ Pendings' = {}
      /\ \A q \in Query \ Pendings : query'[q] = query[q]
      /\ \A v \in Viewers : Unaffected(v, Pendings) \/ viewer'[v].stage = "failed"
  <2>1. FinishFor(Pendings, "failed", {})
    BY <1>1 DEF Close, Finish
  <2>2. QED
    BY <2>1, FinishFails
<1>3. \A x \in Sockets : /\ session[x] \in Sessions
                         /\ Gone(x, session[x].stage) \in Sessions
                         /\ Gone(x, session[x].stage).open = FALSE
                         /\ \A t \in Topic : Gone(x, session[x].stage).results[t] = NoResult
  <2>1. \A x \in Sockets : session[x] \in Sessions /\ session[x].stage \in Stages
    BY DEF CoreTypes, Sessions
  <2>2. QED
    BY <2>1, GoneFacts
<1>4. /\ session' \in [Sockets -> Sessions]
      /\ \A x \in Sockets :
            \/ session'[x] = session[x] /\ ~IsCurrent(x)
            \/ session'[x] = Gone(x, session[x].stage)
  BY <1>3 DEF Close
<1>5. current' = [d \in Devices |-> Nobody]
  BY DEF Close
<1>6. CoreTypes' /\ RegisteredIsAttached'
  BY <1>2, <1>4, <1>5 DEF CoreTypes, RegisteredIsAttached
<1>7. OpenIsRegistered'
  <2>1. \A x \in Sockets : session'[x].open = FALSE
    <3>1. \A x \in Sockets : ~IsCurrent(x) => session[x].open = FALSE
      BY DEF OpenIsRegistered, CoreTypes, Sessions
    <3>2. QED
      BY <1>3, <1>4, <3>1
  <2>2. QED
    BY <2>1 DEF OpenIsRegistered
<1>8. ResultsKept'
  <2>1. \A q \in Query : query[q].stage = "done" => q \notin Pendings
    BY DEF Pendings
  <2>2. \A x \in Sockets, t \in Topic :
           session'[x].results[t] = session[x].results[t] \/ session'[x].results[t] = NoResult
    BY <1>3, <1>4
  <2>3. QED
    BY <1>2, <2>1, <2>2 DEF ResultsKept
<1>9. PendingServed' /\ OneCollectionPerTopic'
  BY <1>2 DEF PendingServed, OneCollectionPerTopic
<1>10. NobodyWaitsInVain'
  BY <1>2 DEF NobodyWaitsInVain, Unaffected
<1>11. QED
  BY <1>6, <1>7, <1>8, <1>9, <1>10

LEMMA CoreUnchanged ==
    ASSUME CoreInv, UNCHANGED <<current, session, query, viewer>>
    PROVE  CoreInv'
BY DEF CoreInv, CoreTypes, RegisteredIsAttached, ResultsKept, PendingServed, OpenIsRegistered, NobodyWaitsInVain,
       OneCollectionPerTopic, Pendings, IsCurrent

LEMMA CoreStep ==
    ASSUME CoreInv, RestTypes, Next
    PROVE  CoreInv'
<1>1. ASSUME NEW s \in Sockets, SocketEvent(s) \/ Heartbeat(s) PROVE CoreInv'
  <2>1. CASE \E q \in Query : Acknowledge(s, q) \/ Result(s, q) \/ Fail(s, q)
    BY <2>1, AcknowledgeStep, AnswerSteps
  <2>2. CASE Attach(s)
    BY <2>2, AttachStep
  <2>3. QED
    BY <1>1, <2>1, <2>2, SocketSteps DEF SocketEvent
<1>2. ASSUME NEW d \in Devices, current[d] # Nobody, Detach(current[d]) PROVE CoreInv'
  <2>1. current[d] \in Sockets
    BY <1>2 DEF CoreInv, CoreTypes
  <2>2. QED
    BY <1>2, <2>1, DetachForStep DEF Detach
<1>3. ASSUME NEW d \in Devices, Describe(d) \/ Reset(d) \/ CloseDevice(d) \/ \E i \in Installation : Enroll(d, i)
      PROVE  CoreInv'
  <2>1. CASE Describe(d)
    BY <1>2, <2>1 DEF Describe
  <2>2. CASE CloseDevice(d)
    BY <1>2, <2>2, CoreUnchanged DEF CloseDevice
  <2>3. QED
    BY <1>3, <2>1, <2>2, CoreUnchanged DEF Reset, Enroll
<1>4. ASSUME NEW q \in Query, Timeout(q) PROVE CoreInv'
  <2>1. q \in Pendings /\ Finish({q}, "failed") /\ UNCHANGED <<current, session>>
    BY <1>4 DEF Timeout
  <2>2. QED
    BY <2>1, FailStep DEF Finish
<1>5. CASE Tick
  BY <1>5, CoreUnchanged DEF Tick
<1>6. QED
  BY <1>1, <1>3, <1>4, <1>5, CloseStep, ReadStep, ConnectStep DEF Next

-----------------------------------------------------------------------------
(* Takeovers *)

LEMMA NatMin ==
    ASSUME NEW T \in SUBSET Nat, T # {}
    PROVE  \E m \in T : \A n \in T : m <= n
<1> DEFINE R == OpToRel(<, Nat)
<1>1. IsWellFoundedOn(R, Nat)
  BY NatLessThanWellFounded
<1>2. \A x, y \in Nat : <<y, x>> \in R <=> y < x
  BY DEF OpToRel
<1> HIDE DEF R
<1>3. PICK m \in T : \A y \in T : ~(<<y, m>> \in R)
  BY <1>1, WFMin, Zenon
<1>4. ASSUME NEW y \in T PROVE m <= y
  <2>1. m \in Nat /\ y \in Nat /\ ~(y < m)
    BY <1>2, <1>3, Zenon
  <2>2. QED
    BY <2>1
<1>5. QED
  BY <1>4, Zenon

\* A set of positions that holds every position before one of its own is an
\* initial interval, as long as the set is large.
LEMMA InitialInterval ==
    ASSUME NEW n \in Nat, NEW S \in SUBSET (1..n), \A i \in 1..n, j \in S : i <= j => i \in S
    PROVE  Cardinality(S) \in 0..n /\ S = 1..Cardinality(S)
<1>1. \E k \in 0..n : S = 1..k
  <2> DEFINE T == (1..n) \ S
  <2>1. CASE T = {}
    <3>1. S = 1..n
      BY <2>1
    <3>2. QED
      BY <3>1
  <2>2. CASE T # {}
    <3>1. PICK m \in T : \A j \in T : m <= j
      <4>1. T \in SUBSET Nat
        OBVIOUS
      <4> HIDE DEF T
      <4>2. QED
        BY <2>2, <4>1, NatMin
    <3>2. S = 1..(m - 1)
      <4>1. \A i \in 1..(m - 1) : i \in S
        BY <3>1
      <4>2. \A i \in S : i \in 1..(m - 1)
        <5>1. SUFFICES ASSUME NEW i \in S, ~(i < m) PROVE FALSE
          OBVIOUS
        <5>2. m \in S
          BY <5>1
        <5>3. QED
          BY <5>2
      <4>3. QED
        BY <4>1, <4>2, Zenon
    <3>3. QED
      BY <3>2
  <2>3. QED
    BY <2>1, <2>2
<1>2. \A k \in 0..n : Cardinality(1..k) = k
  BY FS_Interval
<1>3. QED
  BY <1>1, <1>2, Zenon

\* The takeovers that attach still counts are the last ones, those within the window.
LEMMA RecentFacts ==
    ASSUME RestInv, NEW d \in Devices
    PROVE  /\ Recent(d) \in Seq(0..MaxClock)
           /\ TakeoversOf(replaced[d], Recent(d))
<1> DEFINE ts == takeovers[d]
           all == replaced[d]
           e == Cardinality(Expired(d))
<1>1. /\ ts \in Seq(0..MaxClock) /\ all \in Seq(0..MaxClock) /\ now \in Nat /\ TakeoversOf(all, ts)
      /\ Len(ts) \in Nat /\ Len(all) \in Nat /\ TakeoverWindow \in Nat
  BY Constants DEF RestInv, RestTypes, TakeoversKept
<1>2. \A i \in 1..Len(ts) : ts[i] \in Nat
  BY <1>1, Constants
<1>3. \A i \in 1..Len(all) : all[i] \in Nat
  BY <1>1, Constants
<1>4. Expired(d) = {i \in 1..Len(ts) : now - ts[i] >= TakeoverWindow}
  BY <1>1 DEF Expired
<1>5. ASSUME NEW i \in 1..Len(ts), NEW j \in 1..Len(ts), i <= j PROVE ts[i] <= ts[j]
  <2> DEFINE o == Len(all) - Len(ts)
  <2>1. o + i \in 1..Len(all) /\ o + j \in 1..Len(all) /\ o + i <= o + j
    <3>1. Len(ts) <= Len(all)
      BY <1>1 DEF TakeoversOf
    <3> HIDE DEF ts, all
    <3>2. QED
      BY <1>1, <1>5, <3>1
  <2>2. ts[i] = all[o + i] /\ ts[j] = all[o + j]
    BY <1>1 DEF TakeoversOf
  <2> HIDE DEF o
  <2>3. QED
    BY <1>1, <2>1, <2>2 DEF TakeoversOf
<1>6. e \in 0..Len(ts) /\ Expired(d) = 1..e
  <2>1. \A i \in 1..Len(ts), j \in Expired(d) : i <= j => i \in Expired(d)
    BY <1>1, <1>2, <1>4, <1>5
  <2>2. QED
    BY <1>1, <1>4, <2>1, InitialInterval
<1>7. \A i \in 1..e : now - ts[i] >= TakeoverWindow
  BY <1>4, <1>6
<1> HIDE DEF e, ts, all
<1>8. /\ Recent(d) \in Seq(0..MaxClock)
      /\ Len(Recent(d)) = Len(ts) - e
      /\ \A i \in 1..Len(Recent(d)) : Recent(d)[i] = ts[e + i]
  <2>1. Recent(d) = SubSeq(ts, e + 1, Len(ts))
    BY DEF Recent, e, ts
  <2>2. \A i \in (e + 1)..Len(ts) : ts[i] \in 0..MaxClock
    <3>1. \A i \in (e + 1)..Len(ts) : i \in 1..Len(ts)
      BY <1>1, <1>6
    <3>2. \A i \in 1..Len(ts) : ts[i] \in 0..MaxClock
      BY <1>1, ElementOfSeq
    <3>3. QED
      BY <3>1, <3>2
  <2>3. e + 1 \in Int /\ Len(ts) \in Int
    BY <1>1, <1>6
  <2>4. /\ Recent(d) \in Seq(0..MaxClock)
        /\ Len(Recent(d)) = IF e + 1 <= Len(ts) THEN Len(ts) - (e + 1) + 1 ELSE 0
        /\ \A i \in 1..(Len(ts) - (e + 1) + 1) : Recent(d)[i] = ts[(e + 1) + i - 1]
    BY <2>1, <2>2, <2>3, SubSeqProperties
  <2>5. QED
    BY <1>1, <1>6, <2>4
<1> DEFINE r == Recent(d)
<1> HIDE DEF r
<1>9. \A i \in 1..Len(r) : r[i] = all[Len(all) - Len(r) + i]
  BY <1>1, <1>6, <1>8 DEF TakeoversOf, r
<1>10. ASSUME NEW i \in 1..(Len(all) - Len(r)) PROVE now - all[i] >= TakeoverWindow
  <2>1. CASE i <= Len(all) - Len(ts)
    BY <1>1, <2>1 DEF TakeoversOf
  <2>2. CASE i > Len(all) - Len(ts)
    <3>1. i - (Len(all) - Len(ts)) \in 1..e
      BY <1>1, <1>6, <1>8, <2>2 DEF r
    <3>2. all[i] = ts[i - (Len(all) - Len(ts))]
      BY <1>1, <1>6, <3>1 DEF TakeoversOf
    <3>3. QED
      BY <1>7, <3>1, <3>2
  <2>3. QED
    BY <1>1, <2>1, <2>2
<1>11. QED
  BY <1>1, <1>6, <1>8, <1>9, <1>10 DEF TakeoversOf, r, all

\* A takeover is appended only if fewer than the limit happened within the window.
LEMMA TakeoverAppended ==
    ASSUME RestInv, NEW d \in Devices, Len(Recent(d)) < TakeoverLimit
    PROVE  /\ TakeoversOf(Append(replaced[d], now), Append(Recent(d), now))
           /\ \A i \in 1..((Len(replaced[d]) + 1) - TakeoverLimit) :
                Append(replaced[d], now)[i + TakeoverLimit] - Append(replaced[d], now)[i] >= TakeoverWindow
<1> DEFINE all == replaced[d]
           r == Recent(d)
           more == Append(all, now)
           counted == Append(r, now)
<1>1. /\ all \in Seq(0..MaxClock) /\ r \in Seq(0..MaxClock) /\ now \in 0..MaxClock /\ TakeoversOf(all, r)
      /\ Len(all) \in Nat /\ Len(r) \in Nat /\ now \in Nat
      /\ TakeoverWindow \in Nat /\ TakeoverLimit \in Nat /\ TakeoverLimit > 0
      /\ Len(r) < TakeoverLimit
  BY RecentFacts, Constants DEF RestInv, RestTypes
<1>2. \A i \in 1..Len(all) : all[i] \in Nat
  BY <1>1, ElementOfSeq, Constants
<1>3. /\ Len(more) = Len(all) + 1 /\ more[Len(all) + 1] = now
      /\ \A i \in 1..Len(all) : more[i] = all[i]
      /\ Len(counted) = Len(r) + 1 /\ counted[Len(r) + 1] = now
      /\ \A i \in 1..Len(r) : counted[i] = r[i]
  BY <1>1
<1>4. \A i \in 1..(Len(all) - TakeoverLimit) : all[i + TakeoverLimit] - all[i] >= TakeoverWindow
  BY DEF RestInv, TakeoversLimited
<1>5. /\ \A i, j \in 1..Len(all) : i <= j => all[i] <= all[j]
      /\ \A i \in 1..Len(all) : all[i] <= now
      /\ Len(r) <= Len(all)
      /\ \A i \in 1..Len(r) : r[i] = all[Len(all) - Len(r) + i]
      /\ \A i \in 1..(Len(all) - Len(r)) : now - all[i] >= TakeoverWindow
  BY <1>1 DEF TakeoversOf
<1> HIDE DEF all, r, more, counted
<1>6. TakeoversOf(more, counted)
  <2>1. \A i \in 1..Len(more) : /\ i \in 1..Len(all) \/ i = Len(all) + 1
                                /\ more[i] \in Nat /\ more[i] <= now
    <3>1. \A i \in 1..Len(more) : i \in 1..Len(all) \/ i = Len(all) + 1
      BY <1>1, <1>3
    <3>2. QED
      BY <1>1, <1>2, <1>3, <1>5, <3>1
  <2>2. ASSUME NEW i \in 1..Len(more), NEW j \in 1..Len(more), i <= j PROVE more[i] <= more[j]
    <3>1. CASE j = Len(all) + 1
      BY <1>3, <2>1, <3>1
    <3>2. CASE j \in 1..Len(all)
      <4>1. i \in 1..Len(all)
        BY <1>1, <2>1, <2>2, <3>2
      <4>2. QED
        BY <1>3, <1>5, <2>2, <3>2, <4>1
    <3>3. QED
      BY <2>1, <3>1, <3>2
  <2>3. ASSUME NEW i \in 1..Len(counted) PROVE counted[i] = more[Len(more) - Len(counted) + i]
    <3>1. CASE i = Len(r) + 1
      BY <1>1, <1>3, <3>1
    <3>2. CASE i \in 1..Len(r)
      <4>1. Len(all) - Len(r) + i \in 1..Len(all) /\ Len(more) - Len(counted) = Len(all) - Len(r)
        BY <1>1, <1>3, <1>5, <3>2
      <4>2. QED
        BY <1>3, <1>5, <3>2, <4>1
    <3>3. QED
      BY <1>1, <1>3, <3>1, <3>2
  <2>4. \A i \in 1..(Len(more) - Len(counted)) : now - more[i] >= TakeoverWindow
    BY <1>1, <1>3, <1>5
  <2>5. QED
    BY <1>1, <1>3, <1>5, <2>1, <2>2, <2>3, <2>4 DEF TakeoversOf
<1>7. ASSUME NEW i \in 1..((Len(all) + 1) - TakeoverLimit)
      PROVE  more[i + TakeoverLimit] - more[i] >= TakeoverWindow
  <2>1. CASE i + TakeoverLimit <= Len(all)
    <3>1. i \in 1..(Len(all) - TakeoverLimit) /\ i \in 1..Len(all) /\ i + TakeoverLimit \in 1..Len(all)
      BY <1>1, <2>1
    <3>2. QED
      BY <1>3, <1>4, <3>1
  <2>2. CASE i + TakeoverLimit = Len(all) + 1
    <3>1. i \in 1..(Len(all) - Len(r))
      BY <1>1, <2>2
    <3>2. i \in 1..Len(all) /\ now - all[i] >= TakeoverWindow
      BY <1>1, <1>5, <3>1
    <3>3. QED
      BY <1>3, <2>2, <3>2
  <2>3. QED
    BY <1>1, <2>1, <2>2
<1>8. QED
  BY <1>6, <1>7 DEF all, r, more, counted

LEMMA AttachTakeovers ==
    ASSUME CoreInv, RestInv, NEW s \in Sockets, Attach(s)
    PROVE  RestInv'
<1> DEFINE d == session[s].dev
<1> DEFINE live == current[d] # Nobody /\ valid(current[d])
<1>1. d \in Devices
  BY DEF CoreInv, CoreTypes, Sessions
<1>2. UNCHANGED <<bound, resetting, closed, now>>
  BY DEF Attach
<1>3. /\ Recent(d) \in Seq(0..MaxClock)
      /\ TakeoversOf(replaced[d], Recent(d))
  BY <1>1, RecentFacts
<1>4. takeovers \in [Devices -> Seq(0..MaxClock)] /\ replaced \in [Devices -> Seq(0..MaxClock)]
        /\ now \in 0..MaxClock
  BY DEF RestInv, RestTypes
<1>5. CASE takeovers' \in {takeovers, [takeovers EXCEPT ![d] = Recent(d)]} /\ UNCHANGED replaced
  <2>1. RestTypes'
    BY <1>2, <1>3, <1>4, <1>5 DEF RestInv, RestTypes
  <2>2. TakeoversLimited'
    BY <1>5 DEF RestInv, TakeoversLimited
  <2>3. TakeoversKept'
    <3>1. \A e \in Devices : takeovers'[e] = takeovers[e] \/ (e = d /\ takeovers'[e] = Recent(d))
      BY <1>4, <1>5
    <3>2. \A e \in Devices : TakeoversOf(replaced[e], takeovers'[e])
      BY <1>3, <3>1 DEF RestInv, TakeoversKept
    <3>3. QED
      BY <1>2, <1>5, <3>2 DEF TakeoversKept, TakeoversOf
  <2>4. QED
    BY <2>1, <2>2, <2>3 DEF RestInv
<1>6. CASE /\ Len(Recent(d)) < TakeoverLimit
           /\ takeovers' = [takeovers EXCEPT ![d] = Append(Recent(d), now)]
           /\ replaced' = [replaced EXCEPT ![d] = Append(@, now)]
  <2>1. /\ TakeoversOf(Append(replaced[d], now), Append(Recent(d), now))
        /\ \A i \in 1..((Len(replaced[d]) + 1) - TakeoverLimit) :
             Append(replaced[d], now)[i + TakeoverLimit] - Append(replaced[d], now)[i] >= TakeoverWindow
    BY <1>1, <1>6, TakeoverAppended
  <2>2. replaced[d] \in Seq(0..MaxClock)
    BY <1>1, <1>4
  <2>3. /\ Append(replaced[d], now) \in Seq(0..MaxClock)
        /\ Append(Recent(d), now) \in Seq(0..MaxClock)
        /\ Len(Append(replaced[d], now)) = Len(replaced[d]) + 1
    BY <1>3, <1>4, <2>2, AppendProperties
  <2>4. \A e \in Devices : /\ replaced'[e] = IF e = d THEN Append(replaced[d], now) ELSE replaced[e]
                           /\ takeovers'[e] = IF e = d THEN Append(Recent(d), now) ELSE takeovers[e]
    BY <1>4, <1>6
  <2>5. RestTypes'
    BY <1>2, <1>4, <1>6, <2>3 DEF RestInv, RestTypes
  <2>6. TakeoversLimited'
    <3>1. ASSUME NEW e \in Devices, NEW i \in 1..(Len(replaced'[e]) - TakeoverLimit)
          PROVE  replaced'[e][i + TakeoverLimit] - replaced'[e][i] >= TakeoverWindow
      <4>1. CASE e = d
        <5>1. replaced'[e] = Append(replaced[d], now)
          BY <1>1, <2>4, <4>1
        <5>2. i \in 1..((Len(replaced[d]) + 1) - TakeoverLimit)
          <6>1. Len(replaced'[e]) = Len(replaced[d]) + 1
            BY <2>3, <5>1, Zenon
          <6>2. QED
            BY <6>1, Zenon
        <5>3. QED
          BY <2>1, <5>1, <5>2
      <4>2. CASE e # d
        BY <2>4, <3>1, <4>2 DEF RestInv, TakeoversLimited
      <4>3. QED
        BY <4>1, <4>2
    <3>2. QED
      BY <3>1 DEF TakeoversLimited
  <2>7. TakeoversKept'
    <3>1. \A e \in Devices : TakeoversOf(replaced'[e], takeovers'[e])
      BY <2>1, <2>4 DEF RestInv, TakeoversKept
    <3>2. QED
      BY <1>2, <3>1 DEF TakeoversKept, TakeoversOf
  <2>8. QED
    BY <2>5, <2>6, <2>7 DEF RestInv
<1>7. QED
  <2>1. Len(Recent(d)) \in Nat /\ TakeoverLimit \in Nat
    BY <1>3, Constants
  <2>2. live /\ ~(live /\ Len(Recent(d)) >= TakeoverLimit) => Len(Recent(d)) < TakeoverLimit
    BY <2>1
  <2>3. QED
    BY <1>5, <1>6, <2>2, Zenon DEF Attach

LEMMA RestUnchanged ==
    ASSUME RestInv, UNCHANGED <<takeovers, now, replaced>>, RestTypes'
    PROVE  RestInv'
BY DEF RestInv, TakeoversKept, TakeoversOf, TakeoversLimited

LEMMA TickStep ==
    ASSUME RestInv, Tick
    PROVE  RestInv'
<1>1. now' = now + 1 /\ now < MaxClock /\ UNCHANGED <<takeovers, bound, resetting, closed, replaced>>
  BY DEF Tick
<1>2. RestTypes'
  BY <1>1, Constants DEF RestInv, RestTypes
<1>3. TakeoversLimited'
  BY <1>1 DEF RestInv, TakeoversLimited
<1>4. TakeoversKept'
  <2>1. SUFFICES ASSUME NEW d \in Devices PROVE TakeoversOf(replaced[d], takeovers[d])'
    BY DEF TakeoversKept
  <2>2. /\ now \in Nat /\ now' = now + 1 /\ Len(replaced[d]) \in Nat /\ Len(takeovers[d]) \in Nat
        /\ replaced[d] \in Seq(0..MaxClock) /\ replaced'[d] = replaced[d] /\ takeovers'[d] = takeovers[d]
    BY <1>1, Constants DEF RestInv, RestTypes
  <2>3. TakeoversOf(replaced[d], takeovers[d])
    BY DEF RestInv, TakeoversKept
  <2>4. \A i \in 1..Len(replaced[d]) : replaced[d][i] \in Nat
    BY <2>2, ElementOfSeq, Constants
  <2>5. \A i \in 1..Len(replaced[d]) : replaced[d][i] <= now'
    BY <2>2, <2>3, <2>4 DEF TakeoversOf
  <2>6. TakeoverWindow \in Nat
    BY Constants
  <2>7. ASSUME NEW i \in 1..(Len(replaced[d]) - Len(takeovers[d]))
        PROVE  now' - replaced[d][i] >= TakeoverWindow
    <3>1. i \in 1..Len(replaced[d])
      BY <2>2
    <3>2. now - replaced[d][i] >= TakeoverWindow
      BY <2>3 DEF TakeoversOf
    <3>3. QED
      BY <2>2, <2>4, <2>6, <3>1, <3>2
  <2>8. QED
    BY <1>1, <2>3, <2>5, <2>7 DEF TakeoversOf
<1>5. QED
  BY <1>2, <1>3, <1>4 DEF RestInv

LEMMA RestStep ==
    ASSUME CoreInv, RestInv, Next
    PROVE  RestInv'
<1>1. RestTypes
  BY DEF RestInv
<1>2. CASE UNCHANGED <<takeovers, bound, resetting, closed, now, replaced>>
  BY <1>1, <1>2, RestUnchanged DEF RestTypes
<1>3. ASSUME NEW d \in Devices, Reset(d) \/ CloseDevice(d) \/ \E i \in Installation : Enroll(d, i)
      PROVE  RestInv'
  <2>1. UNCHANGED <<takeovers, now, replaced>>
    BY <1>3 DEF Reset, CloseDevice, Enroll
  <2>2. RestTypes'
    <3>1. bound' \in [Devices -> Installation \cup {Nobody}] /\ resetting' \subseteq Devices /\ closed' = closed
      BY <1>1, <1>3 DEF Reset, CloseDevice, Enroll, RestTypes
    <3>2. QED
      BY <1>1, <2>1, <3>1 DEF RestTypes
  <2>3. QED
    BY <2>1, <2>2, RestUnchanged
<1>4. CASE Close
  <2>1. closed' = TRUE /\ UNCHANGED <<takeovers, bound, resetting, now, replaced>>
    BY <1>4 DEF Close
  <2>2. RestTypes'
    BY <1>1, <2>1 DEF RestTypes
  <2>3. QED
    BY <2>1, <2>2, RestUnchanged
<1>5. ASSUME NEW s \in Sockets, SocketEvent(s) \/ Heartbeat(s), ~Attach(s) PROVE RestInv'
  BY <1>2, <1>5 DEF SocketEvent, Disconnect, SocketClosed, BadFrame, Pong, Ready, Heartbeat, Acknowledge, Result, Fail
<1>6. ASSUME NEW v \in Viewers, NEW d \in Devices, Read(v, d) PROVE RestInv'
  BY <1>2, <1>6 DEF Read, ReadRefused, ReadShared, ReadDevice
<1>7. ASSUME NEW d \in Devices, Describe(d) PROVE RestInv'
  BY <1>2, <1>7 DEF Describe
<1>8. ASSUME NEW q \in Query, Timeout(q) PROVE RestInv'
  BY <1>2, <1>8 DEF Timeout
<1>9. ASSUME NEW s \in Sockets, NEW d \in Devices, NEW i \in Installation, Connect(s, d, i) PROVE RestInv'
  BY <1>2, <1>9 DEF Connect
<1>10. QED
  BY <1>3, <1>4, <1>5, <1>6, <1>7, <1>8, <1>9, AttachTakeovers, TickStep DEF Next

LEMMA InitEstablishes == Init => RegistryInv
<1> SUFFICES ASSUME Init PROVE RegistryInv
  OBVIOUS
<1> USE DEF Init
<1>1. NoQuery \in Queries /\ NoQuery.stage = "unused"
  BY Constants DEF NoQuery, Queries
<1>2. CoreTypes
  <2>1. [stage |-> "idle", query |-> Nobody] \in ViewerStates
    BY DEF ViewerStates
  <2>2. QED
    BY <1>1, <2>1, NoSessionFacts DEF CoreTypes
<1>3. Pendings = {}
  BY <1>1 DEF Pendings
<1>4. CoreInv
  BY <1>2, <1>3, NoSessionFacts DEF CoreInv, RegisteredIsAttached, ResultsKept, PendingServed, OpenIsRegistered,
                                    NobodyWaitsInVain, OneCollectionPerTopic
<1>5. RestTypes
  <2>1. 0 \in 0..MaxClock /\ <<>> \in Seq(0..MaxClock)
    BY Constants
  <2>2. QED
    BY <2>1 DEF RestTypes
<1>6. TakeoversKept /\ TakeoversLimited
  BY Constants DEF TakeoversKept, TakeoversOf, TakeoversLimited
<1>7. QED
  BY <1>4, <1>5, <1>6 DEF RegistryInv, RestInv

LEMMA RegistryInvariant == Spec => []RegistryInv
<1>1. RegistryInv /\ [Next]_vars => RegistryInv'
  <2>1. CASE UNCHANGED vars
    BY <2>1, CoreUnchanged, RestUnchanged DEF vars, RegistryInv, RestInv, RestTypes
  <2>2. CASE Next
    BY <2>2, CoreStep, RestStep DEF RegistryInv, RestInv
  <2>3. QED
    BY <2>1, <2>2
<1>2. QED
  BY <1>1, InitEstablishes, PTL DEF Spec

-----------------------------------------------------------------------------
(* The theorems *)

\* However reconnects, late close events and frames of replaced sockets are
\* ordered, every open agent socket is the registered session of its device.
THEOREM RegistrySoundHolds == Spec => []RegistrySound
<1>1. RegistryInv => RegistrySound
  BY DEF RegistryInv, CoreInv, RestInv, CoreTypes, RestTypes, RegistrySound, TypeOK, Sessions, Stages, Results,
         Queries, ViewerStates
<1>2. QED
  BY <1>1, RegistryInvariant, PTL

\* Whoever waits has an outstanding request of the registered session, so the
\* cleanup of that session answers it.
THEOREM NobodyWaitsInVainHolds == Spec => []NobodyWaitsInVain
<1>1. RegistryInv => NobodyWaitsInVain
  BY DEF RegistryInv, CoreInv
<1>2. QED
  BY <1>1, RegistryInvariant, PTL

\* A device collects a topic for at most one outstanding request.
THEOREM OneCollectionPerTopicHolds == Spec => []OneCollectionPerTopic
<1>1. RegistryInv => OneCollectionPerTopic
  BY DEF RegistryInv, CoreInv
<1>2. QED
  BY <1>1, RegistryInvariant, PTL

\* The takeover limit holds over any window of time, although attach prunes the
\* list it counts.
THEOREM TakeoversLimitedHolds == Spec => []TakeoversLimited
<1>1. RegistryInv => TakeoversLimited
  BY DEF RegistryInv, RestInv
<1>2. QED
  BY <1>1, RegistryInvariant, PTL

\* What a viewer that is served in a step gets.
Served(v) ==
    LET q == viewer'[v].query  s == query[q].by IN
    /\ valid(s) /\ session[s].ready
    /\ query'[q].stage = "done" /\ query[q].acked
    /\ query[q].stage = "pending" => now < query[q].deadline
    /\ now - session'[s].results[query[q].topic].at < ResultTime

LEMMA ServedFromCache ==
    ASSUME CoreInv, RestTypes, NEW w \in Viewers, NEW d \in Devices, NEW t \in Topic, ReadShared(w, d, t),
           NEW v \in Viewers, viewer'[v].stage = "done", viewer[v] # viewer'[v]
    PROVE  Served(v)
<1> DEFINE s == current[d]
           q == session[s].results[t].query
<1>1. /\ s \in Sockets /\ valid(s) /\ session[s].ready
      /\ UNCHANGED <<session, query>>
  BY DEF ReadShared, Usable, CoreInv, CoreTypes
<1>2. Cached(s, t) /\ viewer' = [viewer EXCEPT ![w] = [stage |-> "done", query |-> q]]
  BY DEF ReadShared, CoreInv, CoreTypes
<1>3. v = w /\ viewer'[v].query = q
  BY <1>2 DEF CoreInv, CoreTypes
<1>4. /\ query[q].stage = "done" /\ query[q].acked /\ query[q].by = s /\ query[q].topic = t
      /\ now - session[s].results[t].at < ResultTime
  BY <1>1, <1>2 DEF Cached, CoreInv, ResultsKept
<1>5. QED
  BY <1>1, <1>3, <1>4 DEF Served

LEMMA ServedByResult ==
    ASSUME CoreInv, RestTypes, NEW s \in Sockets, NEW q \in PendingOf(s), valid(s), query[q].acked, InTime(q),
           session' = [session EXCEPT ![s].results[query[q].topic] = [query |-> q, at |-> now]],
           Finish({q}, "done"),
           NEW v \in Viewers, viewer[v] # viewer'[v]
    PROVE  Served(v)
<1>1. q \in Query /\ query[q] \in Queries /\ query[q].by = s /\ query[q].topic \in Topic /\ session[s].ready
  BY DEF PendingOf, Pendings, CoreInv, CoreTypes, PendingServed
<1>2. viewer'[v].query = q
  BY DEF Finish, FinishFor
<1>3. query'[q].stage = "done"
  <2>1. query'[q] = Ended(query[q], "done")
    BY <1>1 DEF Finish, FinishFor
  <2>2. QED
    BY <1>1, <2>1, EndedFacts DEF Queries
<1>4. session'[s].results[query[q].topic] = [query |-> q, at |-> now]
  BY <1>1 DEF CoreInv, CoreTypes, Sessions
<1>5. now - session'[s].results[query[q].topic].at < ResultTime
  BY <1>4, Constants DEF RestTypes
<1>6. QED
  BY <1>1, <1>2, <1>3, <1>5 DEF Served, InTime

\* Every other step serves nobody.
Unserved == \A v \in Viewers : viewer'[v] = viewer[v] \/ viewer'[v].stage # "done"

LEMMA FailureServesNobody ==
    ASSUME NEW Q, NEW V, FinishFor(Q, "failed", V)
    PROVE  Unserved
BY DEF FinishFor, Unserved

\* A viewer gets a result only from the registered session, while its lease
\* runs, before the deadline of the request, and not older than the sharing time.
THEOREM ServedFreshHolds == Spec => ServedFresh
<1> DEFINE Step == \A v \in Viewers : viewer'[v].stage = "done" /\ viewer[v] # viewer'[v] => Served(v)
<1>1. ASSUME RegistryInv, Next PROVE Step
  <2> SUFFICES ASSUME NEW v \in Viewers, viewer'[v].stage = "done", viewer[v] # viewer'[v] PROVE Served(v)
    OBVIOUS
  <2>1. CoreInv /\ RestTypes /\ ~Unserved
    BY <1>1 DEF RegistryInv, RestInv, Unserved
  <2>2. viewer' # viewer
    OBVIOUS
  <2>3. \A Q, V : ~FinishFor(Q, "failed", V)
    BY <2>1, FailureServesNobody
  <2>4. ASSUME NEW s \in Sockets, SocketEvent(s) \/ Heartbeat(s) PROVE Served(v)
    <3>1. PICK q \in Query : /\ q \in PendingOf(s) /\ valid(s) /\ query[q].acked /\ InTime(q)
                             /\ session' = [session EXCEPT ![s].results[query[q].topic] = [query |-> q, at |-> now]]
                             /\ Finish({q}, "done")
      BY <2>2, <2>3, <2>4 DEF SocketEvent, Attach, Disconnect, SocketClosed, BadFrame, Pong, Ready, Heartbeat,
                              Acknowledge, Result, Fail, Detach, DetachFor, Finish
    <3>2. QED
      BY <2>1, <3>1, ServedByResult
  <2>5. ASSUME NEW w \in Viewers, NEW d \in Devices, Read(w, d) PROVE Served(v)
    <3>1. ASSUME NEW t \in Topic, NEW q \in Query, ReadDevice(w, d, t, q) PROVE FALSE
      BY <2>1, <2>3, <3>1 DEF ReadDevice, DetachFor, CoreInv, CoreTypes
    <3>2. PICK t \in Topic : ReadShared(w, d, t)
      BY <2>3, <2>5, <3>1 DEF Read, ReadRefused, DetachFor
    <3>3. QED
      BY <2>1, <3>2, ServedFromCache
  <2>6. QED
    BY <1>1, <2>2, <2>3, <2>4, <2>5 DEF Next, Connect, Describe, Reset, CloseDevice, Enroll, Timeout, Close, Tick,
                                        Detach, DetachFor, Finish
<1>2. RegistryInv /\ [Next]_vars => [Step]_viewer
  BY <1>1 DEF vars
<1>3. QED
  BY <1>2, RegistryInvariant, PTL DEF Spec, ServedFresh, Served
=============================================================================
