----------------------------- MODULE AgentProofs ----------------------------
(***************************************************************************)
(* Machine-checked theorems about the agent, for any topics, any number of *)
(* requests and processes and any bounds of a run: LiveClient, its live    *)
(* channel and its slow probes, TelemetryDelivery, its uploads over the    *)
(* pending store, and AgentSupervisor, the backend that owns its collector.*)
(***************************************************************************)
EXTENDS LiveClient, TelemetryDelivery, AgentSupervisor, SublistLemmas

Request == [id : 1 .. liveRequests, topic : LiveTopics]
Job == [id : 1 .. liveRequests, topic : LiveTopics, conn : 1 .. sessions, edition : 0 .. edition,
        at : {"handler", "release"}]

\* The types of the channel's state.
ChannelTypes ==
    /\ edition \in Nat /\ sessions \in Nat /\ liveRequests \in Nat /\ syncOn \in BOOLEAN
    /\ reading = NoRequest \/ reading \in Request
    /\ liveJobs \subseteq Job

\* Only the latest connection can be open: a job that finds its connection's
\* context alive belongs to the one the reader serves.
OthersCancelled == \A s \in 1 .. sessions : s = conn \/ s \in cancelled

\* What a job still owes was asked for on the connection that is open.
OwedHere == \A j \in liveJobs : j.id \in unanswered => j.conn = conn

ReaderReady == reading # NoRequest => phase = "ready"

ChannelInv ==
    /\ ChannelTypes /\ LiveClientTypeOK /\ OthersCancelled /\ OwedHere /\ ReaderReady
    /\ OneJobPerTopic /\ AcknowledgedIsAnswered

\* A pending collection is either under way or its outcome is in the channel.
ProbesInv ==
    /\ assets \in Nat /\ probesRun \in Nat
    /\ \/ slowPending = FALSE /\ probes = {} /\ slowResults = <<>>
       \/ /\ slowPending = TRUE /\ slowResults = <<>>
          /\ \E v \in Nat : probes = {[base |-> assets, version |-> v]}
       \/ /\ slowPending = TRUE /\ probes = {}
          /\ \E v \in Nat : slowResults = <<[base |-> assets, version |-> v]>>

-----------------------------------------------------------------------------
(* The channel *)

LEMMA ChannelStarts == ChannelInit => ChannelInv
BY DEF ChannelInit, ChannelInv, ChannelTypes, LiveClientTypeOK, OthersCancelled, OwedHere, ReaderReady,
       OneJobPerTopic, AcknowledgedIsAnswered

\* Connecting, editing the file and reading frames leave the jobs alone.
LEMMA ReaderSteps ==
    ASSUME ChannelInv,
           BeginConnect \/ Enrolled \/ ConnectionEnds \/ EditConfig \/ Welcome
    PROVE  ChannelInv'
<1> USE DEF ChannelInv, ChannelTypes, LiveClientTypeOK, OthersCancelled, OwedHere, ReaderReady,
            OneJobPerTopic, AcknowledgedIsAnswered, Request, Job
<1>1. CASE BeginConnect
  BY <1>1 DEF BeginConnect
<1>2. CASE Enrolled
  BY <1>2 DEF Enrolled
<1>3. CASE ConnectionEnds
  BY <1>3 DEF ConnectionEnds, Disconnected, SessionStopped
<1>4. CASE EditConfig
  BY <1>4 DEF EditConfig, readerVars
<1>5. CASE Welcome
  BY <1>5 DEF Welcome, FrameRead
<1>6. QED
  BY <1>1, <1>2, <1>3, <1>4, <1>5

LEMMA AcceptStep ==
    ASSUME ChannelInv, NEW t \in LiveTopics, AcceptRequest(t)
    PROVE  ChannelInv'
<1> USE DEF ChannelInv, ChannelTypes, LiveClientTypeOK, OthersCancelled, OwedHere, ReaderReady,
            OneJobPerTopic, AcknowledgedIsAnswered, Request, Job
<1> DEFINE asked == [id |-> liveRequests + 1, topic |-> t]
<1>1. /\ phase = "ready" /\ reading = NoRequest /\ conn \notin cancelled
      /\ liveRequests' = liveRequests + 1 /\ reading' = asked
      /\ unanswered' = unanswered \cup {liveRequests + 1}
      /\ UNCHANGED <<edition, syncOn, conn, phase, connEdition, cancelled, busyTopics, liveJobs, sessions>>
  BY DEF AcceptRequest, FrameRead, RequestFor
<1>2. asked \in Request' /\ asked.id = liveRequests + 1
  BY <1>1
<1> HIDE DEF asked
<1>3. ChannelTypes'
  BY <1>1, <1>2
<1>4. LiveClientTypeOK' /\ OthersCancelled' /\ ReaderReady' /\ OneJobPerTopic'
  BY <1>1, <1>2
<1>5. OwedHere'
  <2>1. \A j \in liveJobs : j.id # liveRequests + 1
    OBVIOUS
  <2>2. QED
    BY <1>1, <2>1
<1>6. AcknowledgedIsAnswered'
  <2>1. \A id \in unanswered : \E j \in liveJobs : j.id = id /\ j.at = "handler"
    <3>1. reading.id = 0 /\ 0 \notin unanswered
      BY <1>1 DEF NoRequest
    <3>2. QED
      BY <3>1
  <2>2. QED
    BY <1>1, <1>2, <2>1
<1>7. QED
  BY <1>3, <1>4, <1>5, <1>6

LEMMA RefuseStep ==
    ASSUME ChannelInv, RefuseBusy
    PROVE  ChannelInv'
<1> USE DEF ChannelInv, ChannelTypes, LiveClientTypeOK, OthersCancelled, OwedHere, ReaderReady,
            OneJobPerTopic, AcknowledgedIsAnswered, Request, Job
<1>1. /\ reading \in Request /\ conn # 0 /\ conn \in 1 .. sessions
      /\ UNCHANGED <<edition, syncOn, connEdition, busyTopics, liveJobs, sessions, liveRequests>>
  BY DEF RefuseBusy
<1>2. CASE /\ conn \notin cancelled
           /\ unanswered' = unanswered \ {reading.id} /\ reading' = NoRequest
           /\ UNCHANGED <<conn, phase, cancelled>>
  <2>1. ChannelTypes' /\ LiveClientTypeOK' /\ OthersCancelled' /\ OwedHere' /\ ReaderReady' /\ OneJobPerTopic'
    BY <1>1, <1>2
  <2>2. AcknowledgedIsAnswered'
    BY <1>1, <1>2
  <2>3. QED
    BY <2>1, <2>2
<1>3. CASE Disconnected
  BY <1>1, <1>3 DEF Disconnected, SessionStopped
<1>4. QED
  BY <1>2, <1>3 DEF RefuseBusy, AnsweredBusy

LEMMA StartJobStep ==
    ASSUME ChannelInv, StartJob
    PROVE  ChannelInv'
<1> DEFINE new == [id |-> reading.id, topic |-> reading.topic, conn |-> conn, edition |-> connEdition,
                   at |-> "handler"]
<1> USE DEF ChannelInv, ChannelTypes
<1>1. /\ reading \in Request /\ reading # NoRequest /\ reading.topic \notin busyTopics /\ reading' = NoRequest
      /\ busyTopics' = busyTopics \cup {reading.topic} /\ liveJobs' = liveJobs \cup {new}
      /\ UNCHANGED <<edition, syncOn, conn, phase, connEdition, cancelled, unanswered, sessions, liveRequests>>
  BY DEF StartJob, Occupied
<1>2. new \in Job /\ new.topic = reading.topic /\ new.id = reading.id /\ new.conn = conn /\ new.at = "handler"
  BY <1>1 DEF Job, Request, LiveClientTypeOK, ReaderReady
<1> HIDE DEF new
<1>3. ChannelTypes'
  BY <1>1, <1>2 DEF Job, Request
<1>4. LiveClientTypeOK' /\ OthersCancelled' /\ ReaderReady' /\ OwedHere'
  BY <1>1, <1>2 DEF LiveClientTypeOK, OthersCancelled, ReaderReady, OwedHere
<1>5. OneJobPerTopic'
  BY <1>1, <1>2 DEF OneJobPerTopic, LiveClientTypeOK
<1>6. AcknowledgedIsAnswered'
  BY <1>1, <1>2 DEF AcknowledgedIsAnswered
<1>7. QED
  BY <1>3, <1>4, <1>5, <1>6

LEMMA FinishStep ==
    ASSUME ChannelInv, NEW j \in liveJobs, FinishHandler(j)
    PROVE  ChannelInv'
<1> DEFINE after == [j EXCEPT !.at = "release"]
<1> USE DEF ChannelInv, ChannelTypes
<1>1. /\ j.at = "handler" /\ liveJobs' = (liveJobs \ {j}) \cup {after}
      /\ UNCHANGED <<edition, syncOn, conn, phase, connEdition, reading, sessions, busyTopics, liveRequests>>
  BY DEF FinishHandler, readerVars
<1>2. j \in Job /\ after \in Job /\ after.topic = j.topic /\ after.id = j.id /\ after.conn = j.conn
  BY DEF Job
<1> HIDE DEF after
<1>3. ChannelTypes' /\ OneJobPerTopic' /\ ReaderReady'
  BY <1>1, <1>2 DEF Job, Request, OneJobPerTopic, ReaderReady
<1>4. busyTopics' = {k.topic : k \in liveJobs'}
  BY <1>1, <1>2 DEF LiveClientTypeOK
<1>5. CASE j.conn \in cancelled /\ UNCHANGED <<cancelled, unanswered>>
  <2>1. j.id \notin unanswered
    BY <1>5 DEF LiveClientTypeOK, OwedHere
  <2>2. LiveClientTypeOK' /\ OthersCancelled' /\ OwedHere'
    BY <1>1, <1>2, <1>4, <1>5 DEF LiveClientTypeOK, OthersCancelled, OwedHere
  <2>3. AcknowledgedIsAnswered'
    BY <1>1, <1>5, <2>1 DEF AcknowledgedIsAnswered
  <2>4. QED
    BY <1>3, <2>2, <2>3
<1>6. CASE j.conn \notin cancelled /\ SessionStopped
  <2>1. j.conn = conn /\ conn \in 1 .. sessions
    BY <1>2, <1>6 DEF OthersCancelled, Job
  <2>2. LiveClientTypeOK' /\ OthersCancelled' /\ OwedHere' /\ AcknowledgedIsAnswered'
    BY <1>1, <1>4, <1>6, <2>1
       DEF SessionStopped, LiveClientTypeOK, OthersCancelled, OwedHere, AcknowledgedIsAnswered
  <2>3. QED
    BY <1>3, <2>2
<1>7. CASE unanswered' = unanswered \ {j.id} /\ UNCHANGED cancelled
  <2>1. LiveClientTypeOK' /\ OthersCancelled' /\ OwedHere'
    BY <1>1, <1>2, <1>4, <1>7 DEF LiveClientTypeOK, OthersCancelled, OwedHere
  <2>2. AcknowledgedIsAnswered'
    BY <1>1, <1>7 DEF AcknowledgedIsAnswered
  <2>3. QED
    BY <1>3, <2>1, <2>2
<1>8. QED
  BY <1>5, <1>6, <1>7 DEF FinishHandler, Replied

LEMMA ReleaseStep ==
    ASSUME ChannelInv, NEW j \in liveJobs, ReleaseTopic(j)
    PROVE  ChannelInv'
<1> USE DEF ChannelInv, ChannelTypes
<1>1. /\ j.at = "release" /\ liveJobs' = liveJobs \ {j} /\ busyTopics' = busyTopics \ {j.topic}
      /\ UNCHANGED <<edition, syncOn, conn, phase, connEdition, reading, sessions, cancelled, unanswered,
                     liveRequests>>
  BY DEF ReleaseTopic, Released, readerVars
<1>2. ChannelTypes' /\ OneJobPerTopic' /\ ReaderReady' /\ OthersCancelled' /\ OwedHere'
  BY <1>1 DEF Job, Request, OneJobPerTopic, ReaderReady, OthersCancelled, OwedHere
<1>3. busyTopics' = {k.topic : k \in liveJobs'}
  BY <1>1 DEF LiveClientTypeOK, OneJobPerTopic
<1>4. LiveClientTypeOK'
  BY <1>1, <1>3 DEF LiveClientTypeOK
<1>5. AcknowledgedIsAnswered'
  BY <1>1 DEF AcknowledgedIsAnswered
<1>6. QED
  BY <1>2, <1>4, <1>5

\* No step of the channel breaks its invariant.
LEMMA ChannelStep == ChannelInv /\ [ChannelNext]_channelVars => ChannelInv'
<1>1. CASE UNCHANGED channelVars
  BY <1>1 DEF channelVars, ChannelInv, ChannelTypes, LiveClientTypeOK, OthersCancelled, OwedHere, ReaderReady,
              OneJobPerTopic, AcknowledgedIsAnswered, Request, Job
<1>2. QED
  BY <1>1, ReaderSteps, AcceptStep, RefuseStep, StartJobStep, FinishStep, ReleaseStep DEF ChannelNext

-----------------------------------------------------------------------------
(* The slow probes *)

LEMMA ProbesStart == ProbesInit => ProbesInv
BY DEF ProbesInit, ProbesInv

LEMMA ProbesStep == ProbesInv /\ [ProbesNext]_probeVars => ProbesInv'
<1> SUFFICES ASSUME ProbesInv, [ProbesNext]_probeVars PROVE ProbesInv'
  OBVIOUS
<1>1. ASSUME NEW due \in BOOLEAN, RefreshSlow(due) PROVE ProbesInv'
  <2> DEFINE arrived == slowResults # <<>>
             known == IF arrived THEN Head(slowResults).version ELSE assets
             idle == arrived \/ ~slowPending
  <2>1. known \in Nat /\ (idle => probes = {}) /\ (arrived => Tail(slowResults) = <<>>)
    <3>1. ASSUME NEW v \in Nat, slowResults = <<[base |-> assets, version |-> v]>>
          PROVE  Head(slowResults).version = v /\ Tail(slowResults) = <<>>
      BY <3>1
    <3>2. QED
      BY <3>1 DEF ProbesInv
  <2>2. assets' = known /\ slowResults' = (IF arrived THEN Tail(slowResults) ELSE slowResults)
    BY <1>1 DEF RefreshSlow
  <2>3. CASE due /\ idle /\ probesRun < MaxProbes
    <3>1. /\ slowPending' = TRUE /\ probesRun' = probesRun + 1
          /\ probes' = probes \cup {[base |-> known, version |-> probesRun + 1]}
      BY <1>1, <2>3 DEF RefreshSlow
    <3>2. slowResults' = <<>> /\ probes' = {[base |-> assets', version |-> probesRun + 1]}
      BY <2>1, <2>2, <2>3, <3>1 DEF ProbesInv
    <3>3. assets' \in Nat /\ probesRun' \in Nat /\ probesRun + 1 \in Nat
      BY <2>1, <2>2, <3>1 DEF ProbesInv
    <3>4. QED
      BY <3>1, <3>2, <3>3 DEF ProbesInv
  <2>4. CASE ~(due /\ idle /\ probesRun < MaxProbes)
    <3>1. slowPending' = ~idle /\ UNCHANGED <<probes, probesRun>>
      BY <1>1, <2>4 DEF RefreshSlow
    <3>2. CASE idle
      <4>1. slowPending' = FALSE /\ slowResults' = <<>> /\ probes' = {}
        BY <2>1, <2>2, <3>1, <3>2 DEF ProbesInv
      <4>2. QED
        BY <2>1, <2>2, <3>1, <4>1 DEF ProbesInv
    <3>3. CASE ~idle
      <4>1. slowPending' = TRUE /\ UNCHANGED <<slowResults, assets, probes>> /\ slowPending = TRUE
        BY <2>1, <2>2, <3>1, <3>3 DEF ProbesInv
      <4>2. QED
        BY <3>1, <4>1 DEF ProbesInv
    <3>4. QED
      BY <3>2, <3>3
  <2>5. QED
    BY <2>3, <2>4
<1>2. ASSUME NEW p \in probes, ProbeEnds(p) PROVE ProbesInv'
  BY <1>2 DEF ProbeEnds, ProbesInv
<1>3. CASE UNCHANGED probeVars
  BY <1>3 DEF probeVars, ProbesInv
<1>4. QED
  BY <1>1, <1>2, <1>3 DEF ProbesNext

\* The count of collections that are under way or wait to be taken.
LEMMA ProbesCounted == ProbesInv => ProbesNeverBlock
<1> SUFFICES ASSUME ProbesInv PROVE ProbesNeverBlock
  OBVIOUS
<1>1. CASE probes = {} /\ slowResults = <<>> /\ ~slowPending
  BY <1>1, FS_EmptySet DEF ProbesNeverBlock
<1>2. ASSUME NEW v \in Nat, slowPending, slowResults = <<>>, probes = {[base |-> assets, version |-> v]}
      PROVE  ProbesNeverBlock
  <2>1. Cardinality(probes) = 1
    BY <1>2, FS_Singleton
  <2>2. QED
    BY <1>2, <2>1 DEF ProbesNeverBlock
<1>3. ASSUME NEW v \in Nat, slowPending, probes = {}, slowResults = <<[base |-> assets, version |-> v]>>
      PROVE  ProbesNeverBlock
  <2>1. Cardinality(probes) = 0
    BY <1>3, FS_EmptySet
  <2>2. Len(slowResults) = 1 /\ Head(slowResults).base = assets
    BY <1>3
  <2>3. QED
    BY <1>3, <2>1, <2>2 DEF ProbesNeverBlock
<1>4. QED
  BY <1>1, <1>2, <1>3 DEF ProbesInv

-----------------------------------------------------------------------------
(* Theorems *)

LEMMA ClientInvariant == ClientSpec => [](ChannelInv /\ ProbesInv)
<1>1. ChannelInit /\ ProbesInit => ChannelInv /\ ProbesInv
  BY ChannelStarts, ProbesStart
<1>2. ChannelInv /\ ProbesInv /\ [ClientNext]_<<channelVars, probeVars>> => (ChannelInv /\ ProbesInv)'
  BY ChannelStep, ProbesStep DEF ClientNext
<1>3. QED
  BY <1>1, <1>2, PTL DEF ClientSpec

\* connect, safeHandle and the deferred delete of c.busy: for any number of
\* connections, requests and edits, no collector is entered twice at a time and
\* every topic is released, and the sampler has one slow collection at most.
THEOREM LiveClientSoundHolds == ClientSpec => []LiveClientSound
<1>1. ChannelInv /\ ProbesInv => LiveClientSound
  BY ProbesCounted DEF ChannelInv, LiveClientSound
<1>2. QED
  BY <1>1, ClientInvariant, PTL

\* No request that connect acknowledged on a connection that is still open is
\* forgotten, although jobs outlive connections and fail to write their answers.
THEOREM AcknowledgedIsAnsweredHolds == ClientSpec => []AcknowledgedIsAnswered
<1>1. ChannelInv => AcknowledgedIsAnswered
  BY DEF ChannelInv
<1>2. QED
  BY <1>1, ClientInvariant, PTL

-----------------------------------------------------------------------------
(* The pending store: lists in order of time *)

Ordered(s) == \A i, j \in DOMAIN s : i < j => s[i] < s[j]

\* Leaving entries out keeps the order and what is chosen.
LEMMA SublistOrdered ==
    ASSUME NEW S \in SUBSET Nat, NEW s \in Seq(S), Ordered(s), NEW P \in SUBSET (DOMAIN s)
    PROVE  /\ Sublist(s, P) \in Seq(S) /\ Len(Sublist(s, P)) <= Len(s)
           /\ Ordered(Sublist(s, P))
           /\ Elements(Sublist(s, P)) = {s[i] : i \in P}
<1> DEFINE t == Sublist(s, P)
           N == Cardinality(P)
<1>1. DOMAIN s = 1..Len(s) /\ Len(s) \in Nat
  BY LenProperties
<1>2. P \in SUBSET (1..Len(s))
  BY <1>1
<1>3. /\ t \in Seq(S) /\ Len(t) = N /\ N <= Len(s)
      /\ \E at : Takes(s, P, at)
  BY <1>2, SublistKeepsOrder
<1>4. PICK at : /\ at \in [1..N -> P]
                /\ \A n \in 1..N : t[n] = s[at[n]]
                /\ \A n, m \in 1..N : n < m => at[n] < at[m]
                /\ \A i \in P : \E n \in 1..N : at[n] = i
  BY <1>3 DEF Takes
<1> HIDE DEF t, N
<1>5. DOMAIN t = 1..N
  BY <1>3, LenProperties
<1>6. Ordered(t)
  <2> SUFFICES ASSUME NEW n \in 1..N, NEW m \in 1..N, n < m PROVE t[n] < t[m]
    BY <1>5 DEF Ordered
  <2>1. at[n] \in DOMAIN s /\ at[m] \in DOMAIN s /\ at[n] < at[m]
    BY <1>4
  <2>2. s[at[n]] < s[at[m]]
    BY <2>1 DEF Ordered
  <2>3. QED
    BY <1>4, <2>2
<1>7. Elements(t) = {s[i] : i \in P}
  <2>1. Elements(t) = {t[n] : n \in 1..N}
    BY <1>3 DEF Elements
  <2>2. QED
    BY <2>1, <1>4
<1>8. QED
  BY <1>3, <1>6, <1>7 DEF t

LEMMA InElements ==
    ASSUME NEW S, NEW s \in Seq(S)
    PROVE  /\ \A x : x \in Elements(s) <=> \E i \in DOMAIN s : s[i] = x
           /\ Elements(s) \subseteq S
<1>1. DOMAIN s = 1..Len(s) /\ Len(s) \in Nat
  BY LenProperties
<1>2. \A i \in 1..Len(s) : s[i] \in S
  BY ElementOfSeq
<1>3. QED
  BY <1>1, <1>2 DEF Elements

LEMMA PruneKeepsOrder ==
    ASSUME NEW S \in SUBSET Nat, NEW s \in Seq(S), Ordered(s), now \in Nat
    PROVE  /\ Prune(s) \in Seq(S) /\ Len(Prune(s)) <= Len(s) /\ Ordered(Prune(s))
           /\ Elements(Prune(s)) = {ts \in Elements(s) : now - ts <= MaxAge}
<1> DEFINE P == {i \in DOMAIN s : now - s[i] <= MaxAge}
<1>1. Prune(s) = Sublist(s, P)
  BY DEF Prune
<1>2. /\ Sublist(s, P) \in Seq(S) /\ Len(Sublist(s, P)) <= Len(s) /\ Ordered(Sublist(s, P))
      /\ Elements(Sublist(s, P)) = {s[i] : i \in P}
  BY SublistOrdered
<1>3. {s[i] : i \in P} = {ts \in Elements(s) : now - ts <= MaxAge}
  BY InElements
<1>4. QED
  BY <1>1, <1>2, <1>3

\* The queue behind the entry at its head.
LEMMA TailOrdered ==
    ASSUME NEW S \in SUBSET Nat, NEW s \in Seq(S), Ordered(s), s # <<>>
    PROVE  /\ Tail(s) \in Seq(S) /\ Len(Tail(s)) <= Len(s) /\ Ordered(Tail(s))
           /\ Head(s) \in S
           /\ Elements(s) = {Head(s)} \cup Elements(Tail(s))
<1>1. Len(s) \in Nat /\ Len(s) # 0 /\ DOMAIN s = 1..Len(s)
  BY LenProperties, EmptySeq
<1>2. /\ Tail(s) \in Seq(S) /\ Len(Tail(s)) = Len(s) - 1 /\ Head(s) = s[1] /\ Head(s) \in S
      /\ \A i \in 1..Len(Tail(s)) : Tail(s)[i] = s[i + 1]
  BY HeadTailProperties, ElementOfSeq, <1>1
<1>3. DOMAIN Tail(s) = 1..(Len(s) - 1)
  BY <1>2, LenProperties
<1>4. Ordered(Tail(s))
  BY <1>1, <1>2, <1>3 DEF Ordered
<1>5. Elements(s) = {Head(s)} \cup Elements(Tail(s))
  <2>1. ASSUME NEW i \in 1..Len(s) PROVE s[i] = Head(s) \/ \E k \in 1..(Len(s) - 1) : Tail(s)[k] = s[i]
    <3>1. CASE i = 1
      BY <3>1, <1>2
    <3>2. CASE i # 1
      <4>1. i - 1 \in 1..(Len(s) - 1) /\ (i - 1) + 1 = i
        BY <3>2, <1>1
      <4>2. Tail(s)[i - 1] = s[i]
        BY <4>1, <1>2, <1>1
      <4>3. QED
        BY <4>1, <4>2
    <3>3. QED
      BY <3>1, <3>2
  <2>2. ASSUME NEW k \in 1..(Len(s) - 1) PROVE \E i \in 1..Len(s) : s[i] = Tail(s)[k]
    <3>1. k + 1 \in 1..Len(s) /\ Tail(s)[k] = s[k + 1]
      BY <1>1, <1>2
    <3>2. QED
      BY <3>1
  <2>3. 1 \in 1..Len(s)
    BY <1>1
  <2>4. QED
    BY <1>1, <1>2, <1>3, <2>1, <2>2, <2>3 DEF Elements
<1>6. QED
  BY <1>1, <1>2, <1>4, <1>5

LEMMA ConcatOrdered ==
    ASSUME NEW S \in SUBSET Nat, NEW a \in Seq(S), NEW b \in Seq(S), Ordered(a), Ordered(b),
           \A x \in Elements(a), y \in Elements(b) : x < y
    PROVE  /\ a \o b \in Seq(S) /\ Ordered(a \o b)
           /\ Elements(a \o b) \subseteq Elements(a) \cup Elements(b)
<1> DEFINE c == a \o b
<1>1. /\ Len(a) \in Nat /\ DOMAIN a = 1..Len(a) /\ Len(b) \in Nat /\ DOMAIN b = 1..Len(b)
      /\ c \in Seq(S) /\ Len(c) = Len(a) + Len(b)
      /\ \A i \in 1..(Len(a) + Len(b)) : c[i] = IF i <= Len(a) THEN a[i] ELSE b[i - Len(a)]
  BY LenProperties, ConcatProperties
<1> HIDE DEF c
<1>2. DOMAIN c = 1..(Len(a) + Len(b))
  BY <1>1, LenProperties
<1>3. \A i \in DOMAIN c : \/ i \in DOMAIN a /\ c[i] = a[i]
                          \/ i - Len(a) \in DOMAIN b /\ i > Len(a) /\ c[i] = b[i - Len(a)]
  BY <1>1, <1>2
<1>4. Ordered(c)
  <2> SUFFICES ASSUME NEW i \in DOMAIN c, NEW k \in DOMAIN c, i < k PROVE c[i] < c[k]
    BY DEF Ordered
  <2>1. CASE k <= Len(a)
    <3>1. i \in DOMAIN a /\ k \in DOMAIN a /\ c[i] = a[i] /\ c[k] = a[k]
      BY <1>1, <1>2, <2>1
    <3>2. QED
      BY <3>1 DEF Ordered
  <2>2. CASE i > Len(a)
    <3>1. i - Len(a) \in DOMAIN b /\ k - Len(a) \in DOMAIN b /\ i - Len(a) < k - Len(a)
          /\ c[i] = b[i - Len(a)] /\ c[k] = b[k - Len(a)]
      BY <1>1, <1>2, <2>2
    <3>2. QED
      BY <3>1 DEF Ordered
  <2>3. CASE i <= Len(a) /\ k > Len(a)
    <3>1. c[i] = a[i] /\ i \in DOMAIN a /\ k - Len(a) \in DOMAIN b /\ c[k] = b[k - Len(a)]
      BY <1>1, <1>2, <2>3
    <3>2. c[i] \in Elements(a) /\ c[k] \in Elements(b)
      BY <3>1, InElements
    <3>3. QED
      BY <3>2
  <2>4. QED
    BY <1>1, <1>2, <2>1, <2>2, <2>3
<1>5. Elements(c) \subseteq Elements(a) \cup Elements(b)
  <2> SUFFICES ASSUME NEW x \in Elements(c) PROVE x \in Elements(a) \/ x \in Elements(b)
    OBVIOUS
  <2>1. PICK i \in DOMAIN c : c[i] = x
    BY <1>1, InElements
  <2>2. (\E k \in DOMAIN a : a[k] = x) \/ (\E k \in DOMAIN b : b[k] = x)
    BY <1>3, <2>1
  <2>3. QED
    BY <2>2, InElements
<1>6. QED
  BY <1>1, <1>4, <1>5 DEF c

\* A sample enters the queue at its place in time, and the newest ones stay.
LEMMA QueuedOrdered ==
    ASSUME NEW S \in SUBSET Nat, NEW s \in Seq(S), Ordered(s), Len(s) <= SpoolLimit, NEW ts \in S
    PROVE  Queued(s, ts) \in Seq(S) /\ Ordered(Queued(s, ts)) /\ Len(Queued(s, ts)) <= SpoolLimit
<1> DEFINE older == {i \in DOMAIN s : s[i] <= ts}
           newer == (DOMAIN s) \ older
           a == Sublist(s, older)
           b == Sublist(s, newer)
           one == <<ts>>
           all == (a \o one) \o b
<1>1. CASE ts \in Elements(s)
  BY <1>1 DEF Queued
<1>2. CASE ts \notin Elements(s)
  <2>1. /\ a \in Seq(S) /\ Ordered(a) /\ Elements(a) = {s[i] : i \in older}
        /\ b \in Seq(S) /\ Ordered(b) /\ Elements(b) = {s[i] : i \in newer}
    BY SublistOrdered
  <2>2. \A i \in DOMAIN s : s[i] \in Nat /\ s[i] # ts
    <3>1. \A i \in DOMAIN s : s[i] \in Elements(s)
      BY InElements
    <3>2. Elements(s) \subseteq S
      BY InElements
    <3>3. QED
      BY <3>1, <3>2, <1>2
  <2>3. ts \in Nat
    OBVIOUS
  <2>4. (\A x \in Elements(a) : x < ts) /\ (\A y \in Elements(b) : ts < y)
    BY <2>1, <2>2, <2>3
  <2>5. Insert(s, ts) = all
    BY DEF Insert
  <2>6. one \in Seq(S) /\ Ordered(one) /\ Elements(one) = {ts}
    <3>1. one \in Seq(S) /\ Len(one) = 1 /\ DOMAIN one = 1..1 /\ one[1] = ts
      OBVIOUS
    <3> HIDE DEF one
    <3>2. QED
      BY <3>1 DEF Ordered, Elements
  <2> HIDE DEF older, newer, a, b, one
  <2>7. a \o one \in Seq(S) /\ Ordered(a \o one) /\ Elements(a \o one) \subseteq Elements(a) \cup {ts}
    <3>1. \A x \in Elements(a), y \in Elements(one) : x < y
      BY <2>4, <2>6
    <3>2. QED
      BY <2>1, <2>6, <3>1, ConcatOrdered
  <2>8. all \in Seq(S) /\ Ordered(all)
    <3>1. \A x \in Elements(a \o one), y \in Elements(b) : x < y
      <4>1. Elements(a) \subseteq Nat /\ Elements(b) \subseteq Nat
        BY <2>1, InElements
      <4>2. QED
        BY <2>3, <2>4, <2>7, <4>1
    <3> DEFINE ao == a \o one
    <3>2. ao \in Seq(S) /\ Ordered(ao)
      BY <2>7
    <3> HIDE DEF ao
    <3>3. ao \o b \in Seq(S) /\ Ordered(ao \o b)
      BY <2>1, <3>1, <3>2, ConcatOrdered DEF ao
    <3>4. QED
      BY <3>3 DEF ao
  <2> HIDE DEF all
  <2>9. Queued(s, ts) = Fit(all)
    BY <1>2, <2>5 DEF Queued
  <2>10. Fit(all) \in Seq(S) /\ Ordered(Fit(all)) /\ Len(Fit(all)) <= SpoolLimit
    <3>1. Len(all) \in Nat /\ DOMAIN all = 1..Len(all) /\ SpoolLimit \in Nat /\ SpoolLimit # 0
      BY <2>8, LenProperties, DeliveryAssumption
    <3>2. CASE Len(all) <= SpoolLimit
      BY <2>8, <3>2 DEF Fit
    <3>3. CASE ~(Len(all) <= SpoolLimit)
      <4> DEFINE first == Len(all) - SpoolLimit + 1
                 rest == SubSeq(all, first, Len(all))
      <4>1. Fit(all) = rest
        BY <3>3 DEF Fit
      <4>2. first \in 1..(Len(all) + 1) /\ Len(all) \in (first - 1)..Len(all)
        BY <3>1, <3>3
      <4>3. rest \in Seq(S) /\ Len(rest) = SpoolLimit
            /\ \A i \in 1..SpoolLimit : rest[i] = all[first + i - 1]
        <5>1. /\ rest \in Seq(S)
              /\ Len(rest) = IF first <= Len(all) THEN Len(all) - first + 1 ELSE 0
              /\ \A i \in 1..(Len(all) - first + 1) : rest[i] = all[first + i - 1]
          BY <2>8, <4>2, SubSeqProperties
        <5>2. first <= Len(all) /\ Len(all) - first + 1 = SpoolLimit
          BY <3>1, <3>3
        <5> HIDE DEF first, rest
        <5>3. QED
          BY <5>1, <5>2
      <4>4. DOMAIN rest = 1..SpoolLimit
        <5> HIDE DEF rest, first
        <5>1. QED
          BY <4>3, LenProperties
      <4>5. Ordered(rest)
        <5> SUFFICES ASSUME NEW i \in 1..SpoolLimit, NEW k \in 1..SpoolLimit, i < k
                     PROVE  rest[i] < rest[k]
          BY <4>4 DEF Ordered
        <5>1. first + i - 1 \in DOMAIN all /\ first + k - 1 \in DOMAIN all /\ first + i - 1 < first + k - 1
          BY <3>1, <3>3
        <5>2. all[first + i - 1] < all[first + k - 1]
          BY <5>1, <2>8 DEF Ordered
        <5>3. QED
          BY <4>3, <5>2
      <4>6. QED
        BY <3>1, <4>1, <4>3, <4>5
    <3>4. QED
      BY <3>2, <3>3
  <2>11. QED
    BY <2>9, <2>10
<1>3. QED
  BY <1>1, <1>2

-----------------------------------------------------------------------------
(* The uploads.  While a drain runs, the file still holds what the drain is  *)
(* done with: such a sample is gone (Drained), so whatever ends the drain    *)
(* may shorten the file to what remains.  The Hub's latest sample is one it  *)
(* took (LatestTaken), so a sample it ignores is behind one it took.         *)

DeliveryTypes ==
    /\ pc \in {"wait", "read", "drain", "post", "spool", "down"}
    /\ now \in 0..MaxTimestamp /\ sent \in 0..now /\ fresh \in 0..now
    /\ late \subseteq 1..now /\ lost \subseteq 1..now /\ collected \subseteq 1..now
    /\ spool \in Seq(1..now) /\ draining \in Seq(1..now)
    /\ latest \in [Device -> 0..now] /\ taken \in [Device -> SUBSET (1..now)]
    /\ clean \in BOOLEAN

QueueSound ==
    /\ Ordered(spool) /\ Len(spool) <= SpoolLimit
    /\ Ordered(draining) /\ Len(draining) <= SpoolLimit
    /\ Elements(draining) \subseteq Elements(spool)

\* What the agent holds and waits for in each phase of a cycle.
Phases ==
    /\ pc # "drain" => draining = <<>>
    /\ pc \in {"read", "drain", "post", "spool"} => fresh = now /\ now >= 1
    /\ pc \in {"wait", "down"} => fresh = 0
    /\ sent # 0 => \/ pc = "drain" /\ draining # <<>> /\ sent = Head(draining)
                   \/ pc = "post" /\ sent = fresh

Gone(ts) ==
    \/ ts \in taken[This] \/ ts \in Invalid \/ \E t \in taken[This] : t > ts
    \/ now - ts > MaxAge

Drained == pc = "drain" => \A ts \in Elements(spool) : ts \in Elements(draining) \/ Gone(ts)

LatestTaken == latest[This] # 0 => latest[This] \in taken[This]

AllAccounted == \A ts \in collected : Held(ts) \/ Gone(ts) \/ ts \in lost

DeliveryInv ==
    /\ DeliveryTypes /\ QueueSound /\ Phases /\ Drained /\ LatestTaken
    /\ AllAccounted /\ NothingBlocks

LEMMA OneDevice == This \in Device
<1>1. Device # {}
  <2> SUFFICES ASSUME Device = {} PROVE FALSE
    OBVIOUS
  <2>1. Cardinality({}) = 0
    BY FS_EmptySet
  <2>2. QED
    BY <2>1, DeliveryAssumption
<1>2. QED
  BY <1>1 DEF This

LEMMA EmptyQueue == \A S : <<>> \in Seq(S) /\ Ordered(<<>>) /\ Elements(<<>>) = {} /\ Len(<<>>) = 0
  BY DEF Ordered, Elements

LEMMA DeliveryStarts == DeliveryInit => DeliveryInv
<1> SUFFICES ASSUME DeliveryInit PROVE DeliveryInv
  OBVIOUS
<1> USE DEF DeliveryInit, Start
<1>1. DeliveryTypes
  BY EmptyQueue, DeliveryAssumption DEF DeliveryTypes
<1>2. QueueSound
  BY EmptyQueue, DeliveryAssumption DEF QueueSound
<1>3. Phases /\ Drained /\ AllAccounted /\ NothingBlocks
  BY DEF Phases, Drained, AllAccounted, NothingBlocks
<1>4. LatestTaken
  BY OneDevice DEF LatestTaken
<1>5. QED
  BY <1>1, <1>2, <1>3, <1>4 DEF DeliveryInv

\* What is gone stays gone, in a step of the same cycle and into the next one.
LEMMA GoneStays ==
    ASSUME DeliveryTypes, NEW ts \in 1..now, Gone(ts),
           taken[This] \subseteq taken'[This], now' \in {now, now + 1}
    PROVE  Gone(ts)'
<1>1. now \in Nat /\ ts \in Nat /\ MaxAge \in Nat
  BY DeliveryAssumption DEF DeliveryTypes
<1>2. now - ts > MaxAge => now' - ts > MaxAge
  <2>1. CASE now' = now
    BY <2>1
  <2>2. CASE now' = now + 1
    BY <1>1, <2>2
  <2>3. QED
    BY <2>1, <2>2
<1>3. QED
  BY <1>2 DEF Gone

\* The Hub's answer to a sample: whatever it does, the sample is gone.
LEMMA ServeEffect ==
    ASSUME DeliveryTypes, LatestTaken, NEW ts \in 1..now, Serve(ts), now' = now
    PROVE  /\ latest' \in [Device -> 0..now] /\ taken' \in [Device -> SUBSET (1..now)]
           /\ LatestTaken' /\ taken[This] \subseteq taken'[This] /\ Gone(ts)'
<1>1. This \in Device /\ This' = This
  BY OneDevice DEF This
<1>2. now \in Nat /\ ts \in Nat /\ latest[This] \in Nat
  BY <1>1 DEF DeliveryTypes
<1>3. CASE ts \notin Invalid /\ CanTake(This, ts)
  <2>1. latest' = [latest EXCEPT ![This] = ts] /\ taken' = [taken EXCEPT ![This] = @ \cup {ts}]
    BY <1>3 DEF Serve, Take
  <2>2. latest'[This] = ts /\ taken'[This] = taken[This] \cup {ts}
    BY <2>1, <1>1 DEF DeliveryTypes
  <2>3. latest' \in [Device -> 0..now] /\ taken' \in [Device -> SUBSET (1..now)]
    <3>1. ts \in 0..now /\ latest \in [Device -> 0..now]
      BY <1>2 DEF DeliveryTypes
    <3>2. taken[This] \cup {ts} \in SUBSET (1..now) /\ taken \in [Device -> SUBSET (1..now)]
      BY <1>1 DEF DeliveryTypes
    <3>3. latest' \in [Device -> 0..now]
      BY <2>1, <3>1
    <3>4. taken' \in [Device -> SUBSET (1..now)]
      BY <2>1, <3>2
    <3>5. QED
      BY <3>3, <3>4
  <2>4. QED
    BY <1>1, <2>2, <2>3 DEF LatestTaken, Gone
<1>4. CASE ts \in Invalid
  BY <1>1, <1>4 DEF Serve, contractVars, DeliveryTypes, LatestTaken, Gone
<1>5. CASE ts \notin Invalid /\ ~CanTake(This, ts)
  <2>1. UNCHANGED contractVars
    BY <1>5 DEF Serve
  <2>2. latest[This] # 0 /\ (latest[This] = ts \/ latest[This] > ts)
    BY <1>2, <1>5 DEF CanTake
  <2>3. latest[This] \in taken[This]
    BY <2>2 DEF LatestTaken
  <2>4. Gone(ts)
    BY <2>2, <2>3 DEF Gone
  <2>5. QED
    BY <1>1, <2>1, <2>4 DEF contractVars, DeliveryTypes, LatestTaken, Gone
<1>6. QED
  BY <1>3, <1>4, <1>5

\* No sample the agent leaves out is forgotten: it is gone or counted as lost.
LEMMA StillAccounted ==
    ASSUME DeliveryInv, now' = now, collected' = collected, lost \subseteq lost',
           taken[This] \subseteq taken'[This],
           \A ts \in 1..now : Held(ts) => Held(ts)' \/ Gone(ts)' \/ ts \in lost'
    PROVE  AllAccounted'
<1> SUFFICES ASSUME NEW ts \in collected PROVE Held(ts)' \/ Gone(ts)' \/ ts \in lost'
  BY DEF AllAccounted
<1>1. DeliveryTypes /\ ts \in 1..now
  BY DEF DeliveryInv, DeliveryTypes
<1>2. Held(ts) \/ Gone(ts) \/ ts \in lost
  BY DEF DeliveryInv, AllAccounted
<1>3. Gone(ts) => Gone(ts)'
  BY <1>1, GoneStays
<1>4. QED
  BY <1>1, <1>2, <1>3

\* The same for the samples the drain is done with.
LEMMA StillDrained ==
    ASSUME DeliveryInv, now' = now, pc = "drain", spool' = spool,
           taken[This] \subseteq taken'[This],
           \A ts \in Elements(draining) : ts \in Elements(draining') \/ Gone(ts)'
    PROVE  Drained'
<1> SUFFICES ASSUME NEW ts \in Elements(spool) PROVE ts \in Elements(draining') \/ Gone(ts)'
  BY DEF Drained, Elements
<1>1. DeliveryTypes /\ ts \in 1..now
  <2>1. spool \in Seq(1..now) /\ DeliveryTypes
    BY DEF DeliveryInv, DeliveryTypes
  <2>2. QED
    BY <2>1, InElements
<1>2. ts \in Elements(draining) \/ Gone(ts)
  BY DEF DeliveryInv, Drained
<1>3. Gone(ts) => Gone(ts)'
  BY <1>1, GoneStays
<1>4. QED
  BY <1>2, <1>3

LEMMA SeqGrows ==
    ASSUME NEW S, NEW T, S \subseteq T PROVE Seq(S) \subseteq Seq(T)
<1> SUFFICES ASSUME NEW s \in Seq(S) PROVE s \in Seq(T)
  OBVIOUS
<1>1. Len(s) \in Nat /\ s \in [1..Len(s) -> S]
  BY LenProperties
<1>2. s \in [1..Len(s) -> T]
  BY <1>1
<1>3. QED
  BY <1>1, <1>2, SeqDef

\* A cycle begins, with a sample or without one.
LEMMA CycleStep == ASSUME DeliveryInv, Pause \/ Collect PROVE DeliveryInv'
<1>1. DeliveryTypes /\ QueueSound /\ Phases /\ LatestTaken /\ AllAccounted
  BY DEF DeliveryInv
<1>2. /\ now \in Nat /\ now' = now + 1 /\ now' <= MaxTimestamp /\ MaxTimestamp \in Nat
      /\ 0..now \subseteq 0..now' /\ 1..now \subseteq 1..now' /\ now' \in 1..now'
  BY <1>1, DeliveryAssumption DEF Pause, Collect, DeliveryTypes
<1>3. /\ pc = "wait" /\ fresh = 0 /\ draining = <<>> /\ sent = 0
      /\ latest' = latest /\ taken' = taken /\ online' = online
      /\ draining' = draining /\ spool' = spool /\ sent' = sent /\ late' = late /\ lost' = lost
      /\ \/ fresh' = 0 /\ pc' = "wait" /\ collected' = collected /\ clean' = clean
         \/ fresh' = now' /\ pc' = "read" /\ collected' = collected \cup {now'} /\ clean' = TRUE
  BY <1>1 DEF Pause, Collect, Phases, contractVars
<1>4. DeliveryTypes'
  <2>1. Seq(1..now) \subseteq Seq(1..now')
    BY <1>2, SeqGrows
  <2>2. spool' \in Seq(1..now') /\ draining' \in Seq(1..now')
    BY <1>1, <1>3, <2>1 DEF DeliveryTypes
  <2>3. latest' \in [Device -> 0..now'] /\ taken' \in [Device -> SUBSET (1..now')]
    BY <1>1, <1>2, <1>3 DEF DeliveryTypes
  <2>4. pc' \in {"wait", "read", "drain", "post", "spool", "down"} /\ clean' \in BOOLEAN
    BY <1>1, <1>3 DEF DeliveryTypes
  <2>5. /\ now' \in 0..MaxTimestamp /\ sent' \in 0..now' /\ fresh' \in 0..now'
        /\ late' \subseteq 1..now' /\ lost' \subseteq 1..now' /\ collected' \subseteq 1..now'
    <3>1. now' \in 0..MaxTimestamp
      BY <1>2
    <3>2. sent' \in 0..now' /\ fresh' \in 0..now'
      BY <1>2, <1>3
    <3>3. late \subseteq 1..now /\ lost \subseteq 1..now /\ collected \subseteq 1..now
      BY <1>1 DEF DeliveryTypes
    <3>4. late' \subseteq 1..now' /\ lost' \subseteq 1..now'
      BY <1>2, <1>3, <3>3
    <3>5. collected' \subseteq 1..now'
      BY <1>2, <1>3, <3>3
    <3>6. QED
      BY <3>1, <3>2, <3>4, <3>5
  <2>6. QED
    BY <2>2, <2>3, <2>4, <2>5 DEF DeliveryTypes
<1>5. QueueSound' /\ Phases' /\ Drained' /\ NothingBlocks'
  BY <1>1, <1>2, <1>3 DEF QueueSound, Ordered, Elements, Phases, Drained, NothingBlocks
<1>6. LatestTaken'
  BY <1>1, <1>3 DEF LatestTaken, This
<1>7. AllAccounted'
  <2> SUFFICES ASSUME NEW ts \in collected' PROVE Held(ts)' \/ Gone(ts)' \/ ts \in lost'
    BY DEF AllAccounted
  <2>1. CASE ts \notin collected
    BY <1>3, <2>1 DEF Held
  <2>2. CASE ts \in collected
    <3>1. ts \in 1..now
      BY <1>1, <2>2 DEF DeliveryTypes
    <3>2. Held(ts) => Held(ts)'
      BY <1>2, <1>3, <3>1 DEF Held, Elements
    <3>3. Gone(ts) => Gone(ts)'
      <4>1. This' = This /\ taken[This] \subseteq taken'[This]
        BY <1>3 DEF This
      <4>2. QED
        BY <1>1, <1>2, <3>1, <4>1, GoneStays
    <3>4. QED
      BY <1>1, <1>3, <2>2, <3>2, <3>3 DEF AllAccounted
  <2>3. QED
    BY <2>1, <2>2
<1>8. QED
  BY <1>4, <1>5, <1>6, <1>7 DEF DeliveryInv

\* The drain begins with what is young enough; the rest is gone by its age.
LEMMA ReadStep == ASSUME DeliveryInv, ReadSpool PROVE DeliveryInv'
<1>1. DeliveryTypes /\ QueueSound /\ Phases /\ LatestTaken /\ NothingBlocks
  BY DEF DeliveryInv
<1>2. /\ pc = "read" /\ sent = 0 /\ now' = now /\ fresh' = fresh /\ spool' = spool /\ sent' = sent
      /\ late' = late /\ lost' = lost /\ collected' = collected
      /\ latest' = latest /\ taken' = taken /\ This' = This
      /\ \/ draining' = Prune(spool) /\ pc' = "drain" /\ clean' = clean
         \/ draining' = <<>> /\ pc' = "post" /\ clean' = FALSE
  BY <1>1 DEF ReadSpool, Phases, contractVars, Fault, NoFault, This
<1>3. /\ now \in Nat /\ MaxAge \in Nat /\ spool \in Seq(1..now) /\ Ordered(spool) /\ Len(spool) <= SpoolLimit
      /\ SpoolLimit \in Nat /\ 1..now \in SUBSET Nat
  BY <1>1, DeliveryAssumption DEF DeliveryTypes, QueueSound
<1>4. /\ Prune(spool) \in Seq(1..now) /\ Len(Prune(spool)) <= Len(spool) /\ Ordered(Prune(spool))
      /\ Elements(Prune(spool)) = {ts \in Elements(spool) : now - ts <= MaxAge}
  BY <1>3, PruneKeepsOrder
<1>5. /\ draining' \in Seq(1..now) /\ Ordered(draining') /\ Len(draining') <= SpoolLimit
      /\ Elements(draining') \subseteq Elements(spool)
  <2>1. Len(Prune(spool)) <= SpoolLimit
    <3>1. Len(spool) \in Nat /\ Len(Prune(spool)) \in Nat
      BY <1>3, <1>4, LenProperties
    <3>2. QED
      BY <1>3, <1>4, <3>1
  <2>2. CASE draining' = Prune(spool)
    BY <1>4, <2>1, <2>2
  <2>3. CASE draining' = <<>>
    BY <1>3, <2>3, EmptyQueue
  <2>4. QED
    BY <1>2, <2>2, <2>3
<1>6. DeliveryTypes' /\ QueueSound'
  BY <1>1, <1>2, <1>5 DEF DeliveryTypes, QueueSound, Ordered, Elements
<1>7. Phases' /\ NothingBlocks' /\ LatestTaken'
  BY <1>1, <1>2 DEF Phases, NothingBlocks, LatestTaken
<1>8. Drained'
  <2> SUFFICES ASSUME pc' = "drain", NEW ts \in Elements(spool) PROVE ts \in Elements(draining') \/ Gone(ts)'
    BY <1>2 DEF Drained, Elements
  <2>1. ts \in Nat
    BY <1>3, InElements
  <2>2. draining' = Prune(spool)
    BY <1>2
  <2>3. CASE now - ts <= MaxAge
    BY <1>4, <2>2, <2>3
  <2>4. CASE ~(now - ts <= MaxAge)
    BY <1>2, <1>3, <2>1, <2>4 DEF Gone
  <2>5. QED
    BY <2>3, <2>4
<1>9. AllAccounted'
  <2>1. \A ts \in 1..now : Held(ts) => Held(ts)'
    BY <1>2 DEF Held, Elements
  <2>2. QED
    BY <1>2, <2>1, StillAccounted
<1>10. QED
  BY <1>6, <1>7, <1>8, <1>9 DEF DeliveryInv

LEMMA SendStep == ASSUME DeliveryInv, Send PROVE DeliveryInv'
<1>1. DeliveryTypes /\ QueueSound /\ Phases /\ Drained /\ LatestTaken /\ AllAccounted /\ NothingBlocks
  BY DEF DeliveryInv
<1>2. /\ now' = now /\ pc' = pc /\ fresh' = fresh /\ draining' = draining /\ spool' = spool
      /\ late' = late /\ lost' = lost /\ collected' = collected /\ clean' = clean
      /\ latest' = latest /\ taken' = taken /\ This' = This
      /\ \/ pc = "drain" /\ draining # <<>> /\ sent' = Head(draining)
         \/ pc = "post" /\ sent' = fresh
  BY DEF Send, contractVars, This
<1>3. sent' \in 0..now
  <2>1. now \in Nat /\ fresh \in 0..now /\ draining \in Seq(1..now)
    BY <1>1 DEF DeliveryTypes
  <2>2. draining # <<>> => Head(draining) \in 1..now
    BY <2>1, HeadTailProperties
  <2>3. QED
    BY <1>2, <2>1, <2>2
<1>4. DeliveryTypes' /\ QueueSound' /\ Phases'
  <2>1. DeliveryTypes'
    BY <1>1, <1>2, <1>3 DEF DeliveryTypes
  <2>2. QueueSound'
    BY <1>1, <1>2 DEF QueueSound, Ordered, Elements
  <2>3. Phases'
    BY <1>1, <1>2 DEF Phases
  <2>4. QED
    BY <2>1, <2>2, <2>3
<1>5. Drained' /\ LatestTaken' /\ AllAccounted' /\ NothingBlocks'
  BY <1>1, <1>2 DEF Drained, Elements, Gone, LatestTaken, AllAccounted, Held, NothingBlocks
<1>6. QED
  BY <1>4, <1>5 DEF DeliveryInv

\* An answer.  In a drain the sample served was the head of what remains; in
\* the loop it was the fresh one.
LEMMA AnswerStep == ASSUME DeliveryInv, Answered PROVE DeliveryInv'
<1>1. DeliveryTypes /\ QueueSound /\ Phases /\ LatestTaken /\ NothingBlocks
  BY DEF DeliveryInv
<1>2. /\ sent # 0 /\ sent' = 0 /\ Serve(sent) /\ (Refused \/ Accepted)
      /\ now' = now /\ late' = late /\ lost' = lost /\ collected' = collected /\ clean' = clean /\ This' = This
  BY DEF Answered, This
<1>3. sent \in 1..now /\ now \in Nat /\ 1..now \in SUBSET Nat
  BY <1>1, <1>2 DEF DeliveryTypes
<1>A. PICK ts \in 1..now : ts = sent
  BY <1>3
<1>4. /\ latest' \in [Device -> 0..now] /\ taken' \in [Device -> SUBSET (1..now)]
      /\ LatestTaken' /\ taken[This] \subseteq taken'[This] /\ Gone(ts)'
  <2>1. Serve(ts)
    BY <1>2, <1>A
  <2>2. QED
    BY <1>1, <1>2, <2>1, ServeEffect
<1>5. CASE pc = "drain"
  <2>1. draining # <<>> /\ sent = Head(draining)
    BY <1>1, <1>2, <1>5 DEF Phases
  <2>2. draining' = Tail(draining) /\ pc' = pc /\ fresh' = fresh /\ spool' = spool
    BY <1>2, <1>5 DEF Refused, Accepted, KeepFresh
  <2>3. /\ Tail(draining) \in Seq(1..now) /\ Len(Tail(draining)) <= Len(draining) /\ Ordered(Tail(draining))
        /\ Elements(draining) = {sent} \cup Elements(Tail(draining))
    <3>1. draining \in Seq(1..now) /\ Ordered(draining)
      BY <1>1 DEF DeliveryTypes, QueueSound
    <3>2. QED
      BY <1>3, <2>1, <3>1, TailOrdered
  <2>4. Len(Tail(draining)) <= SpoolLimit
    <3>1. Len(draining) \in Nat /\ Len(Tail(draining)) \in Nat /\ Len(draining) <= SpoolLimit /\ SpoolLimit \in Nat
      BY <1>1, <2>3, LenProperties, DeliveryAssumption DEF DeliveryTypes, QueueSound
    <3>2. QED
      BY <2>3, <3>1
  <2>5. DeliveryTypes' /\ QueueSound'
    <3>1. DeliveryTypes'
      BY <1>1, <1>2, <1>3, <1>4, <2>2, <2>3 DEF DeliveryTypes
    <3>2. Ordered(spool)' /\ Ordered(draining)'
      BY <1>1, <2>2, <2>3 DEF QueueSound, Ordered
    <3>3. Elements(draining)' \subseteq Elements(spool)'
      BY <1>1, <2>2, <2>3 DEF QueueSound, Elements
    <3>4. QED
      BY <1>1, <2>2, <2>4, <3>1, <3>2, <3>3 DEF QueueSound
  <2>6. Phases' /\ NothingBlocks'
    BY <1>1, <1>2, <1>5, <2>2 DEF Phases, NothingBlocks
  <2>7. Drained'
    <3>1. \A x \in Elements(draining) : x \in Elements(draining') \/ Gone(x)'
      BY <1>4, <1>A, <2>2, <2>3
    <3>2. QED
      BY <1>2, <1>4, <1>5, <2>2, <3>1, StillDrained
  <2>8. AllAccounted'
    <3>1. \A x \in 1..now : Held(x) => Held(x)'
      BY <2>2 DEF Held, Elements
    <3>2. QED
      BY <1>2, <1>4, <3>1, StillAccounted
  <2>9. QED
    BY <1>4, <2>5, <2>6, <2>7, <2>8 DEF DeliveryInv
<1>6. CASE pc = "post"
  <2>1. /\ sent = fresh /\ draining = <<>> /\ draining' = draining /\ spool' = spool
        /\ \/ pc' = "spool" /\ fresh' = fresh
           \/ pc' = "wait" /\ fresh' = 0
    BY <1>1, <1>2, <1>6 DEF Phases, Refused, Accepted, KeepFresh
  <2>2. DeliveryTypes' /\ QueueSound'
    <3>1. DeliveryTypes'
      BY <1>1, <1>2, <1>3, <1>4, <2>1 DEF DeliveryTypes
    <3>2. QueueSound'
      BY <1>1, <2>1 DEF QueueSound, Ordered, Elements
    <3>3. QED
      BY <3>1, <3>2
  <2>3. Phases' /\ NothingBlocks' /\ Drained'
    BY <1>1, <1>2, <1>6, <2>1 DEF Phases, NothingBlocks, Drained
  <2>4. AllAccounted'
    <3>1. \A x \in 1..now : Held(x) => Held(x)' \/ Gone(x)'
      BY <1>4, <1>A, <2>1 DEF Held, Elements
    <3>2. QED
      BY <1>2, <1>4, <3>1, StillAccounted
  <2>5. QED
    BY <1>4, <2>2, <2>3, <2>4 DEF DeliveryInv
<1>7. QED
  BY <1>1, <1>2, <1>5, <1>6 DEF Phases

\* A failure.  The drain stops and may write back what remains: what it leaves
\* out of the file is gone.
LEMMA FailStep == ASSUME DeliveryInv, Failed PROVE DeliveryInv'
<1>1. DeliveryTypes /\ QueueSound /\ Phases /\ Drained /\ LatestTaken
  BY DEF DeliveryInv
<1>2. /\ sent # 0 /\ sent' = 0 /\ (StopDrain \/ KeepFresh) /\ clean' = FALSE
      /\ late' \in {late, late \cup {sent}}
      /\ now' = now /\ lost' = lost /\ collected' = collected
      /\ latest' = latest /\ taken' = taken /\ This' = This
  BY DEF Failed, Fault, contractVars, This
<1>3. sent \in 1..now /\ now \in Nat
  BY <1>1, <1>2 DEF DeliveryTypes
<1>A. late' \subseteq 1..now /\ sent' \in 0..now
  <2>1. late \subseteq 1..now
    BY <1>1 DEF DeliveryTypes
  <2>2. QED
    BY <1>2, <1>3, <2>1
<1>4. CASE StopDrain
  <2>1. pc = "drain" /\ pc' = "post" /\ draining' = <<>> /\ spool' \in {draining, spool} /\ fresh' = fresh
    BY <1>4 DEF StopDrain, Remaining
  <2>2. DeliveryTypes' /\ QueueSound'
    <3>1. draining' \in Seq(1..now) /\ spool' \in Seq(1..now)
      BY <1>1, <2>1, EmptyQueue DEF DeliveryTypes
    <3>2. DeliveryTypes'
      BY <1>1, <1>2, <1>A, <2>1, <3>1 DEF DeliveryTypes
    <3>3. Ordered(<<>>) /\ Elements(<<>>) = {} /\ Len(<<>>) <= SpoolLimit
      BY EmptyQueue, DeliveryAssumption
    <3>4. Ordered(draining') /\ Elements(draining') = {} /\ Len(draining') <= SpoolLimit
      BY <2>1, <3>3
    <3>5. Ordered(spool') /\ Len(spool') <= SpoolLimit
      BY <1>1, <2>1 DEF QueueSound
    <3>6. QED
      BY <3>2, <3>4, <3>5 DEF QueueSound, Ordered, Elements
  <2>3. Phases' /\ Drained' /\ NothingBlocks' /\ LatestTaken'
    BY <1>1, <1>2, <2>1 DEF Phases, Drained, NothingBlocks, LatestTaken
  <2>4. AllAccounted'
    <3>1. ASSUME NEW ts \in 1..now, Held(ts) PROVE Held(ts)' \/ Gone(ts)'
      <4>1. CASE fresh = ts
        BY <2>1, <4>1 DEF Held
      <4>2. CASE ts \in Elements(spool)
        <5>1. ts \in Elements(draining) \/ Gone(ts)
          BY <1>1, <2>1, <4>2 DEF Drained
        <5>2. ts \in Elements(draining) => ts \in Elements(spool')
          BY <1>1, <2>1, <4>2 DEF QueueSound
        <5>3. Gone(ts) => Gone(ts)'
          BY <1>2 DEF Gone
        <5>4. QED
          BY <5>1, <5>2, <5>3 DEF Held, Elements
      <4>3. QED
        BY <3>1, <4>1, <4>2 DEF Held
    <3>2. QED
      BY <1>2, <3>1, StillAccounted
  <2>5. QED
    BY <2>2, <2>3, <2>4 DEF DeliveryInv
<1>5. CASE KeepFresh
  <2>1. pc = "post" /\ pc' = "spool" /\ fresh' = fresh /\ draining' = draining /\ spool' = spool
    BY <1>5 DEF KeepFresh
  <2>2. DeliveryTypes' /\ QueueSound'
    <3>1. DeliveryTypes'
      BY <1>1, <1>2, <1>A, <2>1 DEF DeliveryTypes
    <3>2. QueueSound'
      BY <1>1, <2>1 DEF QueueSound, Ordered, Elements
    <3>3. QED
      BY <3>1, <3>2
  <2>3. Phases' /\ Drained' /\ NothingBlocks' /\ LatestTaken'
    BY <1>1, <1>2, <2>1 DEF Phases, Drained, NothingBlocks, LatestTaken
  <2>4. AllAccounted'
    <3>1. \A ts \in 1..now : Held(ts) => Held(ts)'
      BY <2>1 DEF Held, Elements
    <3>2. QED
      BY <1>2, <3>1, StillAccounted
  <2>5. QED
    BY <2>2, <2>3, <2>4 DEF DeliveryInv
<1>6. QED
  BY <1>2, <1>4, <1>5

\* The drain ends with nothing left of it: every sample in the file is gone.
LEMMA EndStep == ASSUME DeliveryInv, EndDrain PROVE DeliveryInv'
<1>1. DeliveryTypes /\ QueueSound /\ Phases /\ Drained /\ LatestTaken
  BY DEF DeliveryInv
<1>2. /\ pc = "drain" /\ draining = <<>> /\ sent = 0 /\ pc' = "post"
      /\ spool' = <<>> \/ (clean' = FALSE /\ spool' = spool)
      /\ clean' \in {clean, FALSE}
      /\ now' = now /\ fresh' = fresh /\ draining' = draining /\ sent' = sent /\ late' = late
      /\ lost' = lost /\ collected' = collected /\ latest' = latest /\ taken' = taken /\ This' = This
  BY DEF EndDrain, Fault, NoFault, contractVars, This
<1>3. DeliveryTypes'
  <2>1. spool' \in Seq(1..now)
    BY <1>1, <1>2, EmptyQueue DEF DeliveryTypes
  <2>2. QED
    BY <1>1, <1>2, <2>1 DEF DeliveryTypes
<1>4. QueueSound'
  <2>1. Ordered(<<>>) /\ Elements(<<>>) = {} /\ Len(<<>>) <= SpoolLimit
    BY EmptyQueue, DeliveryAssumption
  <2>2. Ordered(spool') /\ Len(spool') <= SpoolLimit
    BY <1>1, <1>2, <2>1 DEF QueueSound
  <2>3. Ordered(draining') /\ Elements(draining') = {} /\ Len(draining') <= SpoolLimit
    BY <1>2, <2>1
  <2>4. QED
    BY <2>2, <2>3 DEF QueueSound, Ordered, Elements
<1>5. Phases' /\ Drained' /\ LatestTaken' /\ NothingBlocks'
  BY <1>1, <1>2 DEF Phases, Drained, LatestTaken, NothingBlocks
<1>6. AllAccounted'
  <2>1. ASSUME NEW ts \in 1..now, Held(ts) PROVE Held(ts)' \/ Gone(ts)'
    <3>1. CASE fresh = ts
      BY <1>2, <3>1 DEF Held
    <3>2. CASE ts \in Elements(spool)
      <4>1. Gone(ts)
        BY <1>1, <1>2, <3>2, EmptyQueue DEF Drained
      <4>2. QED
        BY <1>2, <4>1 DEF Gone
    <3>3. QED
      BY <2>1, <3>1, <3>2 DEF Held
  <2>2. QED
    BY <1>2, <2>1, StillAccounted
<1>7. QED
  BY <1>3, <1>4, <1>5, <1>6 DEF DeliveryInv

\* The fresh sample is queued; what pruning leaves out is gone by its age, what
\* the limit leaves out is counted as lost.
LEMMA EnqueueStep == ASSUME DeliveryInv, Enqueue PROVE DeliveryInv'
<1> DEFINE entries == Prune(spool)
           kept == Queued(entries, fresh)
<1>1. DeliveryTypes /\ QueueSound /\ Phases /\ LatestTaken
  BY DEF DeliveryInv
<1>2. /\ pc = "spool" /\ pc' = "wait" /\ fresh' = 0 /\ fresh = now /\ fresh \in 1..now
      /\ draining = <<>> /\ sent = 0
      /\ now' = now /\ draining' = draining /\ sent' = sent /\ late' = late /\ collected' = collected
      /\ latest' = latest /\ taken' = taken /\ This' = This
      /\ \/ /\ spool' = kept /\ clean' = clean
            /\ lost' = lost \cup ((Elements(entries) \cup {fresh}) \ Elements(kept))
         \/ /\ spool' = spool /\ clean' = FALSE
            /\ lost' = lost \cup {fresh}
  BY <1>1 DEF Enqueue, Fault, NoFault, contractVars, This, Phases, DeliveryTypes
<1>3. /\ now \in Nat /\ MaxAge \in Nat /\ spool \in Seq(1..now) /\ Ordered(spool) /\ Len(spool) <= SpoolLimit
      /\ SpoolLimit \in Nat /\ 1..now \in SUBSET Nat
  BY <1>1, DeliveryAssumption DEF DeliveryTypes, QueueSound
<1>4. /\ entries \in Seq(1..now) /\ Len(entries) <= Len(spool) /\ Ordered(entries)
      /\ Elements(entries) = {ts \in Elements(spool) : now - ts <= MaxAge}
  BY <1>3, PruneKeepsOrder
<1>5. Len(entries) <= SpoolLimit
  <2>1. Len(spool) \in Nat /\ Len(entries) \in Nat
    BY <1>3, <1>4, LenProperties
  <2>2. QED
    BY <1>3, <1>4, <2>1
<1> HIDE DEF entries
<1>6. kept \in Seq(1..now) /\ Ordered(kept) /\ Len(kept) <= SpoolLimit
  BY <1>2, <1>3, <1>4, <1>5, QueuedOrdered
<1> HIDE DEF kept
<1>7. Elements(entries) \subseteq 1..now
  BY <1>4, InElements
<1>8. DeliveryTypes'
  <2>1. spool' \in Seq(1..now)
    BY <1>2, <1>3, <1>6
  <2>2. lost' \subseteq 1..now
    <3>1. lost \subseteq 1..now
      BY <1>1 DEF DeliveryTypes
    <3>2. QED
      BY <1>2, <1>7, <3>1
  <2>3. pc' \in {"wait", "read", "drain", "post", "spool", "down"} /\ fresh' \in 0..now /\ clean' \in BOOLEAN
    BY <1>1, <1>2, <1>3 DEF DeliveryTypes
  <2>4. QED
    BY <1>1, <1>2, <2>1, <2>2, <2>3 DEF DeliveryTypes
<1>9. QueueSound'
  <2>1. Ordered(<<>>) /\ Elements(<<>>) = {} /\ Len(<<>>) <= SpoolLimit
    BY EmptyQueue, DeliveryAssumption
  <2>2. Ordered(spool') /\ Len(spool') <= SpoolLimit
    BY <1>2, <1>3, <1>6
  <2>3. Ordered(draining') /\ Elements(draining') = {} /\ Len(draining') <= SpoolLimit
    BY <1>2, <2>1
  <2>4. QED
    BY <2>2, <2>3 DEF QueueSound, Ordered, Elements
<1>10. Phases' /\ Drained' /\ LatestTaken' /\ NothingBlocks'
  BY <1>1, <1>2 DEF Phases, Drained, LatestTaken, NothingBlocks
<1>11. AllAccounted'
  <2>1. ASSUME NEW ts \in 1..now, Held(ts) PROVE Held(ts)' \/ Gone(ts)' \/ ts \in lost'
    <3>1. CASE spool' = spool /\ lost' = lost \cup {fresh}
      BY <2>1, <3>1 DEF Held, Elements
    <3>2. CASE spool' = kept /\ lost' = lost \cup ((Elements(entries) \cup {fresh}) \ Elements(kept))
      <4>1. CASE ts \in Elements(entries) \cup {fresh}
        <5>1. ts \in Elements(kept) \/ ts \in lost'
          BY <3>2, <4>1
        <5>2. ts \in Elements(kept) => ts \in Elements(spool)'
          BY <3>2 DEF Elements
        <5>3. QED
          BY <5>1, <5>2 DEF Held
      <4>2. CASE ts \notin Elements(entries) \cup {fresh}
        <5>1. ts \in Elements(spool) /\ ~(now - ts <= MaxAge)
          BY <1>4, <2>1, <4>2 DEF Held
        <5>2. now - ts > MaxAge
          BY <1>3, <5>1
        <5>3. QED
          BY <1>2, <5>2 DEF Gone
      <4>3. QED
        BY <4>1, <4>2
    <3>3. QED
      BY <1>2, <3>1, <3>2
  <2>2. lost \subseteq lost'
    BY <1>2
  <2>3. QED
    BY <1>2, <2>1, <2>2, StillAccounted
<1>12. QED
  BY <1>8, <1>9, <1>10, <1>11 DEF DeliveryInv

\* A request that arrives late changes the Hub's side only.
LEMMA LateStep == ASSUME DeliveryInv, ServeLate PROVE DeliveryInv'
<1>1. DeliveryTypes /\ QueueSound /\ Phases /\ Drained /\ LatestTaken /\ NothingBlocks
  BY DEF DeliveryInv
<1>2. /\ now' = now /\ pc' = pc /\ fresh' = fresh /\ draining' = draining /\ spool' = spool /\ sent' = sent
      /\ lost' = lost /\ collected' = collected /\ clean' = clean /\ This' = This
  BY DEF ServeLate, This
<1>3. PICK ts \in late : Serve(ts) /\ late' = late \ {ts}
  BY DEF ServeLate
<1>4. ts \in 1..now /\ late \subseteq 1..now
  BY <1>1, <1>3 DEF DeliveryTypes
<1>5. /\ latest' \in [Device -> 0..now] /\ taken' \in [Device -> SUBSET (1..now)]
      /\ LatestTaken' /\ taken[This] \subseteq taken'[This]
  BY <1>1, <1>2, <1>3, <1>4, ServeEffect
<1>6. DeliveryTypes'
  <2>1. late' \subseteq 1..now
    BY <1>3, <1>4
  <2>2. QED
    BY <1>1, <1>2, <1>5, <2>1 DEF DeliveryTypes
<1>7. QueueSound' /\ Phases' /\ NothingBlocks'
  BY <1>1, <1>2 DEF QueueSound, Ordered, Elements, Phases, NothingBlocks
<1>8. Drained'
  <2>1. CASE pc = "drain"
    BY <1>2, <1>5, <2>1, StillDrained
  <2>2. CASE pc # "drain"
    BY <1>2, <2>2 DEF Drained
  <2>3. QED
    BY <2>1, <2>2
<1>9. AllAccounted'
  <2>1. \A x \in 1..now : Held(x) => Held(x)'
    BY <1>2 DEF Held, Elements
  <2>2. QED
    BY <1>2, <1>5, <2>1, StillAccounted
<1>10. QED
  BY <1>5, <1>6, <1>7, <1>8, <1>9 DEF DeliveryInv

\* A kill loses the sample in hand, and nothing of the queue: the file is intact.
LEMMA KillStep == ASSUME DeliveryInv, Kill PROVE DeliveryInv'
<1>1. DeliveryTypes /\ QueueSound /\ LatestTaken
  BY DEF DeliveryInv
<1>2. /\ pc' = "down" /\ fresh' = 0 /\ draining' = <<>> /\ sent' = 0 /\ clean' = FALSE
      /\ late' \in {late, late \cup ({sent} \ {0})}
      /\ lost' = lost \cup ({fresh} \ {0})
      /\ now' = now /\ spool' = spool /\ collected' = collected
      /\ latest' = latest /\ taken' = taken /\ This' = This
  BY DEF Kill, contractVars, This
<1>3. DeliveryTypes'
  <2>1. /\ late \subseteq 1..now /\ lost \subseteq 1..now /\ now \in Nat
        /\ {sent} \ {0} \subseteq 1..now /\ {fresh} \ {0} \subseteq 1..now
    BY <1>1 DEF DeliveryTypes
  <2>2. late' \subseteq 1..now /\ lost' \subseteq 1..now /\ fresh' \in 0..now /\ sent' \in 0..now
    <3>1. late' \subseteq 1..now
      BY <1>2, <2>1
    <3>2. lost' \subseteq 1..now
      BY <1>2, <2>1
    <3>3. 0 \in 0..now
      BY <2>1
    <3>4. QED
      BY <1>2, <3>1, <3>2, <3>3
  <2>3. draining' \in Seq(1..now) /\ pc' \in {"wait", "read", "drain", "post", "spool", "down"} /\ clean' \in BOOLEAN
    BY <1>2, EmptyQueue
  <2>4. QED
    BY <1>1, <1>2, <2>2, <2>3 DEF DeliveryTypes
<1>4. QueueSound'
  <2>1. Ordered(<<>>) /\ Elements(<<>>) = {} /\ Len(<<>>) <= SpoolLimit
    BY EmptyQueue, DeliveryAssumption
  <2>2. Ordered(draining') /\ Elements(draining') = {} /\ Len(draining') <= SpoolLimit
    BY <1>2, <2>1
  <2>3. Ordered(spool') /\ Len(spool') <= SpoolLimit
    BY <1>1, <1>2 DEF QueueSound
  <2>4. QED
    BY <2>2, <2>3 DEF QueueSound, Ordered, Elements
<1>5. Phases' /\ Drained' /\ NothingBlocks' /\ LatestTaken'
  BY <1>1, <1>2 DEF Phases, Drained, NothingBlocks, LatestTaken
<1>6. AllAccounted'
  <2>1. \A ts \in 1..now : Held(ts) => Held(ts)' \/ ts \in lost'
    BY <1>2 DEF Held, Elements
  <2>2. QED
    BY <1>2, <2>1, StillAccounted
<1>7. QED
  BY <1>3, <1>4, <1>5, <1>6 DEF DeliveryInv

LEMMA RestartStep == ASSUME DeliveryInv, Restart \/ UNCHANGED deliveryVars PROVE DeliveryInv'
<1>1. DeliveryTypes /\ QueueSound /\ Phases /\ Drained /\ LatestTaken /\ AllAccounted /\ NothingBlocks
  BY DEF DeliveryInv
<1>2. /\ now' = now /\ fresh' = fresh /\ draining' = draining /\ spool' = spool /\ sent' = sent
      /\ late' = late /\ lost' = lost /\ collected' = collected /\ clean' = clean
      /\ latest' = latest /\ taken' = taken /\ This' = This
      /\ pc' = pc \/ (pc = "down" /\ pc' = "wait")
  BY DEF Restart, deliveryVars, contractVars, This
<1>3. DeliveryTypes'
  BY <1>1, <1>2 DEF DeliveryTypes
<1>4. QueueSound'
  BY <1>1, <1>2 DEF QueueSound, Ordered, Elements
<1>5. Phases'
  BY <1>1, <1>2 DEF Phases
<1>6. Drained' /\ LatestTaken' /\ AllAccounted' /\ NothingBlocks'
  BY <1>1, <1>2 DEF Drained, Gone, Elements, LatestTaken, AllAccounted, Held, NothingBlocks
<1>7. QED
  BY <1>3, <1>4, <1>5, <1>6 DEF DeliveryInv

LEMMA DeliveryStep == DeliveryInv /\ [DeliveryNext]_deliveryVars => DeliveryInv'
<1> SUFFICES ASSUME DeliveryInv, [DeliveryNext]_deliveryVars PROVE DeliveryInv'
  OBVIOUS
<1>1. QED
  BY CycleStep, ReadStep, SendStep, AnswerStep, FailStep, EndStep, EnqueueStep, LateStep, KillStep,
     RestartStep DEF DeliveryNext, Cycle

LEMMA DeliveryInvSuffices == DeliveryInv => DeliverySound
<1> SUFFICES ASSUME DeliveryInv PROVE DeliverySound
  OBVIOUS
<1>1. DeliveryTypes /\ QueueSound /\ AllAccounted /\ NothingBlocks
  BY DEF DeliveryInv
<1>2. \A i \in 1..(Len(spool) - 1) : spool[i] < spool[i + 1]
  <2>1. spool \in Seq(1..now) /\ Ordered(spool)
    BY <1>1 DEF DeliveryTypes, QueueSound
  <2>2. Len(spool) \in Nat /\ DOMAIN spool = 1..Len(spool)
    BY <2>1, LenProperties
  <2>3. QED
    BY <2>1, <2>2 DEF Ordered
<1>3. SpoolSound
  BY <1>1, <1>2 DEF SpoolSound, DeliveryTypes, QueueSound
<1>4. Accounted
  BY <1>1 DEF Accounted, AllAccounted, Gone
<1>5. QED
  BY <1>1, <1>3, <1>4 DEF DeliverySound

\* Over refusals, lost and late answers, a full or failing spool and kills: no
\* sample leaves the agent unaccounted for, the pending store stays in order and
\* within its limit, and a drain that met no failure leaves nothing behind
\* (agents/main.go, PendingStore.drain and enqueue, the upload loop).
THEOREM DeliverySoundHolds == DeliverySpec => []DeliverySound
<1>1. DeliveryInit => DeliveryInv
  BY DeliveryStarts
<1>2. DeliveryInv /\ [DeliveryNext]_deliveryVars => DeliveryInv'
  BY DeliveryStep
<1>3. DeliveryInv => DeliverySound
  BY DeliveryInvSuffices
<1>4. QED
  BY <1>1, <1>2, <1>3, PTL DEF DeliverySpec

-----------------------------------------------------------------------------
(* AgentSupervisor                                                         *)

\* Processes that have not been dealt with, and those that have.
Open == {c \in Collectors : procs[c] \in {"running", "ended"}}
Reaped == {c \in Collectors : procs[c] = "reaped"}

Stops == [op : {"none", "stop", "restart", "config", "shutdown"}, child : 0 .. MaxCollectors]

\* The types that SupTypeOK leaves out.
SupTypes ==
    /\ recordingOn \in BOOLEAN /\ autoRestartOn \in BOOLEAN /\ stopRequested \in BOOLEAN
    /\ autoRestarting \in BOOLEAN /\ raced \in BOOLEAN /\ stale \in BOOLEAN
    /\ stops \in [Controllers -> Stops]

\* Processes are numbered in the order in which they are started.
InOrder(ps, n) == \A c \in Collectors : ps[c] # "none" <=> c <= n
StartedInOrder == \E n \in 0 .. MaxCollectors : InOrder(procs, n)

\* Every restart that is due comes from an exit of its own.
DueCounted == restartsDue <= Cardinality(Reaped)

\* What runs is what the backend knows of, and what a stop waits for.
KnownRuns == ~raced => Alive \subseteq {cmd} /\ \A h \in Waiting : cmd \in {0, stops[h].child}

\* A due restart and a process that is not dealt with exclude one another.
OneOpen == ~raced /\ ~stale => (restartsDue > 0 => Open = {}) /\ \A c, e \in Open : c = e

\* Nothing that is still to come will start a collector.
Settled == stopRequested \/ (Open = {} /\ restartsDue = 0)

StopsSettled ==
    ~raced /\ ~stale =>
        /\ Waiting # {} => Settled
        /\ intent = "stop" \/ closing = "stopped" => Settled /\ Alive = {}

\* The flag of a stop does not outlast the start that follows it.
RunIsWanted == intent = "run" /\ Waiting = {} => ~stopRequested

DownIsStopped == backend = "down" => closing = "stopped"

SupInv ==
    /\ SupTypes /\ SupTypeOK /\ StartedInOrder /\ DueCounted
    /\ KnownRuns /\ OneOpen /\ StopsSettled
    /\ RunIsWanted /\ DownIsStopped /\ CrashIsRestarted

ProcStates == {"none", "running", "ended", "reaped"}

-----------------------------------------------------------------------------
(* Starting a collector *)

\* The number of the next process.
LEMMA StartedCount ==
    ASSUME NEW n \in 0 .. MaxCollectors, InOrder(procs, n)
    PROVE  Started = n
<1>1. {c \in Collectors : procs[c] # "none"} = 1 .. n
  BY SupervisorAssumption DEF InOrder, Collectors
<1>2. Cardinality(1 .. n) = n
  BY SupervisorAssumption, FS_Interval
<1>3. QED
  BY <1>1, <1>2 DEF Started

LEMMA ReapedCount ==
    IsFiniteSet(Reaped) /\ Cardinality(Reaped) \in Nat /\ Cardinality(Reaped) <= MaxCollectors
<1>1. IsFiniteSet(Collectors) /\ Cardinality(Collectors) = MaxCollectors
  BY SupervisorAssumption, FS_Interval DEF Collectors
<1>2. Reaped \subseteq Collectors
  BY DEF Reaped
<1>3. QED
  BY <1>1, <1>2, FS_Subset, FS_CardinalityType

\* startChildLocked starts a process that has not been used, whatever the
\* caller did to the ones before.
LEMMA StartsNew ==
    ASSUME SupInv,
           NEW ps \in [Collectors -> ProcStates], NEW others, StartChild(ps, others),
           \A c \in Collectors : /\ ps[c] = "none" <=> procs[c] = "none"
                                 /\ ps[c] = "reaped" <=> procs[c] = "reaped"
    PROVE  \E m \in Collectors :
              /\ ps[m] = "none" /\ m # 0
              /\ procs' = [ps EXCEPT ![m] = "running"] /\ cmd' = m
              /\ StartedInOrder' /\ Reaped' = Reaped
<1>1. PICK n \in 0 .. MaxCollectors : InOrder(procs, n)
  BY DEF SupInv, StartedInOrder
<1>2. Started = n /\ n + 1 \in Collectors
  BY <1>1, StartedCount, SupervisorAssumption DEF StartChild, Collectors
<1>3. procs' = [ps EXCEPT ![n + 1] = "running"] /\ cmd' = n + 1 /\ n + 1 # 0
  BY <1>1, <1>2 DEF StartChild
<1>4. ps[n + 1] = "none" /\ procs[n + 1] # "reaped"
  BY <1>1, <1>2 DEF InOrder
<1>5. InOrder(procs', n + 1)
  BY <1>1, <1>2, <1>3, SupervisorAssumption DEF InOrder, Collectors
<1>6. StartedInOrder'
  BY <1>2, <1>5 DEF StartedInOrder, Collectors
<1>7. Reaped' = Reaped
  BY <1>2, <1>3, <1>4 DEF Reaped
<1>8. QED
  BY <1>2, <1>3, <1>4, <1>6, <1>7

\* A start keeps the invariant if nothing runs when nobody else asked for a
\* process, and if no stop is over or awaited that should have prevented it.
LEMMA StartStep ==
    ASSUME SupInv,
           NEW ps \in [Collectors -> ProcStates], NEW others, StartChild(ps, others),
           \A c \in Collectors : /\ ps[c] = "none" <=> procs[c] = "none"
                                 /\ ps[c] = "reaped" <=> procs[c] = "reaped",
           UNCHANGED <<recordingOn, autoRestartOn, backend>>,
           stops' \in [Controllers -> Stops],
           closing' \in {"no", "begun", "stopped"},
           restartsDue' \in 0 .. restartsDue,
           backend = "up",
           ~raced /\ others = {} => Waiting' = {} /\ \A c \in Collectors : ps[c] # "running",
           ~raced /\ ~stale /\ others = {} => closing' # "stopped"
    PROVE  SupInv'
<1> USE SupervisorAssumption
<1>1. PICK m \in Collectors :
              /\ ps[m] = "none" /\ m # 0
              /\ procs' = [ps EXCEPT ![m] = "running"] /\ cmd' = m
              /\ StartedInOrder' /\ Reaped' = Reaped
  BY StartsNew
<1>2. /\ stopRequested' = FALSE /\ autoRestarting' = FALSE /\ intent' = "run"
      /\ raced' = (raced \/ others # {})
      /\ stale' = (stale \/ restartsDue' > 0 \/ \E c \in Collectors : ps[c] = "ended")
  BY DEF StartChild, StopFlagCleared
<1>3. SupTypes'
  BY <1>2 DEF SupInv, SupTypes
<1>4. procs' \in [Collectors -> ProcStates] /\ procs'[m] = "running"
  BY <1>1 DEF ProcStates
<1>5. SupTypeOK'
  BY <1>1, <1>2, <1>4 DEF SupInv, SupTypeOK, ProcStates, Collectors
<1>6. DueCounted'
  <2>1. restartsDue' <= restartsDue /\ restartsDue' \in Nat /\ restartsDue \in Nat
    BY DEF SupInv, SupTypeOK
  <2>2. Cardinality(Reaped) \in Nat
    BY ReapedCount
  <2>3. QED
    BY <1>1, <2>1, <2>2 DEF SupInv, DueCounted
<1>7. m \in Alive' /\ CrashIsRestarted'
  BY <1>1, <1>4 DEF Alive, CrashIsRestarted
<1>8. KnownRuns'
  <2>1. SUFFICES ASSUME ~raced' PROVE Alive' \subseteq {cmd'} /\ Waiting' = {}
    BY DEF KnownRuns
  <2>2. Waiting' = {} /\ \A c \in Collectors : ps[c] # "running"
    BY <1>2, <2>1 DEF SupInv, SupTypes
  <2>3. QED
    BY <1>1, <2>2 DEF Alive
<1>9. OneOpen'
  <2>1. SUFFICES ASSUME ~raced', ~stale' PROVE restartsDue' = 0 /\ Open' = {m}
    BY DEF OneOpen
  <2>2. ~(restartsDue' > 0) /\ \A c \in Collectors : ps[c] # "ended"
    BY <1>2, <2>1
  <2>3. \A c \in Collectors : ps[c] # "running"
    BY <1>2, <2>1 DEF SupInv, SupTypes
  <2>4. restartsDue' = 0
    BY <2>2 DEF SupInv, SupTypeOK
  <2>5. QED
    BY <1>1, <2>2, <2>3, <2>4 DEF Open
<1>10. StopsSettled'
  BY <1>2 DEF SupInv, SupTypes, StopsSettled
<1>11. RunIsWanted' /\ DownIsStopped'
  BY <1>2 DEF RunIsWanted, DownIsStopped
<1>12. QED
  BY <1>1, <1>3, <1>5, <1>6, <1>7, <1>8, <1>9, <1>10, <1>11 DEF SupInv

\* A start request: the backend knows of no process, so none runs.
LEMMA HandleStartStep ==
    ASSUME SupInv, NEW h \in Controllers, HandleStart(h)
    PROVE  SupInv'
<1> USE SupervisorAssumption
<1>1. /\ backend = "up" /\ stops[h] = NoStop /\ cmd = 0
      /\ UNCHANGED <<recordingOn, autoRestartOn, restartsDue, backend, stops, closing>>
  BY DEF HandleStart, Requested, configVars
<1>2. procs \in [Collectors -> ProcStates] /\ restartsDue \in Nat
  BY DEF SupInv, SupTypeOK, ProcStates
<1>3. Waiting' = Waiting /\ h \notin Waiting /\ Waiting \subseteq Overlapped(h)
  BY <1>1 DEF Waiting, Overlapped
<1>4. closing = "stopped" => Overlapped(h) # {}
  BY DEF Overlapped
<1>5. CASE StartChild(procs, Overlapped(h))
  <2>1. ~raced => \A c \in Collectors : procs[c] # "running"
    BY <1>1 DEF SupInv, KnownRuns, Alive, Collectors
  <2>2. stops' \in [Controllers -> Stops] /\ closing' \in {"no", "begun", "stopped"}
    BY <1>1 DEF SupInv, SupTypes, SupTypeOK
  <2>3. restartsDue' \in 0 .. restartsDue
    BY <1>1, <1>2
  <2>4. ~raced /\ Overlapped(h) = {} => Waiting' = {} /\ \A c \in Collectors : procs[c] # "running"
    BY <1>3, <2>1
  <2>5. ~raced /\ ~stale /\ Overlapped(h) = {} => closing' # "stopped"
    BY <1>1, <1>4
  <2>6. QED
    BY <1>1, <1>2, <1>5, <2>2, <2>3, <2>4, <2>5, StartStep
<1>6. CASE stopRequested' = FALSE /\ UNCHANGED autoRestarting /\ StartRefused(procs, cmd, "failed", Overlapped(h))
  <2>1. /\ UNCHANGED <<procs, cmd, stale>> /\ intent' = "failed"
        /\ raced' = (raced \/ Overlapped(h) # {})
    BY <1>6 DEF StartRefused
  <2>2. SupTypes' /\ SupTypeOK'
    BY <1>1, <1>6, <2>1 DEF SupInv, SupTypes, SupTypeOK
  <2>3. StartedInOrder' /\ DueCounted' /\ DownIsStopped' /\ RunIsWanted' /\ CrashIsRestarted'
    BY <1>1, <2>1 DEF SupInv, StartedInOrder, InOrder, DueCounted, Reaped, DownIsStopped, RunIsWanted,
                      CrashIsRestarted
  <2>4. raced' \/ (~raced /\ Waiting = {} /\ closing # "stopped")
    BY <1>3, <1>4, <2>1 DEF SupInv, SupTypes
  <2>5. KnownRuns'
    BY <1>1, <1>3, <2>1, <2>4 DEF SupInv, KnownRuns, Alive, Waiting
  <2>6. OneOpen'
    BY <1>1, <2>1, <2>4 DEF SupInv, OneOpen, Open
  <2>7. StopsSettled'
    BY <1>1, <1>3, <2>1, <2>4 DEF StopsSettled
  <2>8. QED
    BY <2>2, <2>3, <2>5, <2>6, <2>7 DEF SupInv
<1>7. QED
  BY <1>5, <1>6 DEF HandleStart

-----------------------------------------------------------------------------
(* Stopping *)

\* stopCollectorLocked up to its wait, whoever asks for it.
LEMMA BeginStopStep ==
    ASSUME SupInv, NEW h \in Controllers, NEW op \in {"stop", "restart", "config", "shutdown"},
           BeginStop(h, op), backend = "up",
           recordingOn' \in BOOLEAN, autoRestartOn' \in BOOLEAN,
           closing' = closing \/ closing' = "begun"
    PROVE  SupInv'
<1> USE SupervisorAssumption
<1>1. /\ stopRequested' = TRUE /\ autoRestarting' = FALSE
      /\ stops' = [stops EXCEPT ![h] = [op |-> op, child |-> cmd]]
      /\ UNCHANGED <<procs, cmd, restartsDue, backend, intent, raced, stale>>
  BY DEF BeginStop
<1>2. cmd \in 0 .. MaxCollectors /\ stops \in [Controllers -> Stops]
  BY DEF SupInv, SupTypeOK, SupTypes
<1>3. SupTypes'
  BY <1>1, <1>2 DEF SupInv, SupTypes, Stops
<1>4. SupTypeOK' /\ StartedInOrder' /\ DueCounted' /\ OneOpen' /\ DownIsStopped'
  BY <1>1 DEF SupInv, SupTypeOK, StartedInOrder, InOrder, DueCounted, Reaped, OneOpen, Open, DownIsStopped
<1>5. h \in Waiting'
  BY <1>1, <1>2 DEF Waiting, NoStop
<1>6. RunIsWanted' /\ CrashIsRestarted'
  BY <1>5 DEF RunIsWanted, CrashIsRestarted
<1>7. KnownRuns'
  <2>1. ASSUME NEW g \in Waiting', g # h PROVE g \in Waiting /\ stops'[g] = stops[g]
    BY <1>1, <1>2, <2>1 DEF Waiting
  <2>2. stops'[h].child = cmd
    BY <1>1, <1>2
  <2>3. QED
    BY <1>1, <2>1, <2>2 DEF SupInv, KnownRuns, Alive
<1>8. StopsSettled'
  <2>1. Settled'
    BY <1>1 DEF Settled
  <2>2. closing' = "stopped" => closing = "stopped"
    OBVIOUS
  <2>3. QED
    BY <1>1, <2>1, <2>2 DEF SupInv, StopsSettled, Alive
<1>9. QED
  BY <1>3, <1>4, <1>6, <1>7, <1>8 DEF SupInv

LEMMA ControlSteps ==
    ASSUME SupInv, NEW h \in Controllers,
           HandleStop(h) \/ HandleRestart(h) \/ HandleConfig(h) \/ RequestShutdown(h)
    PROVE  SupInv'
<1>1. recordingOn \in BOOLEAN /\ autoRestartOn \in BOOLEAN
  BY DEF SupInv, SupTypes
<1>2. CASE HandleStop(h)
  BY <1>1, <1>2, BeginStopStep DEF HandleStop, Requested, configVars
<1>3. CASE HandleRestart(h)
  BY <1>1, <1>3, BeginStopStep DEF HandleRestart, Requested, configVars
<1>4. CASE RequestShutdown(h)
  BY <1>1, <1>4, BeginStopStep DEF RequestShutdown, configVars
<1>5. CASE HandleConfig(h)
  <2>1. CASE ~recordingOn'
    BY <1>5, <2>1, BeginStopStep DEF HandleConfig, Requested
  <2>2. CASE recordingOn'
    <3>1. /\ UNCHANGED <<procs, cmd, stopRequested, autoRestarting, restartsDue, backend, stops, intent, raced,
                         stale, closing>>
          /\ recordingOn' \in BOOLEAN /\ autoRestartOn' \in BOOLEAN
      BY <1>5, <2>2 DEF HandleConfig
    <3>2. QED
      BY <3>1 DEF SupInv, SupTypes, SupTypeOK, StartedInOrder, InOrder, DueCounted, Reaped, KnownRuns, OneOpen,
                  Open, StopsSettled, Settled, RunIsWanted, DownIsStopped, CrashIsRestarted, Alive, Waiting
  <2>3. QED
    BY <2>1, <2>2
<1>6. QED
  BY <1>2, <1>3, <1>4, <1>5

\* A killed process has ended and is still to be dealt with.
LEMMA KilledFacts ==
    ASSUME SupInv, NEW child \in 0 .. MaxCollectors
    PROVE  /\ Killed(child) \in [Collectors -> ProcStates]
           /\ \A c \in Collectors :
                /\ Killed(child)[c] = "none" <=> procs[c] = "none"
                /\ Killed(child)[c] = "reaped" <=> procs[c] = "reaped"
                /\ Killed(child)[c] \in {"running", "ended"} <=> procs[c] \in {"running", "ended"}
                /\ Killed(child)[c] = "running" <=> procs[c] = "running" /\ c # child
<1>1. procs \in [Collectors -> ProcStates] /\ (child # 0 => child \in Collectors) /\ 0 \notin Collectors
  BY SupervisorAssumption DEF SupInv, SupTypeOK, ProcStates, Collectors
<1>2. QED
  BY <1>1 DEF Killed, ProcStates

\* The end of a stop, with or without the start of a restart.
LEMMA StopEndsStep ==
    ASSUME SupInv, NEW h \in Controllers, StopEnds(h)
    PROVE  SupInv'
<1> USE SupervisorAssumption
<1> DEFINE child == stops[h].child
           known == IF cmd = child THEN 0 ELSE cmd
           ps == Killed(child)
<1>1. /\ h \in Waiting /\ backend = "up" /\ stops' = [stops EXCEPT ![h] = NoStop]
      /\ AfterStop(stops[h].op, ps, known, Overlapped(h))
      /\ closing' = IF stops[h].op = "shutdown" THEN "stopped" ELSE closing
  BY DEF StopEnds, Waiting
<1>2. /\ stops \in [Controllers -> Stops] /\ child \in 0 .. MaxCollectors
      /\ closing \in {"no", "begun", "stopped"} /\ restartsDue \in Nat
      /\ procs \in [Collectors -> ProcStates] /\ cmd \in 0 .. MaxCollectors
  BY DEF SupInv, SupTypes, SupTypeOK, Stops, ProcStates
<1>3. stops' \in [Controllers -> Stops] /\ Waiting' = Waiting \ {h} /\ \A g \in Waiting' : stops'[g] = stops[g]
  BY <1>1, <1>2 DEF Waiting, NoStop, Stops
<1>4. Waiting' \subseteq Overlapped(h)
  BY <1>3 DEF Overlapped
<1>5. closing' \in {"no", "begun", "stopped"}
  BY <1>1, <1>2
<1>6. UNCHANGED <<recordingOn, autoRestartOn, restartsDue, backend>>
  BY <1>1 DEF AfterStop, configVars
<1>7. /\ ps \in [Collectors -> ProcStates]
      /\ \A c \in Collectors :
                /\ ps[c] = "none" <=> procs[c] = "none"
                /\ ps[c] = "reaped" <=> procs[c] = "reaped"
                /\ ps[c] \in {"running", "ended"} <=> procs[c] \in {"running", "ended"}
                /\ ps[c] = "running" <=> procs[c] = "running" /\ c # child
  BY <1>2, KilledFacts
<1>8. ~raced => \A c \in Collectors : ps[c] # "running"
  BY <1>1, <1>7 DEF SupInv, KnownRuns, Alive, Collectors
<1>9. CASE stops[h].op = "restart" /\ StartChild(ps, Overlapped(h))
  <2>1. closing' = "stopped" => Overlapped(h) # {}
    BY <1>1, <1>9 DEF Overlapped
  <2>2. restartsDue' \in 0 .. restartsDue
    BY <1>2, <1>6
  <2>3. ~raced /\ Overlapped(h) = {} => Waiting' = {} /\ \A c \in Collectors : ps[c] # "running"
    BY <1>4, <1>8
  <2> HIDE DEF ps
  <2>4. QED
    BY <1>1, <1>3, <1>5, <1>6, <1>7, <1>9, <2>1, <2>2, <2>3, StartStep
<1>10. CASE /\ UNCHANGED <<autoRestarting, stopRequested>>
            /\ StartRefused(ps, known, "stop", IF stops[h].op = "restart" THEN Overlapped(h) ELSE {})
  <2>1. /\ procs' = ps /\ cmd' = known /\ intent' = "stop" /\ UNCHANGED <<autoRestarting, stopRequested, stale>>
        /\ raced' \in BOOLEAN /\ (raced => raced')
    BY <1>10 DEF StartRefused, SupInv, SupTypes
  <2> HIDE DEF ps
  <2>2. SupTypes' /\ DownIsStopped' /\ RunIsWanted' /\ CrashIsRestarted'
    BY <1>1, <1>3, <1>6, <2>1 DEF SupInv, SupTypes, DownIsStopped, RunIsWanted, CrashIsRestarted
  <2>3. SupTypeOK'
    <3>1. cmd' \in 0 .. MaxCollectors /\ (cmd' # 0 => cmd' = cmd)
      BY <1>2, <2>1
    <3>2. cmd # 0 => ps[cmd] \in {"running", "ended"}
      BY <1>2, <1>7 DEF SupInv, SupTypeOK, Collectors
    <3>3. QED
      BY <1>1, <1>5, <1>6, <1>7, <2>1, <3>1, <3>2 DEF SupInv, SupTypeOK, ProcStates
  <2>4. StartedInOrder' /\ DueCounted' /\ Open' = Open
    BY <1>6, <1>7, <2>1 DEF SupInv, StartedInOrder, InOrder, DueCounted, Reaped, Open
  <2>5. ~raced' => Alive' = {}
    BY <1>8, <2>1 DEF Alive, SupInv, SupTypes
  <2>6. KnownRuns'
    BY <1>3, <2>1, <2>5 DEF SupInv, SupTypes, KnownRuns
  <2>7. OneOpen'
    BY <1>6, <2>1, <2>4 DEF SupInv, SupTypes, OneOpen
  <2>8. StopsSettled'
    <3>1. ~raced' /\ ~stale' => Settled
      BY <1>1, <2>1 DEF SupInv, SupTypes, StopsSettled
    <3>2. Settled' = Settled
      BY <1>6, <2>1, <2>4 DEF Settled
    <3>3. QED
      BY <2>5, <3>1, <3>2 DEF StopsSettled
  <2>9. QED
    BY <2>2, <2>3, <2>4, <2>6, <2>7, <2>8 DEF SupInv
<1>11. QED
  BY <1>1, <1>9, <1>10 DEF AfterStop

LEMMA BackendExitsStep ==
    ASSUME SupInv, BackendExits
    PROVE  SupInv'
<1> USE SupervisorAssumption
<1>1. /\ closing = "stopped" /\ backend' = "down" /\ restartsDue' = 0
      /\ UNCHANGED <<recordingOn, autoRestartOn, procs, cmd, stopRequested, autoRestarting, stops, closing, intent,
                     raced, stale>>
  BY DEF BackendExits, configVars
<1>2. SupTypes' /\ SupTypeOK' /\ StartedInOrder' /\ KnownRuns' /\ RunIsWanted' /\ DownIsStopped' /\ CrashIsRestarted'
  BY <1>1 DEF SupInv, SupTypes, SupTypeOK, StartedInOrder, InOrder, KnownRuns, RunIsWanted, DownIsStopped,
              CrashIsRestarted, Alive, Waiting
<1>3. DueCounted'
  BY <1>1, ReapedCount DEF DueCounted, Reaped
<1>4. OneOpen' /\ StopsSettled'
  BY <1>1 DEF SupInv, OneOpen, StopsSettled, Settled, Open, Alive, Waiting
<1>5. QED
  BY <1>2, <1>3, <1>4 DEF SupInv

-----------------------------------------------------------------------------
(* Processes and goroutines *)

LEMMA CollectorEndsStep ==
    ASSUME SupInv, NEW c \in Collectors, CollectorEnds(c)
    PROVE  SupInv'
<1> USE SupervisorAssumption
<1>1. /\ procs[c] = "running" /\ procs' = [procs EXCEPT ![c] = "ended"]
      /\ UNCHANGED <<backend, recordingOn, autoRestartOn, cmd, stopRequested, autoRestarting, restartsDue, stops,
                     closing, intent, raced, stale>>
  BY DEF CollectorEnds, configVars
<1>2. procs \in [Collectors -> ProcStates]
  BY DEF SupInv, SupTypeOK, ProcStates
<1>3. Alive' = Alive \ {c} /\ Open' = Open /\ Reaped' = Reaped
  BY <1>1, <1>2 DEF Alive, Open, Reaped
<1>4. SupTypes' /\ SupTypeOK' /\ StartedInOrder' /\ DueCounted'
  BY <1>1, <1>2, <1>3 DEF SupInv, SupTypes, SupTypeOK, StartedInOrder, InOrder, DueCounted, ProcStates
<1>5. KnownRuns' /\ OneOpen' /\ StopsSettled' /\ RunIsWanted' /\ DownIsStopped'
  BY <1>1, <1>3 DEF SupInv, KnownRuns, OneOpen, StopsSettled, Settled, RunIsWanted, DownIsStopped, Waiting
<1>6. CrashIsRestarted'
  BY <1>1, <1>2 DEF CrashIsRestarted
<1>7. QED
  BY <1>4, <1>5, <1>6 DEF SupInv

\* waitChild: the exit is dealt with, by a restart unless a stop asked for it.
LEMMA WaitChildStep ==
    ASSUME SupInv, NEW c \in Collectors, WaitChild(c)
    PROVE  SupInv'
<1> USE SupervisorAssumption
<1> DEFINE again == ~stopRequested /\ autoRestartOn
<1>1. /\ backend = "up" /\ procs[c] = "ended" /\ procs' = [procs EXCEPT ![c] = "reaped"]
      /\ cmd' = (IF cmd = c THEN 0 ELSE cmd) /\ stopRequested' = FALSE
      /\ autoRestarting' = again
      /\ restartsDue' = (IF again THEN restartsDue + 1 ELSE restartsDue)
      /\ intent' = (IF stopRequested \/ again \/ intent = "stop" THEN intent ELSE "failed")
      /\ UNCHANGED <<backend, recordingOn, autoRestartOn, stops, closing, raced, stale>>
  BY DEF WaitChild, configVars
<1>2. /\ procs \in [Collectors -> ProcStates] /\ restartsDue \in 0 .. MaxCollectors /\ cmd \in 0 .. MaxCollectors
      /\ stopRequested \in BOOLEAN /\ autoRestartOn \in BOOLEAN /\ intent \in {"run", "stop", "failed"}
  BY DEF SupInv, SupTypeOK, SupTypes, ProcStates
<1>3. Alive' = Alive /\ Open' = Open \ {c} /\ Reaped' = Reaped \cup {c} /\ c \notin Reaped /\ c \in Open
  BY <1>1, <1>2 DEF Alive, Open, Reaped
<1>4. DueCounted' /\ restartsDue' \in 0 .. MaxCollectors
  <2>1. Cardinality(Reaped') = Cardinality(Reaped) + 1
    BY <1>3, ReapedCount, FS_AddElement
  <2>2. Cardinality(Reaped') \in Nat /\ Cardinality(Reaped') <= MaxCollectors
    <3>1. IsFiniteSet(Collectors) /\ Cardinality(Collectors) = MaxCollectors
      BY FS_Interval DEF Collectors
    <3>2. Reaped' \subseteq Collectors
      BY DEF Reaped
    <3>3. QED
      BY <3>1, <3>2, FS_Subset, FS_CardinalityType
  <2>3. restartsDue <= Cardinality(Reaped) /\ restartsDue' <= restartsDue + 1 /\ restartsDue' \in Nat
    BY <1>1, <1>2 DEF SupInv, DueCounted
  <2>4. QED
    BY <1>2, <2>1, <2>2, <2>3, ReapedCount DEF DueCounted
<1>5. SupTypes'
  BY <1>1, <1>2 DEF SupInv, SupTypes
<1>6. SupTypeOK'
  <2>1. procs' \in [Collectors -> {"none", "running", "ended", "reaped"}]
    BY <1>1, <1>2 DEF ProcStates
  <2>2. cmd' \in 0 .. MaxCollectors /\ (cmd' # 0 => procs'[cmd'] \in {"running", "ended"})
    BY <1>1, <1>2 DEF SupInv, SupTypeOK, Collectors
  <2>3. autoRestarting' => restartsDue' > 0
    <3>1. CASE again
      BY <1>1, <1>2, <3>1
    <3>2. CASE ~again
      BY <1>1, <3>2
    <3>3. QED
      BY <3>1, <3>2
  <2>4. QED
    BY <1>1, <1>2, <1>4, <2>1, <2>2, <2>3 DEF SupInv, SupTypeOK
<1>7. StartedInOrder' /\ DownIsStopped' /\ RunIsWanted'
  BY <1>1, <1>2 DEF SupInv, StartedInOrder, InOrder, DownIsStopped, RunIsWanted
<1>8. KnownRuns'
  <2>1. Waiting' = Waiting /\ c \notin Alive
    BY <1>1 DEF Waiting, Alive
  <2>2. QED
    BY <1>1, <1>3, <2>1 DEF SupInv, KnownRuns
<1>9. ~raced /\ ~stale => Open' = {} /\ restartsDue = 0
  BY <1>2, <1>3 DEF SupInv, OneOpen
<1>10. OneOpen'
  BY <1>1, <1>9 DEF OneOpen
<1>11. StopsSettled'
  <2>1. SUFFICES ASSUME ~raced, ~stale,
                        Waiting' # {} \/ intent' = "stop" \/ closing' = "stopped"
                 PROVE  Settled' /\ (intent' = "stop" \/ closing' = "stopped" => Alive' = {})
    BY <1>1 DEF StopsSettled
  <2>2. Waiting' = Waiting /\ (intent' = "stop" => intent = "stop")
    BY <1>1 DEF Waiting
  <2>3. Settled /\ stopRequested
    BY <1>1, <1>3, <2>1, <2>2 DEF SupInv, StopsSettled, Settled
  <2>4. restartsDue' = 0 /\ Open' = {}
    BY <1>1, <1>9, <2>1, <2>3
  <2>5. QED
    BY <1>1, <1>3, <2>1, <2>2, <2>4 DEF SupInv, StopsSettled, Settled
<1>12. CrashIsRestarted'
  <2>1. SUFFICES ASSUME intent' = "run", Waiting' = {} PROVE restartsDue' > 0
    BY DEF CrashIsRestarted
  <2>2. intent = "run" /\ Waiting = {}
    BY <1>1, <1>2, <2>1 DEF Waiting
  <2>3. ~stopRequested
    BY <2>2 DEF SupInv, RunIsWanted
  <2>4. again
    BY <1>1, <1>2, <2>1, <2>2, <2>3
  <2>5. QED
    BY <1>1, <1>2, <2>4
<1>13. QED
  BY <1>4, <1>5, <1>6, <1>7, <1>8, <1>10, <1>11, <1>12 DEF SupInv

\* restartChildAfter: a stop, or a process started meanwhile, cancels it.
LEMMA RestartChildStep ==
    ASSUME SupInv, RestartChild
    PROVE  SupInv'
<1> USE SupervisorAssumption
<1>1. /\ backend = "up" /\ restartsDue > 0 /\ restartsDue' = restartsDue - 1
      /\ UNCHANGED <<recordingOn, autoRestartOn, backend, stops, closing>>
  BY DEF RestartChild, configVars
<1>2. /\ procs \in [Collectors -> ProcStates] /\ restartsDue \in 0 .. MaxCollectors
      /\ stopRequested \in BOOLEAN /\ autoRestartOn \in BOOLEAN /\ raced \in BOOLEAN
      /\ stops \in [Controllers -> Stops] /\ closing \in {"no", "begun", "stopped"}
  BY DEF SupInv, SupTypeOK, SupTypes, ProcStates
<1>3. restartsDue' \in 0 .. restartsDue /\ Waiting' = Waiting
  BY <1>1, <1>2 DEF Waiting
<1>4. DueCounted' \/ ~UNCHANGED procs
  BY <1>1, <1>2, ReapedCount DEF SupInv, DueCounted, Reaped
<1>5. ASSUME ~stopRequested, cmd = 0
      PROVE  /\ ~raced => \A c \in Collectors : procs[c] # "running"
             /\ ~raced /\ ~stale => Waiting = {} /\ closing # "stopped" /\ intent # "stop"
  <2>1. ~raced => \A c \in Collectors : procs[c] # "running"
    BY <1>5 DEF SupInv, KnownRuns, Alive, Collectors
  <2>2. ~Settled
    BY <1>1, <1>2, <1>5 DEF Settled
  <2>3. QED
    BY <2>1, <2>2 DEF SupInv, StopsSettled
<1>6. CASE ~stopRequested /\ cmd = 0 /\ StartChild(procs, Waiting)
  <2>1. ~raced /\ Waiting = {} => Waiting' = {} /\ \A c \in Collectors : procs[c] # "running"
    BY <1>3, <1>5, <1>6
  <2>2. ~raced /\ ~stale /\ Waiting = {} => closing' # "stopped"
    BY <1>1, <1>5, <1>6
  <2>3. stops' \in [Controllers -> Stops] /\ closing' \in {"no", "begun", "stopped"}
    BY <1>1, <1>2
  <2>4. QED
    BY <1>1, <1>2, <1>3, <1>6, <2>1, <2>2, <2>3, StartStep
<1>7. CASE ~stopRequested /\ cmd = 0 /\ autoRestarting' = FALSE /\ UNCHANGED stopRequested
           /\ StartRefused(procs, cmd, "failed", {})
  <2>1. UNCHANGED <<procs, cmd, stale, raced>> /\ intent' = "failed"
    BY <1>2, <1>7 DEF StartRefused
  <2>2. SupTypes' /\ SupTypeOK'
    <3>1. SupTypes'
      BY <1>1, <1>7, <2>1 DEF SupInv, SupTypes
    <3>2. autoRestarting' = FALSE /\ restartsDue' \in 0 .. MaxCollectors
      BY <1>1, <1>2, <1>7
    <3>3. SupTypeOK'
      BY <1>1, <2>1, <3>2 DEF SupInv, SupTypeOK
    <3>4. QED
      BY <3>1, <3>3
  <2>3. StartedInOrder' /\ RunIsWanted' /\ DownIsStopped' /\ CrashIsRestarted' /\ KnownRuns'
    BY <1>1, <2>1 DEF SupInv, StartedInOrder, InOrder, RunIsWanted, DownIsStopped, CrashIsRestarted, KnownRuns,
                      Alive, Waiting
  <2>4. OneOpen'
    BY <1>1, <1>2, <2>1 DEF SupInv, OneOpen, Open
  <2>5. StopsSettled'
    BY <1>1, <1>3, <1>5, <1>7, <2>1 DEF StopsSettled
  <2>6. QED
    BY <1>4, <2>1, <2>2, <2>3, <2>4, <2>5 DEF SupInv
<1>8. CASE /\ stopRequested \/ ~autoRestartOn \/ cmd # 0
           /\ autoRestarting' = FALSE
           /\ intent' = IF autoRestartOn \/ intent = "stop" THEN intent ELSE "failed"
           /\ UNCHANGED <<procs, cmd, stopRequested, raced, stale>>
  <2>1. SupTypes' /\ SupTypeOK'
    <3>1. SupTypes'
      BY <1>1, <1>8 DEF SupInv, SupTypes
    <3>2. autoRestarting' = FALSE /\ restartsDue' \in 0 .. MaxCollectors /\ intent' \in {"run", "stop", "failed"}
      BY <1>1, <1>2, <1>8 DEF SupInv, SupTypeOK
    <3>3. SupTypeOK'
      BY <1>1, <1>8, <3>2 DEF SupInv, SupTypeOK
    <3>4. QED
      BY <3>1, <3>3
  <2>2. StartedInOrder' /\ RunIsWanted' /\ DownIsStopped' /\ KnownRuns'
    BY <1>1, <1>8 DEF SupInv, StartedInOrder, InOrder, RunIsWanted, DownIsStopped, KnownRuns, Alive, Waiting
  <2>3. OneOpen'
    BY <1>1, <1>2, <1>8 DEF SupInv, OneOpen, Open
  <2>4. StopsSettled'
    BY <1>1, <1>2, <1>8 DEF SupInv, StopsSettled, Settled, Open, Alive, Waiting
  <2>5. CrashIsRestarted'
    <3>1. SUFFICES ASSUME intent' = "run", Waiting' = {}
                   PROVE  \E c \in Collectors : procs[c] \in {"running", "ended"}
      BY <1>8 DEF CrashIsRestarted, Alive
    <3>2. intent = "run" /\ autoRestartOn
      BY <1>8, <3>1
    <3>3. ~stopRequested
      BY <1>3, <3>1, <3>2 DEF SupInv, RunIsWanted
    <3>4. cmd \in Collectors /\ procs[cmd] \in {"running", "ended"}
      BY <1>8, <3>2, <3>3 DEF SupInv, SupTypeOK, Collectors
    <3>5. QED
      BY <3>4
  <2>6. QED
    BY <1>4, <1>8, <2>1, <2>2, <2>3, <2>4, <2>5 DEF SupInv
<1>9. QED
  BY <1>6, <1>7, <1>8 DEF RestartChild, NothingRuns

-----------------------------------------------------------------------------
(* Theorems *)

LEMMA SupStarts == SupInit => SupInv
<1> USE SupervisorAssumption
<1> SUFFICES ASSUME SupInit PROVE SupInv
  OBVIOUS
<1>1. procs = [c \in Collectors |-> IF c = 1 THEN "running" ELSE "none"] /\ 1 \in Collectors
  BY DEF SupInit, Collectors
<1>2. SupTypes /\ SupTypeOK
  <2>1. SupTypes
    <3>1. NoStop \in Stops
      BY DEF NoStop, Stops
    <3>2. stops \in [Controllers -> Stops]
      BY <3>1 DEF SupInit
    <3>3. QED
      BY <3>2 DEF SupInit, SupTypes
  <2>2. procs \in [Collectors -> {"none", "running", "ended", "reaped"}] /\ procs[1] = "running"
    BY <1>1
  <2>3. SupTypeOK
    BY <2>2 DEF SupInit, SupTypeOK
  <2>4. QED
    BY <2>1, <2>3
<1>3. StartedInOrder
  <2>1. InOrder(procs, 1)
    BY <1>1 DEF InOrder, Collectors
  <2>2. QED
    BY <2>1 DEF StartedInOrder
<1>4. DueCounted
  BY ReapedCount DEF SupInit, DueCounted
<1>5. Waiting = {} /\ Alive = {1}
  BY <1>1 DEF SupInit, Waiting, Alive
<1>6. KnownRuns /\ OneOpen /\ StopsSettled /\ RunIsWanted /\ DownIsStopped /\ CrashIsRestarted
  BY <1>1, <1>5 DEF SupInit, KnownRuns, OneOpen, Open, StopsSettled, RunIsWanted, DownIsStopped, CrashIsRestarted
<1>7. QED
  BY <1>2, <1>3, <1>4, <1>6 DEF SupInv

LEMMA SupStep == SupInv /\ [SupNext]_supVars => SupInv'
<1>1. CASE UNCHANGED supVars
  BY <1>1 DEF supVars, SupInv, SupTypes, SupTypeOK, StartedInOrder, InOrder, DueCounted, Reaped, KnownRuns, OneOpen,
              Open, StopsSettled, Settled, RunIsWanted, DownIsStopped, CrashIsRestarted, Alive, Waiting
<1>2. QED
  BY <1>1, HandleStartStep, ControlSteps, StopEndsStep, BackendExitsStep, CollectorEndsStep, WaitChildStep,
     RestartChildStep DEF SupNext

LEMMA SupInvariant == SupSpec => []SupInv
BY SupStarts, SupStep, PTL DEF SupSpec

\* One collector at a time and none after the backend has ended, unless a start
\* overlapped with a stop that waits outside the mutex (startChildLocked,
\* stopCollectorLocked, requestShutdown).
THEOREM SupervisorSoundHolds == SupSpec => []SupervisorSound
<1>1. SupInv => SupervisorSound
  <2> SUFFICES ASSUME SupInv PROVE OneCollector /\ NothingLeft
    BY DEF SupInv, SupervisorSound
  <2>1. OneCollector
    <3>1. SUFFICES ASSUME ~raced PROVE Cardinality(Alive) <= 1
      BY DEF OneCollector
    <3>2. Alive = {} \/ Alive = {cmd}
      BY <3>1 DEF SupInv, KnownRuns
    <3>3. Cardinality({}) = 0 /\ Cardinality({cmd}) = 1
      BY FS_EmptySet, FS_Singleton
    <3>4. QED
      BY <3>2, <3>3
  <2>2. NothingLeft
    BY DEF SupInv, NothingLeft, DownIsStopped, StopsSettled
  <2>3. QED
    BY <2>1, <2>2
<1>2. QED
  BY <1>1, SupInvariant, PTL

\* A restart that was due when a stop came never undoes the stop
\* (stopCollectorLocked, waitChild, restartChildAfter).
THEOREM StopSticksHolds == SupSpec => []StopSticks
<1>1. SupInv => StopSticks
  BY DEF SupInv, StopsSettled, StopSticks
<1>2. QED
  BY <1>1, SupInvariant, PTL

\* While the backend is meant to collect, a collector runs, or its exit or its
\* restart is still to come (waitChild, restartChildAfter).
THEOREM CrashIsRestartedHolds == SupSpec => []CrashIsRestarted
<1>1. SupInv => CrashIsRestarted
  BY DEF SupInv
<1>2. QED
  BY <1>1, SupInvariant, PTL
=============================================================================
