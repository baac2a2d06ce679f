----------------------------- MODULE MCHistory -----------------------------
(* Model-checking instances of the way of a sample: the agent's processes, *)
(* its live channel and its uploads, the Hub's live sessions, the          *)
(* history's write batcher and its cached reads.  They share no variable,  *)
(* so a run explores one of them at a time, chosen in the initial state.   *)
EXTENDS TelemetryDelivery, WriteBatcher, CachedHistory, AgentSupervisor, LiveClient, TLC

CONSTANTS
    Installation, Sockets, Query, Viewers, Topic, Nobody, HandshakeTime, LeaseTime, RequestTime, ResultTime,
    TakeoverLimit, TakeoverWindow, MaxPending,
    Instances    \* the parts of the run

VARIABLES current, session, query, viewer, takeovers, bound, resetting, closed, liveNow, replaced, part

Registry == INSTANCE LiveRegistry WITH now <- liveNow

liveVars == <<current, session, query, viewer, takeovers, bound, resetting, closed, liveNow, replaced>>

Init ==
    /\ part \in Instances
    /\ DeliveryInit /\ BatcherInit /\ HistoryInit /\ SupInit /\ ChannelInit /\ ProbesInit /\ Registry!Init

\* The live sessions see a third connection before any read, or five of the
\* connections, requests and viewers.
FewSessions ==
    LET connections == {s \in Sockets : session[s].stage # "unused"}
        requests    == {q \in Query : query[q].stage # "unused"}
        served    == {v \in Viewers : viewer[v].stage # "idle"}
    IN  IF connections = Sockets THEN requests \cup served = {}
        ELSE Cardinality(connections) + Cardinality(requests) + Cardinality(served) <= 5

\* The cached reads see a restart or time run to its end.
Next ==
    /\ UNCHANGED part
    /\ \/ part = "uploads" /\ DeliveryNext
          /\ UNCHANGED <<batcherVars, historyVars, supVars, channelVars, probeVars, liveVars>>
       \/ part = "writes" /\ BatcherNext
          /\ UNCHANGED <<deliveryVars, historyVars, supVars, channelVars, probeVars, liveVars>>
       \/ part = "reads" /\ HistoryNext /\ (restarts' = 0 \/ time' < MaxClock)
          /\ UNCHANGED <<deliveryVars, batcherVars, supVars, channelVars, probeVars, liveVars>>
       \/ part = "collector" /\ SupNext
          /\ UNCHANGED <<deliveryVars, batcherVars, historyVars, channelVars, probeVars, liveVars>>
       \/ part = "channel" /\ ChannelNext
          /\ UNCHANGED <<deliveryVars, batcherVars, historyVars, supVars, probeVars, liveVars>>
       \/ part = "probes" /\ ProbesNext
          /\ UNCHANGED <<deliveryVars, batcherVars, historyVars, supVars, channelVars, liveVars>>
       \/ part = "sessions" /\ Registry!Next /\ FewSessions'
          /\ UNCHANGED <<deliveryVars, batcherVars, historyVars, supVars, channelVars, probeVars>>

Spec ==
    /\ Init
    /\ [][Next]_<<deliveryVars, batcherVars, historyVars, supVars, channelVars, probeVars, liveVars, part>>

\* Callers, readers and windows are interchangeable, and the sockets, requests
\* and viewers that the configuration gives the same names.
Ids == UNION {Permutations(S) : S \in {Callers, Readers, Windows}}

RegistrySound == Registry!RegistrySound

NobodyWaitsInVain == Registry!NobodyWaitsInVain

OneCollectionPerTopic == Registry!OneCollectionPerTopic

TakeoversLimited == Registry!TakeoversLimited

ServedFresh == Registry!ServedFresh
=============================================================================
