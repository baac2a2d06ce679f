------------------------------- MODULE MCFair -------------------------------
(* Model-checking instances, under fairness, of what others wait for: live *)
(* reads, history inserts and the requests of the metrics service.  They   *)
(* share no variable, so a run explores one of them, chosen in the initial *)
(* state.                                                                  *)
EXTENDS LiveRegistry, WriteBatcher, TLC

CONSTANTS HubTimeout, HubClock    \* of the metrics service

VARIABLES phase, registry, live, series, acc, row, ingestQ, deviceQ, req, flush, sweep, view, hubNow,
          faults, restarts, published, cut, missed, part

metricsVars == <<phase, registry, live, series, acc, row, ingestQ, deviceQ, req, flush, sweep, view, hubNow,
                 faults, restarts, published, cut, missed>>

Metrics == INSTANCE MetricsService WITH
    Device <- {1}, Requests <- {"r1", "r2"}, Operations <- {"ingest", "remove", "group", "flush", "sweep"},
    Groups <- {}, NoGroup <- Nobody, MaxTimestamp <- 1, MinuteWindow <- 2, HourlyWindow <- 4,
    MaxMinuteSamples <- 4, MaxHourlySamples <- 4, MaxPoints1m <- 2, MaxPoints5m <- 3,
    IdentityChangeAt <- 9, HeartbeatTimeout <- HubTimeout, PageLimit <- 1, PerKeyLimit <- 2, TotalLimit <- 2,
    MaxClock <- HubClock, MaxFaults <- 1, MaxRestarts <- 0, now <- hubNow

FairInit == part \in {"live", "writes", "metrics"} /\ Init /\ BatcherInit /\ Metrics!Init

FairNext ==
    /\ UNCHANGED part
    /\ \/ part = "live" /\ Next /\ UNCHANGED <<batcherVars, metricsVars>>
       \/ part = "writes" /\ BatcherNext /\ UNCHANGED <<vars, metricsVars>>
       \/ part = "metrics" /\ Metrics!Next /\ UNCHANGED <<vars, batcherVars>>

fairVars == <<vars, batcherVars, metricsVars, part>>

\* Timers fire, close events are delivered and an awaited command settles,
\* whatever else is going on; nothing makes an agent, a viewer or a caller act.
LiveFairness ==
    /\ \A q \in Query : WF_vars(part = "live" /\ Timeout(q))
    /\ \A s \in Sockets : WF_vars(part = "live" /\ Heartbeat(s)) /\ WF_vars(part = "live" /\ SocketClosed(s))
    /\ \A d \in Devices : WF_vars(part = "live" /\ CloseDevice(d))
    /\ WF_vars(part = "live" /\ Tick)

\* Strong fairness where a microtask of the other kind comes first: a macrotask
\* is only put off.
BatcherFairness ==
    /\ SF_batcherVars(part = "writes" /\ TimerFires)
    /\ \A k \in Kinds : SF_batcherVars(part = "writes" /\ (StatementDone(k) \/ StatementFails(k)))
    /\ \A k \in Kinds : WF_batcherVars(part = "writes" /\ ResetDrain(k))
    /\ WF_batcherVars(part = "writes" /\ flushing = "waiting" /\ (Flush \/ FlushDone))

\* Store commands settle (every client has a timeout) and the timers keep
\* firing; nothing makes a request arrive, fail, or the process stop.
MetricsFairness ==
    /\ \A r \in {"r1", "r2"} : WF_metricsVars(part = "metrics" /\ Metrics!Handle(r))
    /\ WF_metricsVars(part = "metrics" /\ Metrics!StartSweep)
    /\ WF_metricsVars(part = "metrics" /\ Metrics!ListExpired)
    /\ WF_metricsVars(part = "metrics" /\ Metrics!SweepStep(1))
    /\ WF_metricsVars(part = "metrics" /\ Metrics!FlushStep(1))
    /\ WF_metricsVars(part = "metrics" /\ Metrics!Process) /\ WF_metricsVars(part = "metrics" /\ Metrics!Tick)

FairSpec == FairInit /\ [][FairNext]_fairVars /\ LiveFairness /\ BatcherFairness /\ MetricsFairness

RequestsFinish == Metrics!RequestsFinish

SilenceIsNoticed == Metrics!SilenceIsNoticed
=============================================================================
