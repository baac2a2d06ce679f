--------------------------- MODULE MetricsService ---------------------------
(***************************************************************************)
(* The Hub's metrics service (apps/server/src/services/metrics.ts) with    *)
(* the stores it writes: the device registry, the Redis live state and raw *)
(* series, the minute and hourly history rows, and the event stream the    *)
(* consoles watch.  One step of the model is the code between two awaits   *)
(* together with the store command it awaits.                              *)
(*                                                                         *)
(* Every handler runs under two keyed serial queues per device, ingestQ    *)
(* outside deviceQ; the head of a queue is the operation that runs.  The   *)
(* periodic flush takes only deviceQ.  The offline sweep marks a device    *)
(* with a compare-and-set outside both queues and takes them to notify.    *)
(*                                                                         *)
(* Any store command may fail, before or after it took effect (a query     *)
(* timeout is ambiguous); the Hub may crash at any step, or shut down in   *)
(* the order of index.ts.                                                  *)
(***************************************************************************)
EXTENDS SeriesAppend, FiniteSets

CONSTANTS
    Device,            \* device ids, positive integers: locks are taken in id order
    Requests,          \* HTTP handler slots: how many requests can be in flight
    Operations,        \* the request kinds and timers a run has
    Groups,            \* device group names
    NoGroup,           \* group null
    MaxTimestamp,      \* samples carry the timestamps 1..MaxTimestamp
    MinuteWindow,      \* length of a minute bucket
    HourlyWindow,      \* length of an hourly bucket
    MaxMinuteSamples,  \* cap of a minute accumulator (256)
    MaxHourlySamples,  \* cap of an hourly accumulator (4096)
    MaxPoints1m,       \* cap of the 1m raw series (30)
    MaxPoints5m,       \* cap of the 5m raw series (150)
    IdentityChangeAt,  \* samples from this timestamp on carry the new hostname
    HeartbeatTimeout,  \* HEARTBEAT_TIMEOUT_MS
    PageLimit,         \* page size of listExpiredDevices (128)
    PerKeyLimit,       \* admission limit of a queue key (32)
    TotalLimit,        \* admission limit of a whole queue (1024)
    MaxClock,          \* bound: submissions and ticks of the clock
    MaxFaults,         \* bound: store commands that fail
    MaxRestarts        \* bound: crashes and shutdowns

ASSUME MetricsAssumption ==
    /\ Device \subseteq (Nat \ {0})
    /\ IsFiniteSet(Device)
    /\ Device # {}
    /\ Requests \cap {"flush", "sweep"} = {}
    /\ Operations \subseteq {"ingest", "remove", "group", "flush", "sweep"}
    /\ NoGroup \notin Groups
    /\ MaxTimestamp \in Nat
    /\ MinuteWindow \in Nat \ {0}
    /\ HourlyWindow \in Nat \ {0}
    /\ MaxMinuteSamples \in Nat \ {0}
    /\ MaxHourlySamples \in Nat \ {0}
    /\ MaxPoints1m \in Nat \ {0}
    /\ MaxPoints5m \in Nat \ {0}
    /\ IdentityChangeAt \in Nat
    /\ HeartbeatTimeout \in Nat \ {0}
    /\ PageLimit \in Nat \ {0}
    /\ PerKeyLimit \in Nat \ {0}
    /\ TotalLimit \in Nat \ {0}
    /\ MaxClock \in Nat
    /\ MaxFaults \in Nat
    /\ MaxRestarts \in Nat

VARIABLES
    phase,      \* life of the process: "up", the steps of a shutdown, "down"
    registry,   \* the devices table: status and group of each device
    live,       \* the Redis live state: latest timestamp, lastSeenAt, status
    series,     \* the Redis raw series of each window
    acc,        \* minuteAccumulators and hourlyAccumulators, with the dirty mark
    row,        \* history rows: the samples averaged into each bucket's row
    ingestQ,    \* ingestQueues: operations admitted per device, head running
    deviceQ,    \* deviceQueues, likewise
    req,        \* the HTTP handlers
    flush,      \* the flush operation of each device
    sweep,      \* the offline sweep: its captured time and per-device steps
    view,       \* what a console shows after the events emitted so far
    now,        \* wall clock
    faults,     \* store commands that failed so far
    restarts,   \* crashes and shutdowns so far
    published,  \* history: the samples made the live reading
    cut,        \* history: buckets whose accumulation was interrupted
    missed      \* history: a failure lost an event, or half of a removal

stores   == <<registry, live, series, row>>
memory   == <<acc, ingestQ, deviceQ, req, flush, sweep>>
history  == <<published, cut, missed>>
vars     == <<phase, stores, memory, view, now, faults, restarts, history>>

-----------------------------------------------------------------------------
(* Values *)

Timestamp == 1..MaxTimestamp
Bucket    == 0..MaxTimestamp
Kind      == {"minute", "hourly"}
Window    == {"1m", "5m"}
Clock     == 0..MaxClock

WindowLength(k) == IF k = "minute" THEN MinuteWindow ELSE HourlyWindow
MaxSamples(k)   == IF k = "minute" THEN MaxMinuteSamples ELSE MaxHourlySamples
MaxPoints(w)    == IF w = "1m" THEN MaxPoints1m ELSE MaxPoints5m

\* Math.floor(timestamp / WINDOW_MS), the index of the bucket.
BucketOf(k, ts) == ts \div WindowLength(k)

\* hasIdentityBoundaryChanged compares os, platform, arch and hostname.
Identity(ts) == IF ts >= IdentityChangeAt THEN "renamed" ELSE "original"

\* No live state: ts = 0.  No accumulator: no samples.
NoLive   == [ts |-> 0, lastSeen |-> 0, status |-> "absent"]
NoAcc    == [bucket |-> 0, samples |-> <<>>, dirty |-> FALSE]
NoRecord == [status |-> "absent", group |-> NoGroup]
NoView   == [kind |-> "none", ts |-> 0, status |-> "absent", group |-> NoGroup]

LiveStates == [ts : 0..MaxTimestamp, lastSeen : Clock, status : {"absent", "online", "offline"}]
Accs       == [bucket : Bucket, samples : Seq(Timestamp), dirty : BOOLEAN]
Records    == [status : {"absent", "open", "closed"}, group : Groups \cup {NoGroup}]
Views      == [kind : {"none", "state", "removed"}, ts : 0..MaxTimestamp,
               status : {"absent", "online", "offline"}, group : Groups \cup {NoGroup}]

Points       == [t : Timestamp, v : Timestamp]
SeriesStates == [list : Seq(Points), order : Markers]

\* A raw point; its payload is determined by the sample.
Point(ts) == [t |-> ts, v |-> ts]

-----------------------------------------------------------------------------
(* Keyed serial queues, as sequences *)

Operators == Requests \cup {"flush", "sweep"}

\* pending: the operations admitted to the whole queue.
Pending(q) == Cardinality({p \in Device \X (1..PerKeyLimit) : p[2] <= Len(q[p[1]])})

\* run() rejects with QueueCapacityError.
Full(q, d) == Len(q[d]) >= PerKeyLimit \/ Pending(q) >= TotalLimit

Admit(q, d, op) == [q EXCEPT ![d] = Append(@, op)]

\* The operation runs: the ones admitted before it have settled.
AtHead(q, d, op) == q[d] # <<>> /\ Head(q[d]) = op

\* The operation settles: its successor becomes the head.
Leave(q, op) == [d \in Device |-> IF AtHead(q, d, op) THEN Tail(q[d]) ELSE q[d]]

-----------------------------------------------------------------------------
(* Accumulators and history rows *)

\* Mutant: pushed without looking for the timestamp.
AddSampleBlind(samples, ts, cap) == Append(IF Len(samples) >= cap THEN Tail(samples) ELSE samples, ts)

\* findIndex by timestamp: replace in place, else push, shifting at the cap.
AddSample(samples, ts, cap) ==
    IF \E i \in 1..Len(samples) : samples[i] = ts THEN samples
    ELSE Append(IF Len(samples) >= cap THEN Tail(samples) ELSE samples, ts)

\* Mutant: the comparison is off by one.
UpsertRowLate(old, new) == IF Len(old) + 1 >= Len(new) THEN old ELSE new

\* A row is only replaced by one that averages more samples.
UpsertRow(old, new) == IF Len(old) >= Len(new) THEN old ELSE new

\* insertMinutePoint / insertHourlyPoint of the accumulator a.
Persisted(d, k, a) ==
    [row EXCEPT ![d][k][a.bucket] = UpsertRow(@, a.samples)]

\* Mutant: a bucket of one sample is not written.
NeedsPersistMany(a) == Len(a.samples) > 1 /\ a.dirty

NeedsPersist(a) == a.samples # <<>> /\ a.dirty

\* Mutant: the first sample of a bucket loses its timestamp.
OpenedUnstamped(b, ts) == [bucket |-> b, samples |-> <<0>>, dirty |-> TRUE]

Opened(b, ts) == [bucket |-> b, samples |-> <<ts>>, dirty |-> TRUE]

\* Deleting the accumulators of d cuts the buckets they were filling.
CutBuckets(d) ==
    [cut EXCEPT ![d] = [k \in Kind |->
        IF acc[d][k].samples = <<>> THEN cut[d][k] ELSE cut[d][k] \cup {acc[d][k].bucket}]]

NoAccs == [k \in Kind |-> NoAcc]

-----------------------------------------------------------------------------
(* Handlers: common steps *)

Idle ==
    [op |-> "none", pc |-> "idle", dev |-> CHOOSE d \in Device : TRUE, devs |-> {},
     ts |-> 0, recv |-> 0, group |-> NoGroup,
     rec |-> [d \in Device |-> NoRecord], seen |-> [d \in Device |-> NoLive],
     todo |-> {}, half |-> [d \in Device |-> "none"]]

NoFlush == [failed |-> FALSE, pc |-> [d \in Device |-> "none"]]
NoSweep == [running |-> FALSE, at |-> 0, failed |-> FALSE,
            pc |-> [d \in Device |-> "none"], seen |-> [d \in Device |-> NoLive]]

\* One more store command fails.
Fault == faults < MaxFaults /\ faults' = faults + 1

\* The handler r runs its body: it holds both queues of its last device.
Runs(r, pc) == req[r].pc = pc /\ AtHead(deviceQ, req[r].dev, r)

GoTo(r, pc) == req' = [req EXCEPT ![r].pc = pc]

\* The handler ends, with success or an error: both queues are released.
Release(r) ==
    /\ ingestQ' = Leave(ingestQ, r)
    /\ deviceQ' = Leave(deviceQ, r)
    /\ req' = [req EXCEPT ![r] = Idle]

StateView(s, group) ==
    [kind |-> "state", ts |-> s.ts,
     status |-> IF s.ts = 0 THEN "offline" ELSE s.status, group |-> group]

\* withDeviceLocks: the devices of r that it has not queued for yet.
Unlocked(r) == {d \in req[r].devs : \A i \in 1..Len(ingestQ[d]) : ingestQ[d][i] # r}

FirstStep(op) ==
    CASE op = "ingest" -> "register"
      [] op = "remove" -> "delete"
      [] OTHER         -> "notify"

\* A request is received in "up" only; each takes its own instant of the clock.
Receives(r, op) ==
    /\ phase = "up"
    /\ op \in Operations
    /\ req[r].pc = "idle"
    /\ now < MaxClock
    /\ now' = now + 1

\* ingest: receivedAt is taken before the queue admits the operation.
SubmitIngest(r, d, ts) ==
    /\ Receives(r, "ingest")
    /\ IF Full(ingestQ, d)
         THEN UNCHANGED <<req, ingestQ>>
         ELSE /\ ingestQ' = Admit(ingestQ, d, r)
              /\ req' = [req EXCEPT ![r] = [Idle EXCEPT !.op = "ingest", !.pc = "queued", !.dev = d,
                                                        !.devs = {d}, !.ts = ts, !.recv = now']]
    /\ UNCHANGED <<phase, stores, acc, deviceQ, flush, sweep, view, faults, restarts, history>>

SubmitRemove(r, d) ==
    /\ Receives(r, "remove")
    /\ IF Full(ingestQ, d)
         THEN UNCHANGED <<req, ingestQ>>
         ELSE /\ ingestQ' = Admit(ingestQ, d, r)
              /\ req' = [req EXCEPT ![r] = [Idle EXCEPT !.op = "remove", !.pc = "queued", !.dev = d,
                                                        !.devs = {d}]]
    /\ UNCHANGED <<phase, stores, acc, deviceQ, flush, sweep, view, faults, restarts, history>>

\* updateDeviceGroup writes the registry before it takes any lock.
SubmitGroup(r, D, g) ==
    /\ Receives(r, "group")
    /\ req' = [req EXCEPT ![r] = [Idle EXCEPT !.op = "group", !.pc = "update", !.devs = D,
                                                 !.todo = D, !.group = g]]
    /\ UNCHANGED <<phase, stores, acc, ingestQ, deviceQ, flush, sweep, view, faults, restarts, history>>

\* The outer queue reached r: enter the inner queue, or fail on its limit.
EnterDeviceQueue(r) ==
    LET d == req[r].dev IN
    /\ req[r].pc = "queued"
    /\ AtHead(ingestQ, d, r)
    /\ IF Full(deviceQ, d)
         THEN /\ Release(r)
              /\ missed' = [x \in Device |-> missed[x] \/ (req[r].op = "group" /\ x \in req[r].devs)]
         ELSE /\ deviceQ' = Admit(deviceQ, d, r)
              /\ GoTo(r, IF Unlocked(r) = {} THEN FirstStep(req[r].op) ELSE "locked")
              /\ UNCHANGED <<ingestQ, missed>>
    /\ UNCHANGED <<phase, stores, acc, flush, sweep, view, now, faults, restarts, published, cut>>

\* Mutant: the ids are not sorted.
AnyLock(d, D) == d \in D

\* [...new Set(deviceIds)].sort(): locks are taken in id order.
IsLeast(d, D) == d \in D /\ \A e \in D : d <= e

\* withDeviceLocks: holding the pair of one id, queue for the next id.
AcquireNext(r) ==
    /\ Runs(r, "locked")
    /\ \E next \in Device :
         /\ IsLeast(next, Unlocked(r))
         /\ IF Full(ingestQ, next)
              THEN /\ Release(r)
                   /\ missed' = [x \in Device |-> missed[x] \/ x \in req[r].devs]
              ELSE /\ ingestQ' = Admit(ingestQ, next, r)
                   /\ req' = [req EXCEPT ![r].pc = "queued", ![r].dev = next]
                   /\ UNCHANGED <<deviceQ, missed>>
    /\ UNCHANGED <<phase, stores, acc, flush, sweep, view, now, faults, restarts, published, cut>>

-----------------------------------------------------------------------------
(* ingest *)

\* Mutant: an error leaves the queues held.
FailsHolding(r, pc) ==
    Runs(r, pc) /\ Fault /\ req' = [req EXCEPT ![r] = Idle] /\ UNCHANGED <<ingestQ, deviceQ>>

\* A store command of r fails: the handler rejects and releases its queues.
FailsWith(r, pc) == Runs(r, pc) /\ Fault /\ Release(r)

OpenRecord(d) == [status |-> "open", group |-> registry[d].group]

\* registerOrUpdateDevice with reopenClosed: the group of a row is kept.
Register(r) ==
    LET d == req[r].dev IN
    /\ \/ /\ Runs(r, "register")
          /\ registry' = [registry EXCEPT ![d] = OpenRecord(d)]
          /\ req' = [req EXCEPT ![r].pc = "previous", ![r].rec[d] = OpenRecord(d)]
          /\ UNCHANGED <<ingestQ, deviceQ, faults>>
       \/ /\ FailsWith(r, "register")
          /\ registry' \in {registry, [registry EXCEPT ![d] = OpenRecord(d)]}
    /\ UNCHANGED <<phase, live, series, row, acc, flush, sweep, view, now, restarts, history>>

\* Mutant: no stale-sample exit.
NeverStale(d, ts) == FALSE

\* The stale-sample fast exit of persistPayload.
IsStale(d, ts) == live[d].ts # 0 /\ ts <= live[d].ts

IdentityBoundary(d, ts) == live[d].ts # 0 /\ Identity(live[d].ts) # Identity(ts)

\* persistPayload reads the previous state; a stale or repeated sample is
\* acknowledged at once, a changed identity drops both accumulators.
ReadPrevious(r) ==
    LET d == req[r].dev  ts == req[r].ts IN
    /\ \/ /\ Runs(r, "previous")
          /\ IsStale(d, ts)
          /\ Release(r)
          /\ UNCHANGED <<acc, cut, faults>>
       \/ /\ Runs(r, "previous")
          /\ ~IsStale(d, ts)
          /\ IF IdentityBoundary(d, ts)
               THEN acc' = [acc EXCEPT ![d] = NoAccs] /\ cut' = CutBuckets(d)
               ELSE UNCHANGED <<acc, cut>>
          /\ GoTo(r, "append")
          /\ UNCHANGED <<ingestQ, deviceQ, faults>>
       \/ /\ FailsWith(r, "previous")
          /\ UNCHANGED <<acc, cut>>
    /\ UNCHANGED <<phase, stores, flush, sweep, view, now, restarts, published, missed>>

\* The script appends the point to the series of each window in W.
Appended(d, ts, W) ==
    [series EXCEPT ![d] = [w \in Window |->
        IF w \in W THEN AppendSeries(series[d][w], Point(ts), MaxPoints(w)) ELSE series[d][w]]]

\* Promise.all of the two appends: either, both or none may have run when one fails.
AppendRaw(r) ==
    LET d == req[r].dev  ts == req[r].ts IN
    /\ \/ /\ Runs(r, "append")
          /\ series' = Appended(d, ts, Window)
          /\ GoTo(r, "minute")
          /\ UNCHANGED <<ingestQ, deviceQ, faults>>
       \/ /\ FailsWith(r, "append")
          /\ \E W \in SUBSET Window : series' = Appended(d, ts, W)
    /\ UNCHANGED <<phase, registry, live, row, acc, flush, sweep, view, now, restarts, history>>

\* The buckets that stop being one uninterrupted accumulation when ts opens
\* bucket b: it was left before (it has a row).
Reopened(d, k, b) ==
    IF row[d][k][b] = <<>> THEN cut ELSE [cut EXCEPT ![d][k] = @ \cup {b}]

\* addMinuteAggregate / addHourlyAggregate for a sample of the open bucket.
Accumulate(r, k, nextPc) ==
    LET d == req[r].dev  a == acc[d][k]  added == AddSample(a.samples, req[r].ts, MaxSamples(k)) IN
    /\ Runs(r, k)
    /\ a.samples # <<>>
    /\ a.bucket = BucketOf(k, req[r].ts)
    /\ acc' = [acc EXCEPT ![d][k].samples = added, ![d][k].dirty = TRUE]
    /\ cut' = IF Len(a.samples) >= MaxSamples(k) /\ added # a.samples
                THEN [cut EXCEPT ![d][k] = @ \cup {a.bucket}] ELSE cut
    /\ GoTo(r, nextPc)
    /\ UNCHANGED <<phase, stores, ingestQ, deviceQ, flush, sweep, view, now, faults, restarts,
                   published, missed>>

\* The same for a sample of another bucket: the open accumulator is persisted
\* if dirty, then replaced.  A failed write leaves it open and dirty.
RollOver(r, k, nextPc) ==
    LET d == req[r].dev  a == acc[d][k]  b == BucketOf(k, req[r].ts) IN
    /\ a.samples = <<>> \/ a.bucket # b
    /\ \/ /\ Runs(r, k)
          /\ row' = IF NeedsPersist(a) THEN Persisted(d, k, a) ELSE row
          /\ acc' = [acc EXCEPT ![d][k] = Opened(b, req[r].ts)]
          /\ cut' = Reopened(d, k, b)
          /\ GoTo(r, nextPc)
          /\ UNCHANGED <<ingestQ, deviceQ, faults>>
       \/ /\ NeedsPersist(a)
          /\ FailsWith(r, k)
          /\ row' \in {row, Persisted(d, k, a)}
          /\ UNCHANGED <<acc, cut>>
    /\ UNCHANGED <<phase, registry, live, series, flush, sweep, view, now, restarts,
                   published, missed>>

AddMinuteAggregate(r) == Accumulate(r, "minute", "hourly") \/ RollOver(r, "minute", "hourly")

AddHourlyAggregate(r) == Accumulate(r, "hourly", "upsert") \/ RollOver(r, "hourly", "upsert")

\* realtime.upsert publishes the accepted timestamp, after every other stage.
Upsert(r) ==
    LET d     == req[r].dev
        state == [ts |-> req[r].ts, lastSeen |-> req[r].recv, status |-> "online"]
    IN
    /\ \/ /\ Runs(r, "upsert")
          /\ live' = [live EXCEPT ![d] = state]
          /\ published' = [published EXCEPT ![d] = @ \cup {req[r].ts}]
          /\ GoTo(r, "emit")
          /\ UNCHANGED <<ingestQ, deviceQ, faults, missed>>
       \/ /\ FailsWith(r, "upsert")
          /\ \/ UNCHANGED <<live, published, missed>>
             \/ /\ live' = [live EXCEPT ![d] = state]
                /\ published' = [published EXCEPT ![d] = @ \cup {req[r].ts}]
                /\ missed' = [missed EXCEPT ![d] = TRUE]
    /\ UNCHANGED <<phase, registry, series, row, acc, flush, sweep, view, now, restarts, cut>>

\* The event carries the group read when the device was registered.
EmitAccepted(r) ==
    LET d == req[r].dev IN
    /\ Runs(r, "emit")
    /\ view' = [view EXCEPT ![d] = [kind |-> "state", ts |-> req[r].ts, status |-> "online",
                                    group |-> req[r].rec[d].group]]
    /\ Release(r)
    /\ UNCHANGED <<phase, stores, acc, flush, sweep, now, faults, restarts, history>>

Ingest(r) ==
    \/ Register(r) \/ ReadPrevious(r) \/ AppendRaw(r)
    \/ AddMinuteAggregate(r) \/ AddHourlyAggregate(r)
    \/ Upsert(r) \/ EmitAccepted(r)

-----------------------------------------------------------------------------
(* removeDevice *)

Closed(d) == [status |-> "closed", group |-> registry[d].group]

\* revokeLive, then deleteDevice: the row is closed, never deleted.
DeleteDevice(r) ==
    LET d == req[r].dev IN
    /\ \/ /\ Runs(r, "delete")
          /\ registry' = [registry EXCEPT ![d] = Closed(d)]
          /\ GoTo(r, "state")
          /\ UNCHANGED <<ingestQ, deviceQ, faults, missed>>
       \/ /\ FailsWith(r, "delete")
          /\ \/ UNCHANGED <<registry, missed>>
             \/ /\ registry' = [registry EXCEPT ![d] = Closed(d)]
                /\ missed' = [missed EXCEPT ![d] = TRUE]
    /\ UNCHANGED <<phase, live, series, row, acc, flush, sweep, view, now, restarts, published, cut>>

\* getDevice, and the accumulators go with no await in between.
ForgetAccumulators(r) ==
    LET d == req[r].dev IN
    /\ \/ /\ Runs(r, "state")
          /\ req' = [req EXCEPT ![r].pc = "remove", ![r].seen[d] = live[d]]
          /\ acc' = [acc EXCEPT ![d] = NoAccs]
          /\ cut' = CutBuckets(d)
          /\ UNCHANGED <<ingestQ, deviceQ, faults, missed>>
       \/ /\ FailsWith(r, "state")
          /\ missed' = [missed EXCEPT ![d] = TRUE]
          /\ UNCHANGED <<acc, cut>>
    /\ UNCHANGED <<phase, stores, flush, sweep, view, now, restarts, published>>

\* realtime.remove, first half: REMOVE_STATE.
RemoveState(r) ==
    LET d == req[r].dev IN
    /\ \/ /\ Runs(r, "remove")
          /\ live' = [live EXCEPT ![d] = NoLive]
          /\ GoTo(r, "clear")
          /\ UNCHANGED <<ingestQ, deviceQ, faults, missed>>
       \/ /\ FailsWith(r, "remove")
          /\ live' \in {live, [live EXCEPT ![d] = NoLive]}
          /\ missed' = [missed EXCEPT ![d] = TRUE]
    /\ UNCHANGED <<phase, registry, series, row, acc, flush, sweep, view, now, restarts,
                   published, cut>>

\* realtime.remove, second half: clearSeries; then the removed event, unless
\* the device had no live state.
ClearSeries(r) ==
    LET d == req[r].dev  cleared == [series EXCEPT ![d] = [w \in Window |-> EmptySeries]] IN
    /\ \/ /\ Runs(r, "clear")
          /\ Release(r)
          /\ series' = cleared
          /\ view' = IF req[r].seen[d].ts = 0 THEN view
                     ELSE [view EXCEPT ![d] = [kind |-> "removed", ts |-> req[r].seen[d].ts,
                                               status |-> "offline", group |-> NoGroup]]
          /\ UNCHANGED <<faults, missed>>
       \/ /\ FailsWith(r, "clear")
          /\ series' \in {series, cleared}
          /\ missed' = [missed EXCEPT ![d] = TRUE]
          /\ UNCHANGED view
    /\ UNCHANGED <<phase, registry, live, row, acc, flush, sweep, now, restarts, published, cut>>

Remove(r) == DeleteDevice(r) \/ ForgetAccumulators(r) \/ RemoveState(r) \/ ClearSeries(r)

-----------------------------------------------------------------------------
(* updateDeviceGroup *)

Regrouped(D, g) ==
    [d \in Device |-> IF d \in D THEN [registry[d] EXCEPT !.group = g] ELSE registry[d]]

\* One transaction: every device must be open, else 404 and no change.  Then
\* the first lock is asked for.
UpdateGroup(r) ==
    LET D == req[r].devs  changed == Regrouped(D, req[r].group) IN
    /\ req[r].pc = "update"
    /\ \/ /\ \E d \in D : registry[d].status # "open"
          /\ req' = [req EXCEPT ![r] = Idle]
          /\ UNCHANGED <<registry, ingestQ, faults, missed>>
       \/ /\ \A d \in D : registry[d].status = "open"
          /\ registry' = changed
          /\ \E first \in Device :
               /\ IsLeast(first, D)
               /\ IF Full(ingestQ, first)
                    THEN /\ req' = [req EXCEPT ![r] = Idle]
                         /\ missed' = [d \in Device |-> missed[d] \/ d \in D]
                         /\ UNCHANGED ingestQ
                    ELSE /\ ingestQ' = Admit(ingestQ, first, r)
                         /\ req' = [req EXCEPT ![r].pc = "queued", ![r].dev = first]
                         /\ UNCHANGED missed
          /\ UNCHANGED faults
       \/ /\ \A d \in D : registry[d].status = "open"
          /\ Fault
          /\ req' = [req EXCEPT ![r] = Idle]
          /\ \/ UNCHANGED <<registry, missed>>
             \/ /\ registry' = changed
                /\ missed' = [d \in Device |-> missed[d] \/ d \in D]
          /\ UNCHANGED ingestQ
    /\ UNCHANGED <<phase, live, series, row, acc, deviceQ, flush, sweep, view, now, restarts,
                   published, cut>>

\* The notification of d is over; the last one ends the handler.
Settle(r, d) ==
    IF req[r].todo = {d} THEN Release(r)
    ELSE req' = [req EXCEPT ![r].todo = @ \ {d}] /\ UNCHANGED <<ingestQ, deviceQ>>

\* Holding every lock, each device's live state and registry row are read side
\* by side; the second answer emits the event.  A device that was closed
\* meanwhile is skipped, one without live state is shown offline, and a failed
\* read does not keep the other devices from being notified.
NotifyGroup(r, d, part) ==
    LET state  == IF part = "live" THEN live[d] ELSE req[r].seen[d]
        record == IF part = "record" THEN registry[d] ELSE req[r].rec[d]
    IN
    /\ Runs(r, "notify")
    /\ d \in req[r].todo
    /\ req[r].half[d] # part
    /\ \/ /\ req[r].half[d] = "none"
          /\ req' = [req EXCEPT ![r].half[d] = part, ![r].seen[d] = state, ![r].rec[d] = record]
          /\ UNCHANGED <<ingestQ, deviceQ, view, faults, missed>>
       \/ /\ req[r].half[d] # "none"
          /\ view' = IF record.status = "open"
                       THEN [view EXCEPT ![d] = StateView(state, record.group)] ELSE view
          /\ Settle(r, d)
          /\ UNCHANGED <<faults, missed>>
       \/ /\ Fault
          /\ missed' = [missed EXCEPT ![d] = TRUE]
          /\ Settle(r, d)
          /\ UNCHANGED view
    /\ UNCHANGED <<phase, stores, acc, flush, sweep, now, restarts, published, cut>>

Regroup(r) ==
    \/ UpdateGroup(r)
    \/ \E d \in Device, part \in {"live", "record"} : NotifyGroup(r, d, part)

-----------------------------------------------------------------------------
(* performAggregateFlush, started by the 60 s timer and by the shutdown *)

FlushIdle == \A d \in Device : flush.pc[d] = "none"

\* The devices are captured when the flush starts.
CaptureFlush ==
    flush' = [failed |-> FALSE,
              pc |-> [d \in Device |-> IF acc[d] = NoAccs THEN "none" ELSE "captured"]]

StartFlush ==
    /\ phase = "up"
    /\ "flush" \in Operations
    /\ FlushIdle
    /\ CaptureFlush
    /\ UNCHANGED <<phase, stores, acc, ingestQ, deviceQ, req, sweep, view, now, faults, restarts, history>>

\* forEachBounded gives each captured device an operation on deviceQ.
AdmitFlush(d) ==
    /\ flush.pc[d] = "captured"
    /\ IF Full(deviceQ, d)
         THEN /\ flush' = [flush EXCEPT !.pc[d] = "none", !.failed = TRUE]
              /\ UNCHANGED deviceQ
         ELSE /\ flush' = [flush EXCEPT !.pc[d] = "minute"]
              /\ deviceQ' = Admit(deviceQ, d, "flush")
    /\ UNCHANGED <<phase, stores, acc, ingestQ, req, sweep, view, now, faults, restarts, history>>

\* One stage of a device's flush: persist the accumulator if it is dirty; the
\* mark is cleared only after the write succeeded.  A failed stage does not
\* keep the other one from running.
FlushStage(d, k, nextPc) ==
    LET a == acc[d][k] IN
    /\ flush.pc[d] = k
    /\ AtHead(deviceQ, d, "flush")
    /\ \/ /\ NeedsPersist(a)
          /\ row' = Persisted(d, k, a)
          /\ acc' = [acc EXCEPT ![d][k].dirty = FALSE]
          /\ flush' = [flush EXCEPT !.pc[d] = nextPc]
          /\ UNCHANGED faults
       \/ /\ NeedsPersist(a)
          /\ Fault
          /\ row' \in {row, Persisted(d, k, a)}
          /\ flush' = [flush EXCEPT !.pc[d] = nextPc, !.failed = TRUE]
          /\ UNCHANGED acc
       \/ /\ ~NeedsPersist(a)
          /\ flush' = [flush EXCEPT !.pc[d] = nextPc]
          /\ UNCHANGED <<row, acc, faults>>
    /\ UNCHANGED <<phase, registry, live, series, ingestQ, req, sweep, view, now, restarts, history>>

FlushMinute(d) == FlushStage(d, "minute", "hourly") /\ UNCHANGED deviceQ

FlushHourly(d) == FlushStage(d, "hourly", "none") /\ deviceQ' = [deviceQ EXCEPT ![d] = Tail(@)]

FlushStep(d) == AdmitFlush(d) \/ FlushMinute(d) \/ FlushHourly(d)

-----------------------------------------------------------------------------
(* performOfflineScan, started by the 5 s timer *)

SweepIdle == \A d \in Device : sweep.pc[d] = "none"

\* now is read once, before the first page.
StartSweep ==
    /\ phase = "up"
    /\ "sweep" \in Operations
    /\ ~sweep.running
    /\ sweep' = [NoSweep EXCEPT !.running = TRUE, !.at = now]
    /\ UNCHANGED <<phase, stores, acc, ingestQ, deviceQ, req, flush, view, now, faults, restarts, history>>

\* Mutant: the timeout has to be exceeded.
ExpiredLate == {d \in Device : live[d].status = "online" /\ sweep.at - live[d].lastSeen > HeartbeatTimeout}

Expired == {d \in Device : live[d].status = "online" /\ sweep.at - live[d].lastSeen >= HeartbeatTimeout}

\* listExpiredDevices: a page of the expired devices with their states; a
\* device that reports between its two reads is left out.  A batch that had a
\* failure ends the sweep; so does an empty page.
ListExpired ==
    /\ sweep.running
    /\ SweepIdle
    /\ \/ /\ ~sweep.failed
          /\ \E page \in SUBSET Expired :
               /\ page # {} /\ Cardinality(page) <= PageLimit
               /\ sweep' = [sweep EXCEPT
                              !.pc = [d \in Device |-> IF d \in page THEN "mark" ELSE "none"],
                              !.seen = [d \in Device |-> IF d \in page THEN live[d] ELSE NoLive]]
          /\ UNCHANGED faults
       \/ /\ sweep.failed \/ Expired = {}
          /\ sweep' = [NoSweep EXCEPT !.failed = sweep.failed]
          /\ UNCHANGED faults
       \/ /\ ~sweep.failed
          /\ Fault
          /\ sweep' = [NoSweep EXCEPT !.failed = TRUE]
    /\ UNCHANGED <<phase, stores, acc, ingestQ, deviceQ, req, flush, view, now, restarts, history>>

\* Mutant: no comparison of lastSeenAt.
MarkAlways(d) == live[d].ts # 0

\* Mutant: a missing state counts as a match.
MarkMissing(d) == live[d].ts = 0 \/ live[d].lastSeen = sweep.seen[d].lastSeen

\* MARK_OFFLINE: compare-and-set on lastSeenAt, writing the state the page had.
MarkMatches(d) == live[d].ts # 0 /\ live[d].lastSeen = sweep.seen[d].lastSeen

MarkedOffline(d) == [live EXCEPT ![d] = [sweep.seen[d] EXCEPT !.status = "offline"]]

\* markOfflineIfMatch; a marked device is queued for its notification.
MarkOffline(d) ==
    /\ sweep.pc[d] = "mark"
    /\ \/ /\ ~MarkMatches(d)
          /\ sweep' = [sweep EXCEPT !.pc[d] = "none"]
          /\ UNCHANGED <<live, ingestQ, faults, missed>>
       \/ /\ MarkMatches(d)
          /\ live' = MarkedOffline(d)
          /\ IF Full(ingestQ, d)
               THEN /\ sweep' = [sweep EXCEPT !.pc[d] = "none", !.failed = TRUE]
                    /\ missed' = [missed EXCEPT ![d] = TRUE]
                    /\ UNCHANGED ingestQ
               ELSE /\ sweep' = [sweep EXCEPT !.pc[d] = "queued"]
                    /\ ingestQ' = Admit(ingestQ, d, "sweep")
                    /\ UNCHANGED missed
          /\ UNCHANGED faults
       \/ /\ Fault
          /\ sweep' = [sweep EXCEPT !.pc[d] = "none", !.failed = TRUE]
          /\ \/ UNCHANGED <<live, missed>>
             \/ /\ MarkMatches(d)
                /\ live' = MarkedOffline(d)
                /\ missed' = [missed EXCEPT ![d] = TRUE]
          /\ UNCHANGED ingestQ
    /\ UNCHANGED <<phase, registry, series, row, acc, deviceQ, req, flush, view, now, restarts,
                   published, cut>>

EnterSweep(d) ==
    /\ sweep.pc[d] = "queued"
    /\ AtHead(ingestQ, d, "sweep")
    /\ IF Full(deviceQ, d)
         THEN /\ sweep' = [sweep EXCEPT !.pc[d] = "none", !.failed = TRUE]
              /\ ingestQ' = [ingestQ EXCEPT ![d] = Tail(@)]
              /\ missed' = [missed EXCEPT ![d] = TRUE]
              /\ UNCHANGED deviceQ
         ELSE /\ sweep' = [sweep EXCEPT !.pc[d] = "notify"]
              /\ deviceQ' = Admit(deviceQ, d, "sweep")
              /\ UNCHANGED <<ingestQ, missed>>
    /\ UNCHANGED <<phase, stores, acc, req, flush, view, now, faults, restarts, published, cut>>

\* Under the locks the state is read again: a device that reported meanwhile,
\* or was removed, gets no offline event.
StillOffline(d) == live[d].status = "offline" /\ live[d].lastSeen = sweep.seen[d].lastSeen

OpenGroup(d) == IF registry[d].status = "open" THEN registry[d].group ELSE view[d].group

\* Mutant: the state captured by the sweep is announced unchecked.
AnnouncedBlind(d) ==
    [view EXCEPT ![d] = StateView([sweep.seen[d] EXCEPT !.status = "offline"], OpenGroup(d))]

\* The offline event.
Announced(d) ==
    IF StillOffline(d) THEN [view EXCEPT ![d] = StateView(live[d], OpenGroup(d))] ELSE view

NotifyOffline(d) ==
    /\ sweep.pc[d] = "notify"
    /\ AtHead(ingestQ, d, "sweep") /\ AtHead(deviceQ, d, "sweep")
    /\ \/ /\ view' = Announced(d)
          /\ sweep' = [sweep EXCEPT !.pc[d] = "none"]
          /\ UNCHANGED <<faults, missed>>
       \/ /\ Fault
          /\ sweep' = [sweep EXCEPT !.pc[d] = "none", !.failed = TRUE]
          /\ missed' = [missed EXCEPT ![d] = TRUE]
          /\ UNCHANGED view
    /\ ingestQ' = [ingestQ EXCEPT ![d] = Tail(@)]
    /\ deviceQ' = [deviceQ EXCEPT ![d] = Tail(@)]
    /\ UNCHANGED <<phase, stores, acc, req, flush, now, restarts, published, cut>>

SweepStep(d) == MarkOffline(d) \/ EnterSweep(d) \/ NotifyOffline(d)

-----------------------------------------------------------------------------
(* The process: shutdown (index.ts), crash and restart *)

\* SIGTERM: the timers are cleared and no request is admitted any more.
Shutdown ==
    /\ phase = "up"
    /\ restarts < MaxRestarts
    /\ phase' = "closing"
    /\ UNCHANGED <<stores, memory, view, now, faults, restarts, history>>

\* Mutant: the shutdown does not wait for the handlers.
HttpNotDrained ==
    /\ phase = "closing"
    /\ phase' = "drainFlush"
    /\ UNCHANGED <<stores, memory, view, now, faults, restarts, history>>

\* await app.close(): the handlers already running settle.
HttpDrained ==
    /\ phase = "closing"
    /\ \A r \in Requests : req[r].pc = "idle"
    /\ phase' = "drainFlush"
    /\ UNCHANGED <<stores, memory, view, now, faults, restarts, history>>

\* flushAfterDrain waits for the flush in flight, then for the sweep in
\* flight.  Only the first wait swallows an error.
FlushDrained ==
    /\ phase = "drainFlush"
    /\ FlushIdle
    /\ phase' = IF sweep.running THEN "drainSweep" ELSE "lastFlush"
    /\ UNCHANGED <<stores, memory, view, now, faults, restarts, history>>

SweepDrained ==
    /\ phase = "drainSweep"
    /\ ~sweep.running
    /\ phase' = IF sweep.failed THEN "aborted" ELSE "lastFlush"
    /\ UNCHANGED <<stores, memory, view, now, faults, restarts, history>>

\* The fresh snapshot after the drain.
LastFlush ==
    /\ phase = "lastFlush"
    /\ CaptureFlush
    /\ phase' = "flushing"
    /\ UNCHANGED <<stores, acc, ingestQ, deviceQ, req, sweep, view, now, faults, restarts, history>>

\* The flush settled: the writer lock is released, the pools are closed.
Stop ==
    /\ phase = "flushing"
    /\ FlushIdle
    /\ phase' = "down"
    /\ UNCHANGED <<stores, memory, view, now, faults, restarts, history>>

\* A console reloads the device list when its socket reconnects.
Reloaded(d) == IF registry[d].status = "open" THEN StateView(live[d], registry[d].group) ELSE NoView

\* A removal that did not finish left live data of a closed device behind.
HalfRemoved(d) ==
    /\ registry[d].status = "closed"
    /\ live[d].ts # 0 \/ \E w \in Window : series[d][w].list # <<>>

\* The memory of the process is lost, in a crash or at the end of a shutdown;
\* a new process starts on the same stores.
Restart ==
    /\ restarts < MaxRestarts
    /\ restarts' = restarts + 1
    /\ phase' = "up"
    /\ acc' = [d \in Device |-> NoAccs]
    /\ cut' = [d \in Device |-> [k \in Kind |->
                 IF acc[d][k].samples = <<>> THEN cut[d][k] ELSE cut[d][k] \cup {acc[d][k].bucket}]]
    /\ ingestQ' = [d \in Device |-> <<>>]
    /\ deviceQ' = [d \in Device |-> <<>>]
    /\ req' = [r \in Requests |-> Idle]
    /\ flush' = NoFlush
    /\ sweep' = NoSweep
    /\ view' = [d \in Device |-> Reloaded(d)]
    /\ missed' = [d \in Device |-> HalfRemoved(d)]
    /\ UNCHANGED <<stores, now, faults, published>>

\* Time passes; only the sweep looks at the clock.
Tick ==
    /\ "sweep" \in Operations
    /\ now < MaxClock
    /\ now' = now + 1
    /\ UNCHANGED <<phase, stores, memory, view, faults, restarts, history>>

-----------------------------------------------------------------------------
Init ==
    /\ phase = "up"
    /\ registry = [d \in Device |-> NoRecord]
    /\ live = [d \in Device |-> NoLive]
    /\ series = [d \in Device |-> [w \in Window |-> EmptySeries]]
    /\ acc = [d \in Device |-> NoAccs]
    /\ row = [d \in Device |-> [k \in Kind |-> [b \in Bucket |-> <<>>]]]
    /\ ingestQ = [d \in Device |-> <<>>]
    /\ deviceQ = [d \in Device |-> <<>>]
    /\ req = [r \in Requests |-> Idle]
    /\ flush = NoFlush
    /\ sweep = NoSweep
    /\ view = [d \in Device |-> NoView]
    /\ now = 0
    /\ faults = 0
    /\ restarts = 0
    /\ published = [d \in Device |-> {}]
    /\ cut = [d \in Device |-> [k \in Kind |-> {}]]
    /\ missed = [d \in Device |-> FALSE]

Submit(r) ==
    \/ \E d \in Device : (\E ts \in Timestamp : SubmitIngest(r, d, ts)) \/ SubmitRemove(r, d)
    \/ \E D \in (SUBSET Device) \ {{}}, g \in Groups \cup {NoGroup} : SubmitGroup(r, D, g)

Handle(r) == EnterDeviceQueue(r) \/ AcquireNext(r) \/ Ingest(r) \/ Remove(r) \/ Regroup(r)

Process == HttpDrained \/ FlushDrained \/ SweepDrained \/ LastFlush \/ Stop

Next ==
    \/ \E r \in Requests : Submit(r) \/ Handle(r)
    \/ StartFlush \/ \E d \in Device : FlushStep(d)
    \/ StartSweep \/ ListExpired \/ \E d \in Device : SweepStep(d)
    \/ Shutdown \/ Process \/ Restart \/ Tick

Spec == Init /\ [][Next]_vars

\* Store commands settle (every client has a timeout) and the timers keep
\* firing; nothing makes a request arrive, fail, or the process stop.
Fairness ==
    /\ \A r \in Requests : WF_vars(Handle(r))
    /\ WF_vars(StartSweep) /\ WF_vars(ListExpired)
    /\ \A d \in Device : WF_vars(SweepStep(d)) /\ WF_vars(FlushStep(d))
    /\ WF_vars(Process) /\ WF_vars(Tick)

FairSpec == Spec /\ Fairness

-----------------------------------------------------------------------------
(* Properties *)

IngestSteps == {"register", "previous", "append", "minute", "hourly", "upsert", "emit"}

Steps == IngestSteps \cup {"idle", "queued", "locked", "delete", "state", "remove", "clear",
                           "update", "notify"}

Handlers == [op : {"none", "ingest", "remove", "group"}, pc : Steps,
             dev : Device, devs : SUBSET Device, ts : 0..MaxTimestamp, recv : Clock,
             group : Groups \cup {NoGroup},
             rec : [Device -> Records], seen : [Device -> LiveStates],
             todo : SUBSET Device, half : [Device -> {"none", "live", "record"}]]

\* Only an ingest runs the steps of ingest, and it carries a sample.
CarriesSample(h) == h.op = "ingest" \/ h.pc \in IngestSteps => h.op = "ingest" /\ h.ts \in Timestamp

\* Every variable of the service has its type.
TypeOK ==
    /\ phase \in {"up", "closing", "drainFlush", "drainSweep", "lastFlush", "flushing", "down", "aborted"}
    /\ registry \in [Device -> Records]
    /\ live \in [Device -> LiveStates]
    /\ series \in [Device -> [Window -> SeriesStates]]
    /\ acc \in [Device -> [Kind -> Accs]]
    /\ row \in [Device -> [Kind -> [Bucket -> Seq(Timestamp)]]]
    /\ ingestQ \in [Device -> Seq(Operators)]
    /\ deviceQ \in [Device -> Seq(Operators)]
    /\ req \in [Requests -> Handlers]
    /\ \A r \in Requests : CarriesSample(req[r])
    /\ flush \in [failed : BOOLEAN, pc : [Device -> {"none", "captured", "minute", "hourly"}]]
    /\ sweep \in [running : BOOLEAN, at : Clock, failed : BOOLEAN,
                  pc : [Device -> {"none", "mark", "queued", "notify"}], seen : [Device -> LiveStates]]
    /\ view \in [Device -> Views]
    /\ now \in Clock
    /\ faults \in 0..MaxFaults
    /\ restarts \in 0..MaxRestarts
    /\ published \in [Device -> SUBSET Timestamp]
    /\ cut \in [Device -> [Kind -> SUBSET Bucket]]
    /\ missed \in [Device -> BOOLEAN]

Once(s) == \A i, j \in 1..Len(s) : s[i] = s[j] => i = j

InSeq(x, s) == \E i \in 1..Len(s) : s[i] = x

\* A sample is in the open accumulator of its bucket.
Accumulated(d, k, ts) == acc[d][k].bucket = BucketOf(k, ts) /\ InSeq(ts, acc[d][k].samples)

\* A sample is averaged into the history row of its bucket.
Recorded(d, k, ts) == InSeq(ts, row[d][k][BucketOf(k, ts)])

\* What persistPayload publishes as the live reading has reached aggregation:
\* in a bucket whose accumulation was never interrupted, every published sample
\* is in the open accumulator or already in the history row, whatever failed,
\* was retried, flushed or rolled over in between.
NothingDropped ==
    \A d \in Device, k \in Kind : \A ts \in published[d] :
        BucketOf(k, ts) \in cut[d][k] \/ Accumulated(d, k, ts) \/ Recorded(d, k, ts)

\* The dirty mark is what makes a flush or rollover write: an accumulator that
\* carries no mark has a row that averages at least as many samples.
CleanIsWritten ==
    \A d \in Device, k \in Kind :
        acc[d][k].samples # <<>> /\ ~acc[d][k].dirty
            => Len(row[d][k][acc[d][k].bucket]) >= Len(acc[d][k].samples)

\* No sample is averaged twice into an aggregate, however often a failed or
\* unanswered upload is retried.
NoDoubleCount ==
    \A d \in Device, k \in Kind :
        Once(acc[d][k].samples) /\ \A b \in Bucket : Once(row[d][k][b])

\* The certified-order marker the series script takes its fast path on is true.
OrderMarkerSound ==
    \A d \in Device, w \in Window : series[d][w].order = "1" => StrictlyAscending(series[d][w].list)

Quiescent(d) ==
    /\ sweep.pc[d] = "none"
    /\ \A r \in Requests : req[r].pc = "idle" \/ d \notin req[r].devs

\* The last event a console received about a device is right once nothing is
\* in flight for it: latest reading, online or offline, and group; a removed
\* device is not shown.  Unless a failure lost the event itself.
ViewAgrees ==
    \A d \in Device : Quiescent(d) /\ ~missed[d] =>
        /\ registry[d].status = "open" /\ live[d].ts # 0
             => view[d] = StateView(live[d], registry[d].group)
        /\ registry[d].status = "closed" => ~(view[d].kind = "state" /\ view[d].ts # 0)

\* A removal that completed leaves no live state, series or accumulator behind
\* that a flush or sweep in flight could bring back.
RemovedIsGone ==
    \A d \in Device : registry[d].status = "closed" /\ Quiescent(d) /\ ~missed[d] =>
        /\ live[d] = NoLive
        /\ acc[d] = NoAccs
        /\ \A w \in Window : series[d][w] = EmptySeries

\* When a shutdown ends and its last flush reported no failure, every published
\* sample of an uninterrupted bucket is in the history rows.
StoppedIsDurable ==
    phase = "down" /\ ~flush.failed =>
        \A d \in Device, k \in Kind : \A ts \in published[d] :
            BucketOf(k, ts) \in cut[d][k] \/ Recorded(d, k, ts)

InQueue(q, d, op) == \E i \in 1..Len(q[d]) : q[d][i] = op

\* op waits for nothing in the queues of the devices D.
Unblocked(op, D) ==
    \A d \in D : \A q \in {ingestQ, deviceQ} : InQueue(q, d, op) => AtHead(q, d, op)

\* Handlers that hold the queues of some devices while they wait for others, the
\* flush and the sweep never all wait for each other: while anything is queued,
\* something that is queued can run.
NoCircularWait ==
    (\E d \in Device : ingestQ[d] # <<>> \/ deviceQ[d] # <<>>) =>
        \/ \E r \in Requests : /\ \E d \in Device : InQueue(ingestQ, d, r)
                               /\ Unblocked(r, Device)
        \/ \E d \in Device : \/ InQueue(ingestQ, d, "sweep") /\ Unblocked("sweep", {d})
                             \/ AtHead(deviceQ, d, "flush")

\* An older or repeated sample never replaces the live reading, and lastSeenAt
\* never goes back: neither a replay, nor the state the sweep captured earlier.
LiveNeverGoesBack ==
    [][\A d \in Device : live'[d].ts # 0 =>
          live'[d].ts >= live[d].ts /\ live'[d].lastSeen >= live[d].lastSeen]_live

\* A device goes offline only after a whole timeout without an accepted sample.
NoFalseOffline ==
    [][\A d \in Device : live[d].status = "online" /\ live'[d].status = "offline" =>
          /\ now - live[d].lastSeen >= HeartbeatTimeout
          /\ live'[d].ts = live[d].ts]_live

\* Every admitted request gets its answer: the nested queues never deadlock.
RequestsFinish == \A r \in Requests : req[r].pc # "idle" ~> req[r].pc = "idle"

\* A device that stops reporting is shown offline (or reports again, or goes).
SilenceIsNoticed ==
    \A d \in Device : \A t \in 1..(MaxClock - HeartbeatTimeout) :
        (live[d].status = "online" /\ live[d].lastSeen = t)
            ~> (live[d].status # "online" \/ live[d].lastSeen # t \/ phase # "up")

Promised == INSTANCE IngestContract WITH
    latest <- [d \in Device |-> live[d].ts],
    taken  <- published,
    online <- [d \in Device |-> live[d].status = "online"]

\* Uploads, sweep and removal together keep what the Hub promises an agent: each
\* newer sample is taken once, in order, and a device that goes offline keeps
\* the reading it had.
KeepsContract == Promised!Contract

\* persistPayload: "Never let it replace the live reading or roll the active
\* aggregation window backwards."
WindowNeverRollsBack ==
    [][\A d \in Device, k \in Kind : acc[d][k].samples # <<>> /\ acc'[d][k].samples # <<>> =>
          acc'[d][k].bucket >= acc[d][k].bucket]_acc

\* flushAfterDrain: "Wait, then take a fresh snapshot after HTTP drain."
FreshSnapshotAfterDrain ==
    phase \in {"down", "aborted"} /\ ~flush.failed =>
        \A d \in Device, k \in Kind : \A ts \in published[d] :
            BucketOf(k, ts) \in cut[d][k] \/ Recorded(d, k, ts)

=============================================================================
