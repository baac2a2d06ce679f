------------------------ MODULE MetricsServiceProofs ------------------------
(***************************************************************************)
(* Machine-checked theorems about MetricsService.                          *)
(***************************************************************************)
EXTENDS MetricsService, TLAPS, WellFoundedInduction

-----------------------------------------------------------------------------
(* The operators the model is built from *)

\* Math.floor(ts / WINDOW_MS) stays within the buckets of the model.
LEMMA BucketType ==
    ASSUME NEW k \in Kind, NEW ts \in Timestamp
    PROVE  BucketOf(k, ts) \in Bucket
<1>1. WindowLength(k) \in Nat \ {0}
  BY MetricsAssumption DEF WindowLength
<1>2. ts \in Nat /\ ts <= MaxTimestamp
  BY MetricsAssumption DEF Timestamp
<1>3. ASSUME NEW w \in Nat \ {0}, NEW n \in Nat PROVE n \div w \in 0..n
  OBVIOUS
<1>4. QED
  BY <1>1, <1>2, <1>3, MetricsAssumption DEF BucketOf, Bucket

\* Adding a sample keeps a sequence of timestamps, never empties it, and never
\* makes it longer than the cap allows.
LEMMA AddSampleType ==
    ASSUME NEW s \in Seq(Timestamp), NEW ts \in Timestamp, NEW cap \in Nat \ {0}
    PROVE  AddSample(s, ts, cap) \in Seq(Timestamp)
BY DEF AddSample

LEMMA UpsertRowType ==
    ASSUME NEW old \in Seq(Timestamp), NEW new \in Seq(Timestamp)
    PROVE  /\ UpsertRow(old, new) \in Seq(Timestamp)
           /\ Len(UpsertRow(old, new)) >= Len(old)
           /\ Len(UpsertRow(old, new)) >= Len(new)
BY DEF UpsertRow

LEMMA TrimType ==
    ASSUME NEW S, NEW list \in Seq(S), NEW maxP \in Nat \ {0}
    PROVE  Trim(list, maxP) \in Seq(S)
BY DEF Trim

\* Replacing a point of a list gives a list of the same length.
LEMMA ReplaceType ==
    ASSUME NEW S, NEW list \in Seq(S), NEW i, NEW p \in S
    PROVE  /\ [list EXCEPT ![i] = p] \in Seq(S)
           /\ Len([list EXCEPT ![i] = p]) = Len(list)
<1>1. Len(list) \in Nat /\ list \in [1..Len(list) -> S]
  OBVIOUS
<1>2. [list EXCEPT ![i] = p] \in [1..Len(list) -> S]
  BY <1>1
<1>3. QED
  BY <1>1, <1>2

LEMMA AppendSeriesType ==
    ASSUME NEW s \in SeriesStates, NEW ts \in Timestamp, NEW maxP \in Nat \ {0}
    PROVE  AppendSeries(s, Point(ts), maxP) \in SeriesStates
<1> DEFINE p == Point(ts)
<1>1. p \in Points
  BY DEF Points, Point
<1>2. s.list \in Seq(Points) /\ s.order \in Markers
  BY DEF SeriesStates
<1>3. \A i : [s.list EXCEPT ![i] = p] \in Seq(Points)
  BY <1>1, <1>2, ReplaceType
<1>4. Append(s.list, p) \in Seq(Points) /\ <<p>> \in Seq(Points)
  BY <1>1, <1>2
<1>5. ReplaceOrAppend(s.list, p) \in Seq(Points)
  BY <1>3, <1>4 DEF ReplaceOrAppend
<1>6. QED
  BY <1>3, <1>4, <1>5, TrimType DEF AppendSeries, SeriesStates, Markers

-----------------------------------------------------------------------------
(* Type correctness *)

Queues == [Device -> Seq(Operators)]

GoodHandlers == {h \in Handlers : CarriesSample(h)}

Rows == [Device -> [Kind -> [Bucket -> Seq(Timestamp)]]]

LEMMA ClockType == Clock \subseteq Nat /\ 0 \in Clock
BY MetricsAssumption DEF Clock

LEMMA NoneType == NoLive \in LiveStates /\ NoRecord \in Records /\ NoAccs \in [Kind -> Accs]
<1>1. NoLive \in LiveStates
  BY MetricsAssumption, ClockType DEF NoLive, LiveStates
<1>2. NoRecord \in Records
  BY DEF NoRecord, Records
<1>3. NoAccs \in [Kind -> Accs]
  BY MetricsAssumption DEF NoAccs, NoAcc, Accs, Bucket
<1>4. QED
  BY <1>1, <1>2, <1>3

LEMMA IdleType == Idle \in Handlers /\ CarriesSample(Idle)
<1>1. (CHOOSE d \in Device : TRUE) \in Device
  BY MetricsAssumption
<1>2. 0 \in 0..MaxTimestamp
  BY MetricsAssumption
<1>3. QED
  BY <1>1, <1>2, NoneType, ClockType DEF Idle, Handlers, CarriesSample, Steps, IngestSteps

LEMMA AdmitType ==
    ASSUME NEW q \in Queues, NEW d \in Device, NEW op \in Operators
    PROVE  Admit(q, d, op) \in Queues
BY DEF Admit, Queues

LEMMA LeaveType ==
    ASSUME NEW q \in Queues, NEW op
    PROVE  /\ Leave(q, op) \in Queues
           /\ \A d \in Device : AtHead(q, d, op) => [q EXCEPT ![d] = Tail(@)] \in Queues
BY DEF Leave, AtHead, Queues

\* The types of the handlers and queues in the form the steps below use.
LEMMA ServiceTypes ==
    ASSUME TypeOK
    PROVE  /\ ingestQ \in Queues /\ deviceQ \in Queues
           /\ req \in [Requests -> GoodHandlers]
           /\ \A r \in Requests : /\ r \in Operators
                                  /\ req[r] \in Handlers
                                  /\ CarriesSample(req[r])
                                  /\ req[r].dev \in Device
                                  /\ req[r].devs \subseteq Device
                                  /\ req[r].recv \in Clock
                                  /\ req[r].group \in Groups \cup {NoGroup}
                                  /\ req[r].rec \in [Device -> Records]
                                  /\ req[r].seen \in [Device -> LiveStates]
<1>1. \A r \in Requests : req[r] \in Handlers /\ CarriesSample(req[r])
  BY DEF TypeOK
<1>2. QED
  BY <1>1 DEF TypeOK, Queues, GoodHandlers, Handlers, Operators

\* Conversely, well-typed handlers and queues after a step.
LEMMA HandlersType ==
    ASSUME req' \in [Requests -> GoodHandlers]
    PROVE  req' \in [Requests -> Handlers] /\ \A r \in Requests : CarriesSample(req[r])'
BY DEF GoodHandlers, CarriesSample

\* The handler that ends leaves well-typed queues and an idle slot behind.
LEMMA ReleaseType ==
    ASSUME TypeOK, NEW r \in Requests, Release(r)
    PROVE  ingestQ' \in Queues /\ deviceQ' \in Queues /\ req' \in [Requests -> GoodHandlers]
BY ServiceTypes, LeaveType, IdleType DEF Release, GoodHandlers

LEMMA FailsType ==
    ASSUME TypeOK, NEW r \in Requests, NEW pc, FailsWith(r, pc)
    PROVE  /\ ingestQ' \in Queues /\ deviceQ' \in Queues /\ req' \in [Requests -> GoodHandlers]
           /\ faults' \in 0..MaxFaults
<1>1. Release(r) /\ Fault
  BY DEF FailsWith
<1>2. faults' \in 0..MaxFaults
  BY <1>1, MetricsAssumption DEF Fault, TypeOK
<1>3. QED
  BY <1>1, <1>2, ReleaseType

LEMMA GoToType ==
    ASSUME TypeOK, NEW r \in Requests, NEW pc \in Steps, GoTo(r, pc),
           pc \in IngestSteps => req[r].op = "ingest"
    PROVE  req' \in [Requests -> GoodHandlers]
<1>1. req \in [Requests -> GoodHandlers] /\ req[r] \in Handlers /\ CarriesSample(req[r])
  BY ServiceTypes
<1>2. [req[r] EXCEPT !.pc = pc] \in Handlers
  BY <1>1 DEF Handlers
<1>3. CarriesSample([req[r] EXCEPT !.pc = pc])
  BY <1>1 DEF CarriesSample, Handlers
<1>4. req' = [req EXCEPT ![r] = [req[r] EXCEPT !.pc = pc]]
  BY DEF GoTo
<1>5. QED
  BY <1>1, <1>2, <1>3, <1>4 DEF GoodHandlers

LEMMA PersistedType ==
    ASSUME TypeOK, NEW d \in Device, NEW k \in Kind
    PROVE  Persisted(d, k, acc[d][k]) \in Rows
<1>1. row \in Rows
  BY DEF TypeOK, Rows
<1>2. acc[d][k].bucket \in Bucket /\ acc[d][k].samples \in Seq(Timestamp)
  BY DEF TypeOK, Accs
<1>3. UpsertRow(row[d][k][acc[d][k].bucket], acc[d][k].samples) \in Seq(Timestamp)
  BY <1>1, <1>2, UpsertRowType DEF Rows
<1>4. QED
  BY <1>1, <1>2, <1>3 DEF Persisted, Rows

LEMMA CutType ==
    ASSUME TypeOK
    PROVE  /\ \A d \in Device : CutBuckets(d) \in [Device -> [Kind -> SUBSET Bucket]]
           /\ \A d \in Device, k \in Kind, b \in Bucket :
                 [cut EXCEPT ![d][k] = @ \cup {b}] \in [Device -> [Kind -> SUBSET Bucket]]
<1>1. cut \in [Device -> [Kind -> SUBSET Bucket]]
  BY DEF TypeOK
<1>2. \A d \in Device, k \in Kind : acc[d][k].bucket \in Bucket
  BY DEF TypeOK, Accs
<1>3. ASSUME NEW d \in Device PROVE CutBuckets(d) \in [Device -> [Kind -> SUBSET Bucket]]
  BY <1>1, <1>2 DEF CutBuckets
<1>4. ASSUME NEW d \in Device, NEW k \in Kind, NEW b \in Bucket
      PROVE  [cut EXCEPT ![d][k] = @ \cup {b}] \in [Device -> [Kind -> SUBSET Bucket]]
  BY <1>1
<1>5. QED
  BY <1>3, <1>4

-----------------------------------------------------------------------------
(* Every action keeps the types *)

LEMMA ReceivesType ==
    ASSUME TypeOK, NEW r, NEW op, Receives(r, op)
    PROVE  now' \in Clock
<1>1. now \in 0..MaxClock
  BY DEF TypeOK, Clock
<1>2. QED
  BY <1>1, MetricsAssumption DEF Receives, Clock

LEMMA SubmitType ==
    ASSUME TypeOK, NEW r \in Requests, Submit(r)
    PROVE  TypeOK'
<1> USE DEF stores, history
<1>1. ASSUME NEW d \in Device, NEW ts \in Timestamp, SubmitIngest(r, d, ts)
      PROVE  TypeOK'
  <2>1. now' \in Clock
    BY <1>1, ReceivesType DEF SubmitIngest
  <2> DEFINE h == [Idle EXCEPT !.op = "ingest", !.pc = "queued", !.dev = d, !.devs = {d}, !.ts = ts,
                               !.recv = now']
  <2>2. h \in Handlers
    <3>1. ts \in 0..MaxTimestamp
      BY MetricsAssumption DEF Timestamp
    <3>2. QED
      BY <2>1, <3>1, IdleType DEF Handlers, Steps
  <2>3. CarriesSample(h)
    BY IdleType DEF CarriesSample, Handlers, Steps
  <2>4. req' \in [Requests -> GoodHandlers]
    BY <1>1, <2>2, <2>3, ServiceTypes DEF SubmitIngest, GoodHandlers
  <2>5. ingestQ' \in Queues
    BY <1>1, ServiceTypes, AdmitType DEF SubmitIngest
  <2>6. QED
    BY <1>1, <2>1, <2>4, <2>5, HandlersType DEF SubmitIngest, TypeOK, Queues
<1>2. ASSUME NEW d \in Device, SubmitRemove(r, d)
      PROVE  TypeOK'
  <2>1. now' \in Clock
    BY <1>2, ReceivesType DEF SubmitRemove
  <2> DEFINE h == [Idle EXCEPT !.op = "remove", !.pc = "queued", !.dev = d, !.devs = {d}]
  <2>2. h \in Handlers
    BY IdleType DEF Handlers, Steps
  <2>3. CarriesSample(h)
    BY IdleType DEF CarriesSample, Handlers, IngestSteps
  <2>4. req' \in [Requests -> GoodHandlers]
    BY <1>2, <2>2, <2>3, ServiceTypes DEF SubmitRemove, GoodHandlers
  <2>5. ingestQ' \in Queues
    BY <1>2, ServiceTypes, AdmitType DEF SubmitRemove
  <2>6. QED
    BY <1>2, <2>1, <2>4, <2>5, HandlersType DEF SubmitRemove, TypeOK, Queues
<1>3. ASSUME NEW D \in SUBSET Device, NEW g \in Groups \cup {NoGroup}, SubmitGroup(r, D, g)
      PROVE  TypeOK'
  <2>1. now' \in Clock
    BY <1>3, ReceivesType DEF SubmitGroup
  <2> DEFINE h == [Idle EXCEPT !.op = "group", !.pc = "update", !.devs = D, !.todo = D, !.group = g]
  <2>2. h \in Handlers
    BY IdleType DEF Handlers, Steps
  <2>3. CarriesSample(h)
    BY IdleType DEF CarriesSample, Handlers, IngestSteps
  <2>4. req' \in [Requests -> GoodHandlers]
    BY <1>3, <2>2, <2>3, ServiceTypes DEF SubmitGroup, GoodHandlers
  <2>5. QED
    BY <1>3, <2>1, <2>4, HandlersType DEF SubmitGroup, TypeOK
<1>4. QED
  BY <1>1, <1>2, <1>3 DEF Submit

LEMMA LockType ==
    ASSUME TypeOK, NEW r \in Requests, EnterDeviceQueue(r) \/ AcquireNext(r)
    PROVE  TypeOK'
<1> USE DEF stores
<1>1. CASE EnterDeviceQueue(r)
  <2>1. CASE Full(deviceQ, req[r].dev)
    <3>1. Release(r)
      BY <1>1, <2>1 DEF EnterDeviceQueue
    <3>2. missed' \in [Device -> BOOLEAN]
      BY <1>1, <2>1, Zenon DEF EnterDeviceQueue
    <3>3. QED
      BY <1>1, <3>1, <3>2, ReleaseType, HandlersType DEF EnterDeviceQueue, TypeOK, Queues
  <2>2. CASE ~Full(deviceQ, req[r].dev)
    <3>1. deviceQ' \in Queues
      BY <1>1, <2>2, ServiceTypes, AdmitType DEF EnterDeviceQueue
    <3> DEFINE pc == IF Unlocked(r) = {} THEN FirstStep(req[r].op) ELSE "locked"
    <3>2. pc \in Steps /\ (pc \in IngestSteps => req[r].op = "ingest")
      BY DEF FirstStep, Steps, IngestSteps
    <3>3. GoTo(r, pc)
      BY <1>1, <2>2 DEF EnterDeviceQueue
    <3> HIDE DEF pc
    <3>4. req' \in [Requests -> GoodHandlers]
      BY <3>2, <3>3, GoToType
    <3>5. QED
      BY <1>1, <2>2, <3>1, <3>4, HandlersType DEF EnterDeviceQueue, TypeOK, Queues
  <2>3. QED
    BY <2>1, <2>2
<1>2. CASE AcquireNext(r)
  <2>1. PICK next \in Device : 
           IF Full(ingestQ, next)
              THEN /\ Release(r)
                   /\ missed' = [x \in Device |-> missed[x] \/ x \in req[r].devs]
              ELSE /\ ingestQ' = Admit(ingestQ, next, r)
                   /\ req' = [req EXCEPT ![r].pc = "queued", ![r].dev = next]
                   /\ UNCHANGED <<deviceQ, missed>>
    BY <1>2 DEF AcquireNext
  <2>2. CASE Full(ingestQ, next)
    <3>1. Release(r)
      BY <2>1, <2>2
    <3>2. missed' \in [Device -> BOOLEAN]
      BY <2>1, <2>2, Zenon
    <3>3. QED
      BY <1>2, <3>1, <3>2, ReleaseType, HandlersType DEF AcquireNext, TypeOK, Queues
  <2>3. CASE ~Full(ingestQ, next)
    <3>1. ingestQ' \in Queues
      BY <2>1, <2>3, ServiceTypes, AdmitType
    <3> DEFINE h == [req[r] EXCEPT !.pc = "queued", !.dev = next]
    <3>2. h \in Handlers /\ CarriesSample(h)
      <4>1. req[r] \in Handlers /\ CarriesSample(req[r])
        BY ServiceTypes
      <4>2. QED
        BY <4>1 DEF Handlers, CarriesSample, Steps, IngestSteps
    <3>3. req' = [req EXCEPT ![r] = h]
      BY <2>1, <2>3
    <3>4. req' \in [Requests -> GoodHandlers]
      BY <3>2, <3>3, ServiceTypes DEF GoodHandlers
    <3>5. QED
      BY <1>2, <2>1, <2>3, <3>1, <3>4, HandlersType DEF AcquireNext, TypeOK, Queues
  <2>4. QED
    BY <2>2, <2>3
<1>3. QED
  BY <1>1, <1>2

\* The types of the data in the form the steps below use.
LEMMA DataTypes ==
    ASSUME TypeOK
    PROVE  /\ acc \in [Device -> [Kind -> Accs]]
           /\ row \in Rows
           /\ cut \in [Device -> [Kind -> SUBSET Bucket]]
           /\ published \in [Device -> SUBSET Timestamp]
           /\ live \in [Device -> LiveStates]
           /\ registry \in [Device -> Records]
           /\ view \in [Device -> Views]
           /\ missed \in [Device -> BOOLEAN]
BY DEF TypeOK, Rows

\* A handler in a step of ingest carries a sample, and its bucket is a bucket.
LEMMA IngestSample ==
    ASSUME TypeOK, NEW r \in Requests, NEW pc \in IngestSteps, Runs(r, pc)
    PROVE  /\ req[r].op = "ingest"
           /\ req[r].ts \in Timestamp
           /\ \A k \in Kind : BucketOf(k, req[r].ts) \in Bucket
<1>1. req[r].pc \in IngestSteps /\ CarriesSample(req[r])
  BY ServiceTypes DEF Runs
<1>2. req[r].op = "ingest" /\ req[r].ts \in Timestamp
  BY <1>1 DEF CarriesSample
<1>3. QED
  BY <1>2, BucketType

LEMMA RegisterType ==
    ASSUME TypeOK, NEW r \in Requests, Register(r)
    PROVE  TypeOK'
<1> DEFINE d == req[r].dev
<1>1. d \in Device /\ req[r] \in Handlers /\ CarriesSample(req[r])
  BY ServiceTypes
<1>2. OpenRecord(d) \in Records
  BY <1>1 DEF OpenRecord, Records, TypeOK
<1>3. [registry EXCEPT ![d] = OpenRecord(d)] \in [Device -> Records]
  BY <1>1, <1>2 DEF TypeOK
<1>4. registry' \in [Device -> Records]
  BY <1>3 DEF Register, TypeOK
<1>5. CASE FailsWith(r, "register")
  BY <1>4, <1>5, FailsType, HandlersType DEF Register, TypeOK, Queues, history
<1>6. CASE ~FailsWith(r, "register")
  <2>1. Runs(r, "register") /\ UNCHANGED <<ingestQ, deviceQ, faults>>
    BY <1>6 DEF Register
  <2> DEFINE h == [req[r] EXCEPT !.pc = "previous", !.rec[d] = OpenRecord(d)]
  <2>2. req' = [req EXCEPT ![r] = h]
    BY <1>6 DEF Register
  <2>3. req[r].op = "ingest"
    BY <2>1, IngestSample DEF IngestSteps
  <2>4. h \in Handlers /\ CarriesSample(h)
    BY <1>1, <1>2, <2>3 DEF Handlers, CarriesSample, Steps, IngestSteps
  <2>5. req' \in [Requests -> GoodHandlers]
    BY <2>2, <2>4, ServiceTypes DEF GoodHandlers
  <2>6. QED
    BY <1>4, <2>1, <2>5, HandlersType DEF Register, TypeOK, history
<1>7. QED
  BY <1>5, <1>6

LEMMA ReadPreviousType ==
    ASSUME TypeOK, NEW r \in Requests, ReadPrevious(r)
    PROVE  TypeOK'
<1>1. req[r].dev \in Device
  BY ServiceTypes
<1>2. acc' \in [Device -> [Kind -> Accs]] /\ cut' \in [Device -> [Kind -> SUBSET Bucket]]
  <2>1. \/ UNCHANGED <<acc, cut>>
        \/ acc' = [acc EXCEPT ![req[r].dev] = NoAccs] /\ cut' = CutBuckets(req[r].dev)
    BY DEF ReadPrevious
  <2>2. /\ acc \in [Device -> [Kind -> Accs]]
        /\ cut \in [Device -> [Kind -> SUBSET Bucket]]
        /\ NoAccs \in [Kind -> Accs]
        /\ CutBuckets(req[r].dev) \in [Device -> [Kind -> SUBSET Bucket]]
    BY <1>1, NoneType, CutType, DataTypes
  <2>3. CASE UNCHANGED <<acc, cut>>
    BY <2>2, <2>3
  <2>4. CASE acc' = [acc EXCEPT ![req[r].dev] = NoAccs] /\ cut' = CutBuckets(req[r].dev)
    BY <1>1, <2>2, <2>4
  <2>5. QED
    BY <2>1, <2>3, <2>4
<1>3. /\ ingestQ' \in Queues /\ deviceQ' \in Queues /\ req' \in [Requests -> GoodHandlers]
      /\ faults' \in 0..MaxFaults
  <2>1. CASE FailsWith(r, "previous")
    BY <2>1, FailsType
  <2>2. CASE Release(r) /\ UNCHANGED faults
    BY <2>2, ReleaseType DEF TypeOK
  <2>3. CASE Runs(r, "previous") /\ GoTo(r, "append") /\ UNCHANGED <<ingestQ, deviceQ, faults>>
    <3>1. req[r].op = "ingest" /\ "append" \in Steps
      BY <2>3, IngestSample DEF IngestSteps, Steps
    <3>2. QED
      BY <2>3, <3>1, GoToType, ServiceTypes DEF TypeOK
  <2>4. QED
    BY <2>1, <2>2, <2>3 DEF ReadPrevious
<1>4. QED
  BY <1>2, <1>3, HandlersType DEF ReadPrevious, TypeOK, Queues, stores

LEMMA AppendRawType ==
    ASSUME TypeOK, NEW r \in Requests, AppendRaw(r)
    PROVE  TypeOK'
<1> DEFINE d == req[r].dev  ts == req[r].ts
<1>1. d \in Device
  BY ServiceTypes
<1>2. ts \in Timestamp /\ req[r].op = "ingest"
  BY IngestSample DEF AppendRaw, FailsWith, IngestSteps
<1>3. \A w \in Window : MaxPoints(w) \in Nat \ {0}
  BY MetricsAssumption DEF MaxPoints
<1>4. \A w \in Window : AppendSeries(series[d][w], Point(ts), MaxPoints(w)) \in SeriesStates
  BY <1>1, <1>2, <1>3, AppendSeriesType DEF TypeOK
<1>5. \A W \in SUBSET Window : Appended(d, ts, W) \in [Device -> [Window -> SeriesStates]]
  BY <1>1, <1>4 DEF Appended, TypeOK
<1>6. series' \in [Device -> [Window -> SeriesStates]]
  BY <1>5 DEF AppendRaw
<1>7. CASE FailsWith(r, "append")
  BY <1>6, <1>7, FailsType, HandlersType DEF AppendRaw, TypeOK, Queues, history
<1>8. CASE ~FailsWith(r, "append")
  <2>1. GoTo(r, "minute") /\ UNCHANGED <<ingestQ, deviceQ, faults>>
    BY <1>8 DEF AppendRaw
  <2>2. req' \in [Requests -> GoodHandlers]
    BY <1>2, <2>1, GoToType DEF Steps, IngestSteps
  <2>3. QED
    BY <1>6, <2>1, <2>2, HandlersType DEF AppendRaw, TypeOK, history
<1>9. QED
  BY <1>7, <1>8

LEMMA AccumulateType ==
    ASSUME TypeOK, NEW r \in Requests, NEW k \in Kind, NEW nextPc \in {"hourly", "upsert"},
           Accumulate(r, k, nextPc)
    PROVE  TypeOK'
<1> DEFINE d == req[r].dev  a == acc[d][k]  added == AddSample(a.samples, req[r].ts, MaxSamples(k))
<1>1. d \in Device /\ a \in Accs /\ a.samples \in Seq(Timestamp) /\ a.bucket \in Bucket
  <2>1. d \in Device
    BY ServiceTypes
  <2>2. a \in Accs
    BY <2>1, DataTypes
  <2>3. QED
    BY <2>1, <2>2 DEF Accs
<1>2. req[r].ts \in Timestamp /\ req[r].op = "ingest"
  BY IngestSample DEF Accumulate, IngestSteps, Kind
<1>3. MaxSamples(k) \in Nat \ {0}
  BY MetricsAssumption DEF MaxSamples
<1>4. added \in Seq(Timestamp)
  BY <1>1, <1>2, <1>3, AddSampleType
<1>5. acc' \in [Device -> [Kind -> Accs]]
  <2>1. [a EXCEPT !.samples = added, !.dirty = TRUE] \in Accs
    BY <1>1, <1>4 DEF Accs
  <2>2. acc' = [acc EXCEPT ![d][k] = [a EXCEPT !.samples = added, !.dirty = TRUE]]
    BY <1>1 DEF Accumulate, TypeOK
  <2>3. QED
    BY <1>1, <2>1, <2>2 DEF TypeOK
<1>6. cut' \in [Device -> [Kind -> SUBSET Bucket]]
  BY <1>1, CutType DEF Accumulate, TypeOK
<1>7. req' \in [Requests -> GoodHandlers]
  BY <1>2, GoToType DEF Accumulate, Steps, IngestSteps
<1>8. QED
  BY <1>5, <1>6, <1>7, HandlersType DEF Accumulate, TypeOK, stores

LEMMA RollOverType ==
    ASSUME TypeOK, NEW r \in Requests, NEW k \in Kind, NEW nextPc \in {"hourly", "upsert"},
           RollOver(r, k, nextPc)
    PROVE  TypeOK'
<1> DEFINE d == req[r].dev  a == acc[d][k]  b == BucketOf(k, req[r].ts)
<1>1. d \in Device
  BY ServiceTypes
<1>2. req[r].ts \in Timestamp /\ req[r].op = "ingest" /\ b \in Bucket
  BY IngestSample DEF RollOver, FailsWith, IngestSteps, Kind
<1>3. row' \in Rows
  BY <1>1, PersistedType DEF RollOver, TypeOK, Rows
<1>4. acc' \in [Device -> [Kind -> Accs]]
  <2>1. Opened(b, req[r].ts) \in Accs
    BY <1>2 DEF Opened, Accs
  <2>2. acc' = acc \/ acc' = [acc EXCEPT ![d][k] = Opened(b, req[r].ts)]
    BY DEF RollOver
  <2>3. acc \in [Device -> [Kind -> Accs]]
    BY DataTypes
  <2> HIDE DEF b
  <2>4. [acc EXCEPT ![d][k] = Opened(b, req[r].ts)] \in [Device -> [Kind -> Accs]]
    BY <1>1, <2>1, <2>3
  <2>5. QED
    BY <2>2, <2>3, <2>4
<1>5. cut' \in [Device -> [Kind -> SUBSET Bucket]]
  <2>1. cut' = cut \/ cut' = Reopened(d, k, b)
    BY DEF RollOver
  <2> HIDE DEF b
  <2>2. /\ cut \in [Device -> [Kind -> SUBSET Bucket]]
        /\ [cut EXCEPT ![d][k] = @ \cup {b}] \in [Device -> [Kind -> SUBSET Bucket]]
    BY <1>1, <1>2, CutType, DataTypes
  <2>3. Reopened(d, k, b) \in [Device -> [Kind -> SUBSET Bucket]]
    BY <2>2 DEF Reopened
  <2>4. QED
    BY <2>1, <2>2, <2>3
<1>6. CASE FailsWith(r, k)
  BY <1>3, <1>4, <1>5, <1>6, FailsType, HandlersType DEF RollOver, TypeOK, Queues, Rows
<1>7. CASE ~FailsWith(r, k)
  <2>1. GoTo(r, nextPc) /\ UNCHANGED <<ingestQ, deviceQ, faults>>
    BY <1>7 DEF RollOver
  <2>2. req' \in [Requests -> GoodHandlers]
    BY <1>2, <2>1, GoToType DEF Steps, IngestSteps
  <2>3. QED
    BY <1>3, <1>4, <1>5, <2>1, <2>2, HandlersType DEF RollOver, TypeOK, Rows
<1>8. QED
  BY <1>6, <1>7

LEMMA UpsertType ==
    ASSUME TypeOK, NEW r \in Requests, Upsert(r)
    PROVE  TypeOK'
<1> DEFINE d == req[r].dev
           state == [ts |-> req[r].ts, lastSeen |-> req[r].recv, status |-> "online"]
<1>1. d \in Device /\ req[r].recv \in Clock
  BY ServiceTypes
<1>2. req[r].ts \in Timestamp /\ req[r].op = "ingest"
  BY IngestSample DEF Upsert, FailsWith, IngestSteps
<1>3. state \in LiveStates
  BY <1>1, <1>2, MetricsAssumption DEF LiveStates, Timestamp
<1>4. live' \in [Device -> LiveStates]
  BY <1>1, <1>3 DEF Upsert, TypeOK
<1>5. published' \in [Device -> SUBSET Timestamp]
  <2>1. published' = published \/ published' = [published EXCEPT ![d] = @ \cup {req[r].ts}]
    BY DEF Upsert
  <2>2. QED
    BY <1>1, <1>2, <2>1, DataTypes
<1>6. missed' \in [Device -> BOOLEAN]
  BY <1>1 DEF Upsert, TypeOK
<1>7. CASE FailsWith(r, "upsert")
  BY <1>4, <1>5, <1>6, <1>7, FailsType, HandlersType DEF Upsert, TypeOK, Queues
<1>8. CASE ~FailsWith(r, "upsert")
  <2>1. GoTo(r, "emit") /\ UNCHANGED <<ingestQ, deviceQ, faults>>
    BY <1>8 DEF Upsert
  <2>2. req' \in [Requests -> GoodHandlers]
    BY <1>2, <2>1, GoToType DEF Steps, IngestSteps
  <2>3. QED
    BY <1>4, <1>5, <1>6, <2>1, <2>2, HandlersType DEF Upsert, TypeOK
<1>9. QED
  BY <1>7, <1>8

LEMMA EmitAcceptedType ==
    ASSUME TypeOK, NEW r \in Requests, EmitAccepted(r)
    PROVE  TypeOK'
<1>1. req[r].dev \in Device /\ req[r].rec \in [Device -> Records]
  BY ServiceTypes
<1>2. req[r].ts \in 0..MaxTimestamp
  BY IngestSample, MetricsAssumption DEF EmitAccepted, IngestSteps, Timestamp
<1>3. view' \in [Device -> Views]
  BY <1>1, <1>2 DEF EmitAccepted, TypeOK, Views, Records
<1>4. QED
  BY <1>3, ReleaseType, HandlersType DEF EmitAccepted, TypeOK, Queues, stores, history

\* The effects a step of removeDevice has on the stores are well typed.
LEMMA RemoveEffects ==
    ASSUME TypeOK, NEW r \in Requests
    PROVE  /\ req[r].dev \in Device
           /\ [registry EXCEPT ![req[r].dev] = Closed(req[r].dev)] \in [Device -> Records]
           /\ [missed EXCEPT ![req[r].dev] = TRUE] \in [Device -> BOOLEAN]
           /\ [acc EXCEPT ![req[r].dev] = NoAccs] \in [Device -> [Kind -> Accs]]
           /\ CutBuckets(req[r].dev) \in [Device -> [Kind -> SUBSET Bucket]]
           /\ [live EXCEPT ![req[r].dev] = NoLive] \in [Device -> LiveStates]
           /\ [series EXCEPT ![req[r].dev] = [w \in Window |-> EmptySeries]]
                 \in [Device -> [Window -> SeriesStates]]
<1>1. req[r].dev \in Device
  BY ServiceTypes
<1>2. Closed(req[r].dev) \in Records /\ registry \in [Device -> Records]
  BY <1>1 DEF Closed, Records, TypeOK
<1>3. EmptySeries \in SeriesStates /\ series \in [Device -> [Window -> SeriesStates]]
  BY DEF EmptySeries, SeriesStates, Markers, TypeOK
<1>4. acc \in [Device -> [Kind -> Accs]] /\ live \in [Device -> LiveStates] /\ missed \in [Device -> BOOLEAN]
  BY DEF TypeOK
<1>5. [registry EXCEPT ![req[r].dev] = Closed(req[r].dev)] \in [Device -> Records]
  BY <1>1, <1>2
<1>6. [acc EXCEPT ![req[r].dev] = NoAccs] \in [Device -> [Kind -> Accs]]
  BY <1>1, <1>4, NoneType
<1>7. [live EXCEPT ![req[r].dev] = NoLive] \in [Device -> LiveStates]
  BY <1>1, <1>4, NoneType
<1>8. [missed EXCEPT ![req[r].dev] = TRUE] \in [Device -> BOOLEAN]
  BY <1>1, <1>4
<1>9. [series EXCEPT ![req[r].dev] = [w \in Window |-> EmptySeries]] \in [Device -> [Window -> SeriesStates]]
  BY <1>1, <1>3
<1>10. QED
  BY <1>1, <1>5, <1>6, <1>7, <1>8, <1>9, CutType

LEMMA RemoveType ==
    ASSUME TypeOK, NEW r \in Requests, Remove(r)
    PROVE  TypeOK'
<1> DEFINE x == req[r].dev
<1>a. /\ [registry EXCEPT ![x] = Closed(x)] \in [Device -> Records]
      /\ [missed EXCEPT ![x] = TRUE] \in [Device -> BOOLEAN]
      /\ [acc EXCEPT ![x] = NoAccs] \in [Device -> [Kind -> Accs]]
      /\ CutBuckets(x) \in [Device -> [Kind -> SUBSET Bucket]]
      /\ [live EXCEPT ![x] = NoLive] \in [Device -> LiveStates]
      /\ [series EXCEPT ![x] = [w \in Window |-> EmptySeries]] \in [Device -> [Window -> SeriesStates]]
  BY RemoveEffects
<1>b. /\ registry \in [Device -> Records] /\ missed \in [Device -> BOOLEAN]
      /\ acc \in [Device -> [Kind -> Accs]] /\ cut \in [Device -> [Kind -> SUBSET Bucket]]
      /\ live \in [Device -> LiveStates] /\ series \in [Device -> [Window -> SeriesStates]]
  BY DEF TypeOK
<1>1. CASE DeleteDevice(r)
  <2>1. registry' \in [Device -> Records] /\ missed' \in [Device -> BOOLEAN]
    <3>1. /\ registry' = registry \/ registry' = [registry EXCEPT ![req[r].dev] = Closed(req[r].dev)]
          /\ missed' = missed \/ missed' = [missed EXCEPT ![req[r].dev] = TRUE]
      BY <1>1 DEF DeleteDevice
    <3>2. QED
      BY <3>1, <1>a, <1>b
  <2>2. CASE FailsWith(r, "delete")
    BY <1>1, <2>1, <2>2, FailsType, HandlersType DEF DeleteDevice, TypeOK, Queues
  <2>3. CASE ~FailsWith(r, "delete")
    <3>1. GoTo(r, "state") /\ UNCHANGED <<ingestQ, deviceQ, faults>>
      BY <1>1, <2>3 DEF DeleteDevice
    <3>2. req' \in [Requests -> GoodHandlers]
      BY <3>1, GoToType DEF Steps, IngestSteps
    <3>3. QED
      BY <1>1, <2>1, <3>1, <3>2, HandlersType DEF DeleteDevice, TypeOK
  <2>4. QED
    BY <2>2, <2>3
<1>2. CASE ForgetAccumulators(r)
  <2>1. /\ acc' \in [Device -> [Kind -> Accs]] /\ cut' \in [Device -> [Kind -> SUBSET Bucket]]
        /\ missed' \in [Device -> BOOLEAN]
    <3>1. /\ acc' = acc \/ acc' = [acc EXCEPT ![req[r].dev] = NoAccs]
          /\ cut' = cut \/ cut' = CutBuckets(req[r].dev)
          /\ missed' = missed \/ missed' = [missed EXCEPT ![req[r].dev] = TRUE]
      BY <1>2 DEF ForgetAccumulators
    <3>2. QED
      BY <3>1, <1>a, <1>b
  <2>2. CASE FailsWith(r, "state")
    BY <1>2, <2>1, <2>2, FailsType, HandlersType DEF ForgetAccumulators, TypeOK, Queues, stores
  <2>3. CASE ~FailsWith(r, "state")
    <3> DEFINE d == req[r].dev  h == [req[r] EXCEPT !.pc = "remove", !.seen[d] = live[d]]
    <3>1. req' = [req EXCEPT ![r] = h] /\ UNCHANGED <<ingestQ, deviceQ, faults>>
      BY <1>2, <2>3 DEF ForgetAccumulators
    <3>2. req[r] \in Handlers /\ CarriesSample(req[r]) /\ d \in Device /\ live[d] \in LiveStates
      BY ServiceTypes, DataTypes
    <3>3. req[r].pc \notin IngestSteps
      BY <1>2, <2>3 DEF ForgetAccumulators, Runs, IngestSteps
    <3>4. h \in Handlers /\ CarriesSample(h)
      BY <3>2, <3>3 DEF Handlers, CarriesSample, Steps, IngestSteps
    <3>5. req' \in [Requests -> GoodHandlers]
      BY <3>1, <3>4, ServiceTypes DEF GoodHandlers
    <3>6. QED
      BY <1>2, <2>1, <3>1, <3>5, HandlersType DEF ForgetAccumulators, TypeOK, stores
  <2>4. QED
    BY <2>2, <2>3
<1>3. CASE RemoveState(r)
  <2>1. live' \in [Device -> LiveStates] /\ missed' \in [Device -> BOOLEAN]
    <3>1. /\ live' = live \/ live' = [live EXCEPT ![req[r].dev] = NoLive]
          /\ missed' = missed \/ missed' = [missed EXCEPT ![req[r].dev] = TRUE]
      BY <1>3 DEF RemoveState
    <3>2. QED
      BY <3>1, <1>a, <1>b
  <2>2. CASE FailsWith(r, "remove")
    BY <1>3, <2>1, <2>2, FailsType, HandlersType DEF RemoveState, TypeOK, Queues
  <2>3. CASE ~FailsWith(r, "remove")
    <3>1. GoTo(r, "clear") /\ UNCHANGED <<ingestQ, deviceQ, faults>>
      BY <1>3, <2>3 DEF RemoveState
    <3>2. req' \in [Requests -> GoodHandlers]
      BY <3>1, GoToType DEF Steps, IngestSteps
    <3>3. QED
      BY <1>3, <2>1, <3>1, <3>2, HandlersType DEF RemoveState, TypeOK
  <2>4. QED
    BY <2>2, <2>3
<1>4. CASE ClearSeries(r)
  <2>1. series' \in [Device -> [Window -> SeriesStates]] /\ missed' \in [Device -> BOOLEAN]
    <3>1. /\ \/ series' = series
             \/ series' = [series EXCEPT ![req[r].dev] = [w \in Window |-> EmptySeries]]
          /\ missed' = missed \/ missed' = [missed EXCEPT ![req[r].dev] = TRUE]
      BY <1>4 DEF ClearSeries
    <3>2. QED
      BY <3>1, <1>a, <1>b
  <2>2. view' \in [Device -> Views]
    <3> DEFINE d == req[r].dev
               v == [kind |-> "removed", ts |-> req[r].seen[d].ts, status |-> "offline", group |-> NoGroup]
    <3>1. view' = view \/ view' = [view EXCEPT ![d] = v]
      BY <1>4 DEF ClearSeries
    <3>2. d \in Device /\ req[r].seen[d] \in LiveStates
      BY ServiceTypes
    <3>3. v \in Views
      BY <3>2 DEF Views, LiveStates
    <3>4. QED
      BY <3>1, <3>2, <3>3, DataTypes
  <2>3. CASE FailsWith(r, "clear")
    BY <1>4, <2>1, <2>2, <2>3, FailsType, HandlersType DEF ClearSeries, TypeOK, Queues
  <2>4. CASE ~FailsWith(r, "clear")
    <3>1. Release(r) /\ UNCHANGED faults
      BY <1>4, <2>4 DEF ClearSeries
    <3>2. QED
      BY <1>4, <2>1, <2>2, <3>1, ReleaseType, HandlersType DEF ClearSeries, TypeOK, Queues
  <2>5. QED
    BY <2>3, <2>4
<1>5. QED
  BY <1>1, <1>2, <1>3, <1>4 DEF Remove

LEMMA StateViewType ==
    ASSUME NEW s \in LiveStates, NEW g \in Groups \cup {NoGroup}
    PROVE  StateView(s, g) \in Views
BY DEF StateView, LiveStates, Views

LEMMA FaultType ==
    ASSUME TypeOK, Fault
    PROVE  faults' \in 0..MaxFaults
<1>1. faults \in 0..MaxFaults
  BY DEF TypeOK
<1>2. QED
  BY <1>1, MetricsAssumption DEF Fault

LEMMA UpdateGroupType ==
    ASSUME TypeOK, NEW r \in Requests, UpdateGroup(r)
    PROVE  TypeOK'
<1> DEFINE D == req[r].devs  g == req[r].group
<1>1. Regrouped(D, g) \in [Device -> Records]
  <2>1. g \in Groups \cup {NoGroup} /\ registry \in [Device -> Records]
    BY ServiceTypes, DataTypes
  <2>2. QED
    BY <2>1 DEF Regrouped, Records
<1>2. registry' \in [Device -> Records]
  BY <1>1, DataTypes DEF UpdateGroup
<1>3. missed' \in [Device -> BOOLEAN]
  <2>1. missed' = missed \/ missed' = [d \in Device |-> missed[d] \/ d \in D]
    BY DEF UpdateGroup
  <2>2. [d \in Device |-> missed[d] \/ d \in D] \in [Device -> BOOLEAN]
    BY Zenon
  <2>3. QED
    BY <2>1, <2>2, DataTypes
<1>4. faults' \in 0..MaxFaults
  <2>1. faults' = faults \/ Fault
    BY DEF UpdateGroup
  <2>2. QED
    BY <2>1, FaultType DEF TypeOK
<1>5. ingestQ' \in Queues /\ req' \in [Requests -> GoodHandlers]
  <2>1. CASE req' = [req EXCEPT ![r] = Idle] /\ UNCHANGED ingestQ
    BY <2>1, ServiceTypes, IdleType DEF GoodHandlers
  <2>2. ASSUME NEW first \in Device, ingestQ' = Admit(ingestQ, first, r),
               req' = [req EXCEPT ![r].pc = "queued", ![r].dev = first]
        PROVE  ingestQ' \in Queues /\ req' \in [Requests -> GoodHandlers]
    <3> DEFINE h == [req[r] EXCEPT !.pc = "queued", !.dev = first]
    <3>1. req[r] \in Handlers /\ CarriesSample(req[r])
      BY ServiceTypes
    <3>2. h \in Handlers /\ CarriesSample(h)
      BY <3>1 DEF Handlers, CarriesSample, Steps, IngestSteps
    <3>3. req' = [req EXCEPT ![r] = h]
      BY <2>2
    <3>4. QED
      BY <2>2, <3>2, <3>3, ServiceTypes, AdmitType DEF GoodHandlers
  <2>3. QED
    BY <2>1, <2>2 DEF UpdateGroup
<1>6. QED
  BY <1>2, <1>3, <1>4, <1>5, HandlersType DEF UpdateGroup, TypeOK, Queues

LEMMA NotifyGroupType ==
    ASSUME TypeOK, NEW r \in Requests, NEW d \in Device, NEW part \in {"live", "record"},
           NotifyGroup(r, d, part)
    PROVE  TypeOK'
<1> DEFINE state  == IF part = "live" THEN live[d] ELSE req[r].seen[d]
           record == IF part = "record" THEN registry[d] ELSE req[r].rec[d]
<1>1. state \in LiveStates /\ record \in Records
  BY ServiceTypes, DataTypes
<1>2. view' \in [Device -> Views]
  <2>1. record.group \in Groups \cup {NoGroup}
    BY <1>1 DEF Records
  <2>2. StateView(state, record.group) \in Views
    BY <1>1, <2>1, StateViewType
  <2>3. view' = view \/ view' = [view EXCEPT ![d] = StateView(state, record.group)]
    BY DEF NotifyGroup
  <2> HIDE DEF state, record
  <2>4. QED
    BY <2>2, <2>3, DataTypes
<1>3. faults' \in 0..MaxFaults /\ missed' \in [Device -> BOOLEAN]
  <2>1. UNCHANGED <<faults, missed>> \/ (Fault /\ missed' = [missed EXCEPT ![d] = TRUE])
    BY DEF NotifyGroup
  <2>2. missed \in [Device -> BOOLEAN] /\ [missed EXCEPT ![d] = TRUE] \in [Device -> BOOLEAN]
    BY DataTypes
  <2>3. QED
    BY <2>1, <2>2, FaultType DEF TypeOK
<1>4. ingestQ' \in Queues /\ deviceQ' \in Queues /\ req' \in [Requests -> GoodHandlers]
  <2>0. req[r] \in Handlers /\ CarriesSample(req[r])
    BY ServiceTypes
  <2>1. CASE Settle(r, d)
    <3>1. CASE Release(r)
      BY <3>1, ReleaseType
    <3>2. CASE req' = [req EXCEPT ![r].todo = @ \ {d}] /\ UNCHANGED <<ingestQ, deviceQ>>
      <4> DEFINE h == [req[r] EXCEPT !.todo = @ \ {d}]
      <4>1. h \in Handlers /\ CarriesSample(h)
        BY <2>0 DEF Handlers, CarriesSample
      <4>2. req' = [req EXCEPT ![r] = h]
        BY <3>2
      <4>3. QED
        BY <3>2, <4>1, <4>2, ServiceTypes DEF GoodHandlers
    <3>3. QED
      BY <2>1, <3>1, <3>2 DEF Settle
  <2>2. CASE /\ req' = [req EXCEPT ![r].half[d] = part, ![r].seen[d] = state, ![r].rec[d] = record]
             /\ UNCHANGED <<ingestQ, deviceQ>>
    <3> HIDE DEF state, record
    <3> DEFINE h == [req[r] EXCEPT !.half[d] = part, !.seen[d] = state, !.rec[d] = record]
    <3>1. h \in Handlers /\ CarriesSample(h)
      BY <1>1, <2>0 DEF Handlers, CarriesSample
    <3>2. req' = [req EXCEPT ![r] = h]
      BY <2>2
    <3>3. QED
      BY <2>2, <3>1, <3>2, ServiceTypes DEF GoodHandlers
  <2>3. QED
    BY <2>1, <2>2 DEF NotifyGroup
<1>5. QED
  BY <1>2, <1>3, <1>4, HandlersType DEF NotifyGroup, TypeOK, Queues, stores

FlushStates == [failed : BOOLEAN, pc : [Device -> {"none", "captured", "minute", "hourly"}]]

SweepStates == [running : BOOLEAN, at : Clock, failed : BOOLEAN,
                pc : [Device -> {"none", "mark", "queued", "notify"}], seen : [Device -> LiveStates]]

LEMMA TimerTypes ==
    ASSUME TypeOK
    PROVE  /\ flush \in FlushStates /\ sweep \in SweepStates
           /\ NoFlush \in FlushStates /\ NoSweep \in SweepStates
           /\ "flush" \in Operators /\ "sweep" \in Operators
           /\ \A d \in Device : sweep.seen[d] \in LiveStates
<1>1. flush \in FlushStates /\ sweep \in SweepStates
  BY DEF TypeOK, FlushStates, SweepStates
<1>2. NoFlush \in FlushStates
  BY DEF NoFlush, FlushStates
<1>3. NoSweep \in SweepStates
  BY NoneType, ClockType DEF NoSweep, SweepStates
<1>4. QED
  BY <1>1, <1>2, <1>3 DEF Operators, SweepStates

\* A step of the flush of one device.
LEMMA FlushPcType ==
    ASSUME NEW f \in FlushStates, NEW d \in Device, NEW pc \in {"none", "captured", "minute", "hourly"}
    PROVE  /\ [f EXCEPT !.pc[d] = pc] \in FlushStates
           /\ [f EXCEPT !.pc[d] = pc, !.failed = TRUE] \in FlushStates
BY DEF FlushStates

LEMMA CaptureFlushType == CaptureFlush => flush' \in FlushStates
BY DEF CaptureFlush, FlushStates

LEMMA FlushStageType ==
    ASSUME TypeOK, NEW d \in Device, NEW k \in Kind, NEW nextPc \in {"none", "hourly"},
           FlushStage(d, k, nextPc), deviceQ' \in Queues
    PROVE  TypeOK'
<1>1. row' \in Rows
  <2>1. row' = row \/ row' = Persisted(d, k, acc[d][k])
    BY DEF FlushStage
  <2>2. QED
    BY <2>1, PersistedType, DataTypes
<1>2. acc' \in [Device -> [Kind -> Accs]]
  <2>1. acc' = acc \/ acc' = [acc EXCEPT ![d][k].dirty = FALSE]
    BY DEF FlushStage
  <2>2. acc \in [Device -> [Kind -> Accs]] /\ acc[d][k] \in Accs
    BY DataTypes
  <2>3. [acc[d][k] EXCEPT !.dirty = FALSE] \in Accs
    BY <2>2 DEF Accs
  <2>4. [acc EXCEPT ![d][k].dirty = FALSE] = [acc EXCEPT ![d][k] = [acc[d][k] EXCEPT !.dirty = FALSE]]
    BY <2>2
  <2>5. [acc EXCEPT ![d][k] = [acc[d][k] EXCEPT !.dirty = FALSE]] \in [Device -> [Kind -> Accs]]
    BY <2>2, <2>3
  <2>6. QED
    BY <2>1, <2>2, <2>4, <2>5
<1>3. flush' \in FlushStates
  <2>1. \/ flush' = [flush EXCEPT !.pc[d] = nextPc]
        \/ flush' = [flush EXCEPT !.pc[d] = nextPc, !.failed = TRUE]
    BY DEF FlushStage
  <2>2. flush \in FlushStates /\ nextPc \in {"none", "captured", "minute", "hourly"}
    BY TimerTypes
  <2>3. /\ [flush EXCEPT !.pc[d] = nextPc] \in FlushStates
        /\ [flush EXCEPT !.pc[d] = nextPc, !.failed = TRUE] \in FlushStates
    BY <2>2, FlushPcType
  <2>4. QED
    BY <2>1, <2>3
<1>4. faults' \in 0..MaxFaults
  <2>1. faults' = faults \/ Fault
    BY DEF FlushStage
  <2>2. QED
    BY <2>1, FaultType DEF TypeOK
<1>5. QED
  BY <1>1, <1>2, <1>3, <1>4 DEF FlushStage, TypeOK, FlushStates, Rows, Queues, history, CarriesSample

LEMMA FlushType ==
    ASSUME TypeOK, StartFlush \/ \E d \in Device : FlushStep(d)
    PROVE  TypeOK'
<1>1. CASE StartFlush
  BY <1>1, CaptureFlushType DEF StartFlush, TypeOK, FlushStates, stores, history, CarriesSample
<1>2. ASSUME NEW d \in Device, AdmitFlush(d) PROVE TypeOK'
  <2>1. flush' \in FlushStates
    BY <1>2, TimerTypes, FlushPcType DEF AdmitFlush
  <2>2. deviceQ' \in Queues
    BY <1>2, TimerTypes, ServiceTypes, AdmitType DEF AdmitFlush
  <2>3. QED
    BY <1>2, <2>1, <2>2 DEF AdmitFlush, TypeOK, FlushStates, Queues, stores, history, CarriesSample
<1>3. ASSUME NEW d \in Device, FlushMinute(d) PROVE TypeOK'
  <2>1. FlushStage(d, "minute", "hourly") /\ deviceQ' \in Queues
    BY <1>3, ServiceTypes DEF FlushMinute
  <2>2. QED
    BY <2>1, FlushStageType DEF Kind
<1>4. ASSUME NEW d \in Device, FlushHourly(d) PROVE TypeOK'
  <2>1. FlushStage(d, "hourly", "none") /\ AtHead(deviceQ, d, "flush")
    BY <1>4 DEF FlushHourly, FlushStage
  <2>2. deviceQ' \in Queues
    BY <1>4, <2>1, ServiceTypes, LeaveType DEF FlushHourly
  <2>3. QED
    BY <2>1, <2>2, FlushStageType DEF Kind
<1>5. QED
  BY <1>1, <1>2, <1>3, <1>4 DEF FlushStep

\* A step of the sweep for one device.
LEMMA SweepPcType ==
    ASSUME NEW s \in SweepStates, NEW d \in Device, NEW pc \in {"none", "mark", "queued", "notify"}
    PROVE  /\ [s EXCEPT !.pc[d] = pc] \in SweepStates
           /\ [s EXCEPT !.pc[d] = pc, !.failed = TRUE] \in SweepStates
BY DEF SweepStates

LEMMA MissedType ==
    ASSUME TypeOK, NEW d \in Device
    PROVE  missed \in [Device -> BOOLEAN] /\ [missed EXCEPT ![d] = TRUE] \in [Device -> BOOLEAN]
BY DEF TypeOK

LEMMA SweepType ==
    ASSUME TypeOK, StartSweep \/ ListExpired \/ \E d \in Device : SweepStep(d)
    PROVE  TypeOK'
<1> USE DEF history, stores
<1>1. CASE StartSweep
  <2>1. [NoSweep EXCEPT !.running = TRUE, !.at = now] \in SweepStates
    BY TimerTypes DEF SweepStates, TypeOK
  <2>2. QED
    BY <1>1, <2>1 DEF StartSweep, TypeOK, SweepStates, CarriesSample
<1>2. CASE ListExpired
  <2>1. sweep' \in SweepStates
    <3>1. sweep \in SweepStates /\ NoSweep \in SweepStates /\ live \in [Device -> LiveStates]
      BY TimerTypes, DataTypes
    <3>2. [NoSweep EXCEPT !.failed = sweep.failed] \in SweepStates
          /\ [NoSweep EXCEPT !.failed = TRUE] \in SweepStates
      BY <3>1 DEF SweepStates
    <3>3. ASSUME NEW page
          PROVE  [sweep EXCEPT !.pc = [d \in Device |-> IF d \in page THEN "mark" ELSE "none"],
                               !.seen = [d \in Device |-> IF d \in page THEN live[d] ELSE NoLive]]
                    \in SweepStates
      BY <3>1, NoneType DEF SweepStates
    <3>4. \/ \E page : sweep' = [sweep EXCEPT
                 !.pc = [d \in Device |-> IF d \in page THEN "mark" ELSE "none"],
                 !.seen = [d \in Device |-> IF d \in page THEN live[d] ELSE NoLive]]
          \/ sweep' = [NoSweep EXCEPT !.failed = sweep.failed]
          \/ sweep' = [NoSweep EXCEPT !.failed = TRUE]
      BY <1>2, Zenon DEF ListExpired
    <3>5. QED
      BY <3>2, <3>3, <3>4
  <2>2. faults' \in 0..MaxFaults
    <3>1. faults' = faults \/ Fault
      BY <1>2 DEF ListExpired
    <3>2. QED
      BY <3>1, FaultType DEF TypeOK
  <2>3. QED
    BY <1>2, <2>1, <2>2 DEF ListExpired, TypeOK, SweepStates, CarriesSample
<1>3. ASSUME NEW d \in Device, MarkOffline(d) PROVE TypeOK'
  <2>1. sweep' \in SweepStates
    <3>1. \/ sweep' = [sweep EXCEPT !.pc[d] = "none"]
          \/ sweep' = [sweep EXCEPT !.pc[d] = "queued"]
          \/ sweep' = [sweep EXCEPT !.pc[d] = "none", !.failed = TRUE]
      BY <1>3 DEF MarkOffline
    <3>2. /\ [sweep EXCEPT !.pc[d] = "none"] \in SweepStates
          /\ [sweep EXCEPT !.pc[d] = "queued"] \in SweepStates
          /\ [sweep EXCEPT !.pc[d] = "none", !.failed = TRUE] \in SweepStates
      BY TimerTypes, SweepPcType
    <3>3. QED
      BY <3>1, <3>2
  <2>2. ingestQ' \in Queues
    BY <1>3, TimerTypes, ServiceTypes, AdmitType DEF MarkOffline
  <2>3. live' \in [Device -> LiveStates]
    <3>1. live' = live \/ live' = MarkedOffline(d)
      BY <1>3 DEF MarkOffline
    <3>2. live \in [Device -> LiveStates] /\ sweep.seen[d] \in LiveStates
      BY TimerTypes, DataTypes
    <3>3. [sweep.seen[d] EXCEPT !.status = "offline"] \in LiveStates
      BY <3>2 DEF LiveStates
    <3>4. QED
      BY <3>1, <3>2, <3>3 DEF MarkedOffline
  <2>4. missed' \in [Device -> BOOLEAN]
    <3>1. missed' = missed \/ missed' = [missed EXCEPT ![d] = TRUE]
      BY <1>3 DEF MarkOffline
    <3>2. QED
      BY <3>1, MissedType
  <2>5. faults' \in 0..MaxFaults
    <3>1. faults' = faults \/ Fault
      BY <1>3 DEF MarkOffline
    <3>2. QED
      BY <3>1, FaultType DEF TypeOK
  <2>6. QED
    BY <1>3, <2>1, <2>2, <2>3, <2>4, <2>5
       DEF MarkOffline, TypeOK, SweepStates, Queues, CarriesSample
<1>4. ASSUME NEW d \in Device, EnterSweep(d) PROVE TypeOK'
  <2>1. sweep' \in SweepStates
    BY <1>4, TimerTypes, SweepPcType DEF EnterSweep
  <2>2. ingestQ' \in Queues
    BY <1>4, ServiceTypes, LeaveType DEF EnterSweep
  <2>3. deviceQ' \in Queues
    BY <1>4, TimerTypes, ServiceTypes, AdmitType DEF EnterSweep
  <2>4. missed' \in [Device -> BOOLEAN]
    <3>1. missed' = missed \/ missed' = [missed EXCEPT ![d] = TRUE]
      BY <1>4 DEF EnterSweep
    <3>2. QED
      BY <3>1, MissedType
  <2>5. QED
    BY <1>4, <2>1, <2>2, <2>3, <2>4 DEF EnterSweep, TypeOK, SweepStates, Queues, CarriesSample
<1>5. ASSUME NEW d \in Device, NotifyOffline(d) PROVE TypeOK'
  <2> DEFINE g == IF registry[d].status = "open" THEN registry[d].group ELSE view[d].group
  <2>1. sweep' \in SweepStates
    BY <1>5, TimerTypes, SweepPcType DEF NotifyOffline
  <2>2. view' \in [Device -> Views]
    <3>1. g \in Groups \cup {NoGroup}
      BY DataTypes DEF Records, Views
    <3>2. view' = view \/ view' = [view EXCEPT ![d] = StateView(live[d], g)]
      BY <1>5 DEF NotifyOffline, Announced, OpenGroup
    <3> HIDE DEF g
    <3>3. live[d] \in LiveStates /\ view \in [Device -> Views]
      BY DataTypes
    <3>4. StateView(live[d], g) \in Views
      BY <3>1, <3>3, StateViewType
    <3>5. QED
      BY <3>2, <3>3, <3>4
  <2>3. missed' \in [Device -> BOOLEAN] /\ faults' \in 0..MaxFaults
    <3>1. \/ UNCHANGED <<faults, missed>>
          \/ Fault /\ missed' = [missed EXCEPT ![d] = TRUE]
      BY <1>5 DEF NotifyOffline
    <3>2. QED
      BY <3>1, MissedType, FaultType DEF TypeOK
  <2>4. ingestQ' \in Queues /\ deviceQ' \in Queues
    BY <1>5, ServiceTypes, LeaveType DEF NotifyOffline
  <2>5. QED
    BY <1>5, <2>1, <2>2, <2>3, <2>4 DEF NotifyOffline, TypeOK, SweepStates, Queues, CarriesSample
<1>6. QED
  BY <1>1, <1>2, <1>3, <1>4, <1>5 DEF SweepStep

LEMMA ProcessType ==
    ASSUME TypeOK, Shutdown \/ Process \/ Restart \/ Tick
    PROVE  TypeOK'
<1> USE DEF history, stores, memory
<1>1. CASE Shutdown \/ HttpDrained \/ FlushDrained \/ SweepDrained \/ Stop
  BY <1>1 DEF Shutdown, HttpDrained, FlushDrained, SweepDrained, Stop, TypeOK, CarriesSample
<1>2. CASE LastFlush
  BY <1>2, CaptureFlushType DEF LastFlush, TypeOK, FlushStates, CarriesSample
<1>3. CASE Restart
  <2>1. restarts' \in 0..MaxRestarts
    <3>1. restarts \in 0..MaxRestarts
      BY DEF TypeOK
    <3>2. QED
      BY <1>3, <3>1, MetricsAssumption DEF Restart
  <2>2. cut' \in [Device -> [Kind -> SUBSET Bucket]]
    <3>1. /\ cut \in [Device -> [Kind -> SUBSET Bucket]]
          /\ \A d \in Device, k \in Kind : acc[d][k].bucket \in Bucket
      BY DEF TypeOK, Accs
    <3>2. QED
      BY <1>3, <3>1 DEF Restart
  <2>3. acc' \in [Device -> [Kind -> Accs]]
    BY <1>3, NoneType DEF Restart
  <2>4. view' \in [Device -> Views]
    <3>1. \A d \in Device : live[d] \in LiveStates /\ registry[d].group \in Groups \cup {NoGroup}
      BY DataTypes DEF Records
    <3>2. NoView \in Views
      BY MetricsAssumption DEF NoView, Views
    <3>3. \A d \in Device : Reloaded(d) \in Views
      BY <3>1, <3>2, StateViewType DEF Reloaded
    <3>4. QED
      BY <1>3, <3>3 DEF Restart
  <2>5. missed' \in [Device -> BOOLEAN]
    BY <1>3, Zenon DEF Restart, HalfRemoved
  <2>6. req' \in [Requests -> GoodHandlers]
    BY <1>3, IdleType DEF Restart, GoodHandlers
  <2>7. ingestQ' \in Queues /\ deviceQ' \in Queues
    BY <1>3 DEF Restart, Queues
  <2>8. flush' \in FlushStates /\ sweep' \in SweepStates
    BY <1>3, TimerTypes DEF Restart
  <2>9. QED
    BY <1>3, <2>1, <2>2, <2>3, <2>4, <2>5, <2>6, <2>7, <2>8, HandlersType
       DEF Restart, TypeOK, Queues, FlushStates, SweepStates
<1>4. CASE Tick
  <2>1. now' \in Clock
    <3>1. now \in 0..MaxClock
      BY DEF TypeOK, Clock
    <3>2. QED
      BY <1>4, <3>1, MetricsAssumption DEF Tick, Clock
  <2>2. QED
    BY <1>4, <2>1 DEF Tick, TypeOK, CarriesSample
<1>5. QED
  BY <1>1, <1>2, <1>3, <1>4 DEF Process

LEMMA TypeInit == Init => TypeOK
<1> SUFFICES ASSUME Init PROVE TypeOK
  OBVIOUS
<1>1. EmptySeries \in SeriesStates
  BY DEF EmptySeries, SeriesStates, Markers
<1>2. NoView \in Views
  BY MetricsAssumption DEF NoView, Views
<1>3. flush \in FlushStates /\ sweep \in SweepStates
  BY NoneType, ClockType DEF Init, NoFlush, NoSweep, FlushStates, SweepStates
<1>4. req \in [Requests -> Handlers] /\ \A r \in Requests : CarriesSample(req[r])
  BY IdleType DEF Init
<1>5. series \in [Device -> [Window -> SeriesStates]] /\ view \in [Device -> Views]
  BY <1>1, <1>2 DEF Init
<1>6. /\ registry \in [Device -> Records] /\ live \in [Device -> LiveStates]
      /\ acc \in [Device -> [Kind -> Accs]] /\ row \in [Device -> [Kind -> [Bucket -> Seq(Timestamp)]]]
  BY NoneType DEF Init
<1>7. /\ ingestQ \in [Device -> Seq(Operators)] /\ deviceQ \in [Device -> Seq(Operators)]
      /\ published \in [Device -> SUBSET Timestamp] /\ cut \in [Device -> [Kind -> SUBSET Bucket]]
      /\ missed \in [Device -> BOOLEAN]
  BY DEF Init
<1>8. now \in Clock /\ faults \in 0..MaxFaults /\ restarts \in 0..MaxRestarts /\ phase = "up"
  BY MetricsAssumption DEF Init, Clock
<1>9. QED
  BY <1>3, <1>4, <1>5, <1>6, <1>7, <1>8 DEF TypeOK, FlushStates, SweepStates

LEMMA TypeStep == TypeOK /\ [Next]_vars => TypeOK'
<1> SUFFICES ASSUME TypeOK, [Next]_vars PROVE TypeOK'
  OBVIOUS
<1>1. ASSUME NEW r \in Requests, Ingest(r) PROVE TypeOK'
  BY <1>1, RegisterType, ReadPreviousType, AppendRawType, AccumulateType, RollOverType, UpsertType,
     EmitAcceptedType DEF Ingest, AddMinuteAggregate, AddHourlyAggregate, Kind
<1>2. ASSUME NEW r \in Requests, Regroup(r) PROVE TypeOK'
  BY <1>2, UpdateGroupType, NotifyGroupType DEF Regroup
<1>3. ASSUME NEW r \in Requests, Handle(r) PROVE TypeOK'
  BY <1>1, <1>2, <1>3, LockType, RemoveType DEF Handle
<1>4. CASE UNCHANGED vars
  BY <1>4 DEF vars, stores, memory, history, TypeOK, CarriesSample
<1>5. QED
  BY <1>3, <1>4, SubmitType, FlushType, SweepType, ProcessType DEF Next

\* Every variable of the service keeps its type in every reachable state, for
\* any number of devices, handlers, samples, failures and restarts.
THEOREM TypeCorrect == Spec => []TypeOK
<1>1. QED
  BY TypeInit, TypeStep, PTL DEF Spec

-----------------------------------------------------------------------------
(* What a step can do to the accumulators, the history rows and the buckets  *)
(* whose accumulation was interrupted                                      *)

AccDropped(d) == acc' = [acc EXCEPT ![d] = NoAccs] /\ cut' = CutBuckets(d) /\ UNCHANGED row

\* At its cap the accumulator loses its oldest sample.
SampleAdded(d, k, ts) ==
    LET a == acc[d][k]  added == AddSample(a.samples, ts, MaxSamples(k)) IN
    /\ a.samples # <<>> /\ a.bucket = BucketOf(k, ts)
    /\ acc' = [acc EXCEPT ![d][k].samples = added, ![d][k].dirty = TRUE]
    /\ cut' = IF Len(a.samples) >= MaxSamples(k) /\ added # a.samples
                THEN [cut EXCEPT ![d][k] = @ \cup {a.bucket}] ELSE cut
    /\ UNCHANGED row

BucketOpened(d, k, b, ts) ==
    /\ acc[d][k].samples = <<>> \/ acc[d][k].bucket # b
    /\ b = BucketOf(k, ts)
    /\ acc' = [acc EXCEPT ![d][k] = Opened(b, ts)]
    /\ row' = IF NeedsPersist(acc[d][k]) THEN Persisted(d, k, acc[d][k]) ELSE row
    /\ cut' = Reopened(d, k, b)

WriteUnsure(d, k) == UNCHANGED <<acc, cut>> /\ row' \in {row, Persisted(d, k, acc[d][k])}

Written(d, k) ==
    /\ acc' = [acc EXCEPT ![d][k].dirty = FALSE]
    /\ row' = Persisted(d, k, acc[d][k])
    /\ UNCHANGED cut

AccsLost ==
    /\ acc' = [d \in Device |-> NoAccs]
    /\ cut' = [d \in Device |-> [k \in Kind |->
                 IF acc[d][k].samples = <<>> THEN cut[d][k] ELSE cut[d][k] \cup {acc[d][k].bucket}]]
    /\ UNCHANGED row

\* The accumulators and rows change in six ways only: one step per action.
LEMMA AggregateSteps ==
    ASSUME TypeOK, [Next]_vars
    PROVE  \/ UNCHANGED <<acc, row, cut>>
           \/ AccsLost
           \/ \E d \in Device : AccDropped(d)
           \/ \E d \in Device, k \in Kind :
                 \/ \E ts \in Timestamp : SampleAdded(d, k, ts)
                 \/ \E b \in Bucket, ts \in Timestamp : BucketOpened(d, k, b, ts)
                 \/ WriteUnsure(d, k)
                 \/ Written(d, k)
<1> DEFINE Goal == \/ UNCHANGED <<acc, row, cut>>
                   \/ AccsLost
                   \/ \E d \in Device : AccDropped(d)
                   \/ \E d \in Device, k \in Kind :
                         \/ \E ts \in Timestamp : SampleAdded(d, k, ts)
                         \/ \E b \in Bucket, ts \in Timestamp : BucketOpened(d, k, b, ts)
                         \/ WriteUnsure(d, k)
                         \/ Written(d, k)
<1> USE DEF stores, memory, history
<1>1. ASSUME NEW r \in Requests, Submit(r) PROVE UNCHANGED <<acc, row, cut>>
  BY <1>1 DEF Submit, SubmitIngest, SubmitRemove, SubmitGroup
<1>2. ASSUME NEW r \in Requests, EnterDeviceQueue(r) \/ AcquireNext(r) PROVE UNCHANGED <<acc, row, cut>>
  BY <1>2 DEF EnterDeviceQueue, AcquireNext
<1>3. ASSUME NEW r \in Requests, Register(r) \/ AppendRaw(r) \/ Upsert(r) \/ EmitAccepted(r)
      PROVE  UNCHANGED <<acc, row, cut>>
  BY <1>3 DEF Register, AppendRaw, Upsert, EmitAccepted
<1>4. ASSUME NEW r \in Requests, ReadPrevious(r) PROVE Goal
  <2>1. req[r].dev \in Device
    BY ServiceTypes
  <2>2. UNCHANGED <<acc, row, cut>> \/ AccDropped(req[r].dev)
    BY <1>4 DEF ReadPrevious, AccDropped
  <2>3. QED
    BY <2>1, <2>2
<1>5. ASSUME NEW r \in Requests, NEW k \in Kind, NEW pc, Accumulate(r, k, pc) PROVE Goal
  <2>1. req[r].dev \in Device /\ req[r].ts \in Timestamp
    BY <1>5, ServiceTypes, IngestSample DEF Accumulate, Kind, IngestSteps
  <2>2. SampleAdded(req[r].dev, k, req[r].ts)
    BY <1>5 DEF Accumulate, SampleAdded
  <2>3. QED
    BY <2>1, <2>2
<1>6. ASSUME NEW r \in Requests, NEW k \in Kind, NEW pc, RollOver(r, k, pc) PROVE Goal
  <2>1. req[r].dev \in Device /\ req[r].ts \in Timestamp /\ BucketOf(k, req[r].ts) \in Bucket
    BY <1>6, ServiceTypes, IngestSample DEF RollOver, FailsWith, Kind, IngestSteps
  <2>2. \/ BucketOpened(req[r].dev, k, BucketOf(k, req[r].ts), req[r].ts)
        \/ WriteUnsure(req[r].dev, k)
    BY <1>6 DEF RollOver, BucketOpened, WriteUnsure
  <2>3. QED
    BY <2>1, <2>2
<1>7. ASSUME NEW r \in Requests, Remove(r) PROVE Goal
  <2>1. req[r].dev \in Device
    BY ServiceTypes
  <2>2. UNCHANGED <<acc, row, cut>> \/ AccDropped(req[r].dev)
    BY <1>7 DEF Remove, DeleteDevice, ForgetAccumulators, RemoveState, ClearSeries, AccDropped
  <2>3. QED
    BY <2>1, <2>2
<1>8. ASSUME NEW r \in Requests, Regroup(r) PROVE UNCHANGED <<acc, row, cut>>
  BY <1>8 DEF Regroup, UpdateGroup, NotifyGroup
<1>9. ASSUME NEW d \in Device, NEW k \in Kind, NEW pc, FlushStage(d, k, pc) PROVE Goal
  <2>1. UNCHANGED <<acc, row, cut>> \/ WriteUnsure(d, k) \/ Written(d, k)
    BY <1>9 DEF FlushStage, WriteUnsure, Written
  <2>2. QED
    BY <2>1
<1>10. ASSUME NEW d \in Device, FlushStep(d) PROVE Goal
  <2>1. CASE AdmitFlush(d)
    BY <2>1 DEF AdmitFlush
  <2>2. CASE FlushMinute(d) \/ FlushHourly(d)
    BY <1>9, <2>2 DEF FlushMinute, FlushHourly, Kind
  <2>3. QED
    BY <1>10, <2>1, <2>2 DEF FlushStep
<1>11. CASE StartFlush \/ StartSweep \/ ListExpired \/ \E d \in Device : SweepStep(d)
  BY <1>11 DEF StartFlush, StartSweep, ListExpired, SweepStep, MarkOffline, EnterSweep, NotifyOffline
<1>12. CASE Shutdown \/ Process \/ Tick
  BY <1>12 DEF Shutdown, Process, HttpDrained, FlushDrained, SweepDrained, LastFlush, Stop, Tick
<1>13. CASE Restart
  BY <1>13 DEF Restart, AccsLost
<1>14. CASE UNCHANGED vars
  BY <1>14 DEF vars
<1>15. ASSUME NEW r \in Requests, Ingest(r) PROVE Goal
  <2>1. CASE AddMinuteAggregate(r) \/ AddHourlyAggregate(r)
    BY <1>5, <1>6, <2>1 DEF AddMinuteAggregate, AddHourlyAggregate, Kind
  <2>2. QED
    BY <1>3, <1>4, <1>15, <2>1 DEF Ingest
<1>16. ASSUME NEW r \in Requests, Handle(r) PROVE Goal
  BY <1>2, <1>7, <1>8, <1>15, <1>16 DEF Handle
<1>17. QED
  BY <1>1, <1>10, <1>11, <1>12, <1>13, <1>14, <1>16 DEF Next

\* An upsert of one accumulator changes its own row only, to the fuller of the
\* row and the accumulator.
LEMMA PersistedRows ==
    ASSUME TypeOK, NEW d \in Device, NEW k \in Kind
    PROVE  /\ \A e \in Device, j \in Kind, b \in Bucket :
                 /\ Persisted(d, k, acc[d][k])[e][j][b] \in {row[e][j][b], acc[d][k].samples}
                 /\ Len(Persisted(d, k, acc[d][k])[e][j][b]) >= Len(row[e][j][b])
           /\ Len(Persisted(d, k, acc[d][k])[d][k][acc[d][k].bucket]) >= Len(acc[d][k].samples)
<1> DEFINE a == acc[d][k]
<1>1. row \in Rows /\ a.bucket \in Bucket /\ a.samples \in Seq(Timestamp)
  BY DataTypes DEF Accs
<1>2. \A e \in Device, j \in Kind, b \in Bucket :
         Persisted(d, k, a)[e][j][b] =
            IF e = d /\ j = k /\ b = a.bucket THEN UpsertRow(row[e][j][b], a.samples) ELSE row[e][j][b]
  BY <1>1 DEF Persisted, Rows
<1>3. \A e \in Device, j \in Kind, b \in Bucket : row[e][j][b] \in Seq(Timestamp) /\ Len(row[e][j][b]) \in Nat
  BY <1>1 DEF Rows
<1>4. \A e \in Device, j \in Kind, b \in Bucket :
         /\ Len(UpsertRow(row[e][j][b], a.samples)) >= Len(row[e][j][b])
         /\ Len(UpsertRow(row[e][j][b], a.samples)) >= Len(a.samples)
         /\ UpsertRow(row[e][j][b], a.samples) \in {row[e][j][b], a.samples}
  BY <1>1, <1>3, UpsertRowType DEF UpsertRow
<1> HIDE DEF a
<1>5. \A e \in Device, j \in Kind, b \in Bucket :
         /\ Persisted(d, k, a)[e][j][b] \in {row[e][j][b], a.samples}
         /\ Len(Persisted(d, k, a)[e][j][b]) >= Len(row[e][j][b])
  BY <1>2, <1>3, <1>4
<1>6. Len(Persisted(d, k, a)[d][k][a.bucket]) >= Len(a.samples)
  BY <1>1, <1>2, <1>4
<1>7. QED
  BY <1>5, <1>6 DEF a

\* Rows are only written by upserts of accumulators.
LEMMA RowChanges ==
    ASSUME TypeOK, [Next]_vars
    PROVE  \/ UNCHANGED row
           \/ \E d \in Device, k \in Kind : row' = Persisted(d, k, acc[d][k])
<1>1. AccsLost \/ (\E d \in Device : AccDropped(d)) => UNCHANGED row
  BY DEF AccsLost, AccDropped
<1>2. ASSUME NEW d \in Device, NEW k \in Kind
      PROVE  /\ \A ts : SampleAdded(d, k, ts) => UNCHANGED row
             /\ \A b, ts : BucketOpened(d, k, b, ts) => row' \in {row, Persisted(d, k, acc[d][k])}
             /\ WriteUnsure(d, k) \/ Written(d, k) => row' \in {row, Persisted(d, k, acc[d][k])}
  <2>1. \A ts : SampleAdded(d, k, ts) => UNCHANGED row
    BY DEF SampleAdded
  <2>2. \A b, ts : BucketOpened(d, k, b, ts) => row' \in {row, Persisted(d, k, acc[d][k])}
    BY DEF BucketOpened
  <2>3. WriteUnsure(d, k) \/ Written(d, k) => row' \in {row, Persisted(d, k, acc[d][k])}
    BY DEF WriteUnsure, Written
  <2>4. QED
    BY <2>1, <2>2, <2>3
<1>3. QED
  BY <1>1, <1>2, AggregateSteps

\* No step makes a row average fewer samples.
LEMMA RowsStep ==
    ASSUME TypeOK, [Next]_vars
    PROVE  \A d \in Device, k \in Kind, b \in Bucket : Len(row'[d][k][b]) >= Len(row[d][k][b])
<1>1. \A d \in Device, k \in Kind, b \in Bucket : Len(row[d][k][b]) \in Nat
  BY DataTypes DEF Rows
<1>2. \/ UNCHANGED row
      \/ \E d \in Device, k \in Kind : row' = Persisted(d, k, acc[d][k])
  BY RowChanges
<1>3. CASE UNCHANGED row
  BY <1>1, <1>3
<1>4. ASSUME NEW d \in Device, NEW k \in Kind, row' = Persisted(d, k, acc[d][k])
      PROVE  \A e \in Device, j \in Kind, b \in Bucket : Len(row'[e][j][b]) >= Len(row[e][j][b])
  BY <1>4, PersistedRows
<1>5. QED
  BY <1>2, <1>3, <1>4

-----------------------------------------------------------------------------
(* An accumulator without the dirty mark is in its row *)

CleanWritten(d, k) ==
    acc[d][k].samples # <<>> /\ ~acc[d][k].dirty
        => Len(row[d][k][acc[d][k].bucket]) >= Len(acc[d][k].samples)

LEMMA CleanStep ==
    ASSUME TypeOK, CleanIsWritten, [Next]_vars
    PROVE  CleanIsWritten'
<1> SUFFICES ASSUME NEW e \in Device, NEW j \in Kind PROVE CleanWritten(e, j)'
  BY DEF CleanIsWritten, CleanWritten
<1>1. CleanWritten(e, j) /\ acc \in [Device -> [Kind -> Accs]] /\ acc[e][j] \in Accs
  BY DataTypes DEF CleanIsWritten, CleanWritten
<1>2. acc[e][j].bucket \in Bucket /\ acc[e][j].samples \in Seq(Timestamp) /\ Len(acc[e][j].samples) \in Nat
  BY <1>1 DEF Accs
<1>3. /\ Len(row'[e][j][acc[e][j].bucket]) >= Len(row[e][j][acc[e][j].bucket])
      /\ Len(row[e][j][acc[e][j].bucket]) \in Nat /\ Len(row'[e][j][acc[e][j].bucket]) \in Nat
  <2>1. row \in Rows /\ row' \in Rows
    BY TypeStep DEF TypeOK, Rows
  <2>2. QED
    BY <1>2, <2>1, RowsStep DEF Rows
<1>4. CASE acc'[e][j] = acc[e][j]
  <2>1. acc'[e][j].samples = acc[e][j].samples /\ acc'[e][j].dirty = acc[e][j].dirty
        /\ acc'[e][j].bucket = acc[e][j].bucket
    BY <1>4
  <2>2. ASSUME acc'[e][j].samples # <<>>, ~acc'[e][j].dirty
        PROVE  Len(row'[e][j][acc[e][j].bucket]) >= Len(acc[e][j].samples)
    <3>1. Len(row[e][j][acc[e][j].bucket]) >= Len(acc[e][j].samples)
      BY <1>1, <2>1, <2>2, Zenon DEF CleanWritten
    <3> DEFINE x == Len(row'[e][j][acc[e][j].bucket])
               y == Len(row[e][j][acc[e][j].bucket])
               z == Len(acc[e][j].samples)
    <3>2. x \in Nat /\ y \in Nat /\ z \in Nat /\ x >= y /\ y >= z
      BY <1>2, <1>3, <3>1, Zenon
    <3> HIDE DEF x, y, z
    <3>3. x >= z
      BY <3>2
    <3>4. QED
      BY <3>3 DEF x, z
  <2>3. QED
    BY <2>1, <2>2, Zenon DEF CleanWritten
<1>5. CASE acc'[e][j].samples = <<>> \/ acc'[e][j].dirty
  BY <1>5 DEF CleanWritten
<1>6. CASE AccsLost \/ \E d \in Device : AccDropped(d)
  <2>1. NoAccs[j].samples = <<>>
    BY DEF NoAccs, NoAcc
  <2>2. acc'[e] = NoAccs \/ acc'[e] = acc[e]
    BY <1>1, <1>6 DEF AccsLost, AccDropped
  <2>3. QED
    BY <1>4, <1>5, <2>1, <2>2
<1>7. ASSUME NEW d \in Device, NEW k \in Kind, NEW ts \in Timestamp, SampleAdded(d, k, ts)
      PROVE  CleanWritten(e, j)'
  <2>1. acc'[e][j] = acc[e][j] \/ acc'[e][j].dirty = TRUE
    BY <1>1, <1>7 DEF SampleAdded, Accs
  <2>2. QED
    BY <1>4, <1>5, <2>1
<1>8. ASSUME NEW d \in Device, NEW k \in Kind, NEW b \in Bucket, NEW ts \in Timestamp,
             BucketOpened(d, k, b, ts)
      PROVE  CleanWritten(e, j)'
  <2>1. acc'[e][j] = acc[e][j] \/ acc'[e][j].dirty = TRUE
    BY <1>1, <1>8 DEF BucketOpened, Opened
  <2>2. QED
    BY <1>4, <1>5, <2>1
<1>9. ASSUME NEW d \in Device, NEW k \in Kind, Written(d, k)
      PROVE  CleanWritten(e, j)'
  <2>1. CASE d = e /\ k = j
    <3>1. acc'[e][j].samples = acc[e][j].samples /\ acc'[e][j].bucket = acc[e][j].bucket
      BY <1>1, <1>9, <2>1 DEF Written, Accs
    <3>2. Len(row'[e][j][acc[e][j].bucket]) >= Len(acc[e][j].samples)
      BY <1>9, <2>1, PersistedRows DEF Written
    <3>3. QED
      BY <3>1, <3>2 DEF CleanWritten
  <2>2. CASE ~(d = e /\ k = j)
    <3>1. acc'[e][j] = acc[e][j]
      BY <1>1, <1>9, <2>2 DEF Written
    <3>2. QED
      BY <1>4, <3>1
  <2>3. QED
    BY <2>1, <2>2
<1>10. CASE UNCHANGED acc
  BY <1>4, <1>10
<1>11. QED
  BY <1>6, <1>7, <1>8, <1>9, <1>10, AggregateSteps DEF WriteUnsure

\* The dirty mark is cleared only when the row has caught up: an unmarked
\* accumulator, which no flush or rollover will write again, is in its row.
THEOREM CleanIsWrittenHolds == Spec => []CleanIsWritten
<1>1. Init => CleanIsWritten
  BY DEF Init, CleanIsWritten, NoAccs, NoAcc
<1>2. TypeOK /\ CleanIsWritten /\ [Next]_vars => CleanIsWritten'
  BY CleanStep
<1>3. QED
  BY <1>1, <1>2, TypeCorrect, PTL DEF Spec

-----------------------------------------------------------------------------
(* No sample is averaged twice *)

\* findIndex before push, and the shift at the cap, keep timestamps distinct.
LEMMA AddSampleOnce ==
    ASSUME NEW s \in Seq(Timestamp), NEW ts \in Timestamp, NEW cap \in Nat \ {0}, Once(s)
    PROVE  Once(AddSample(s, ts, cap))
<1>1. CASE \E i \in 1..Len(s) : s[i] = ts
  BY <1>1 DEF AddSample
<1>2. CASE ~\E i \in 1..Len(s) : s[i] = ts
  <2> DEFINE rest == IF Len(s) >= cap THEN Tail(s) ELSE s
  <2>1. rest \in Seq(Timestamp) /\ Once(rest) /\ \A i \in 1..Len(rest) : rest[i] # ts
    <3>1. CASE Len(s) >= cap
      <4>1. Tail(s) \in Seq(Timestamp) /\ Len(Tail(s)) = Len(s) - 1
            /\ \A i \in 1..Len(Tail(s)) : Tail(s)[i] = s[i + 1]
        BY <3>1
      <4>2. QED
        BY <1>2, <3>1, <4>1 DEF Once
    <3>2. CASE ~(Len(s) >= cap)
      BY <1>2, <3>2
    <3>3. QED
      BY <3>1, <3>2
  <2>2. AddSample(s, ts, cap) = Append(rest, ts)
    BY <1>2 DEF AddSample
  <2> HIDE DEF rest
  <2>3. Once(Append(rest, ts))
    BY <2>1 DEF Once
  <2>4. QED
    BY <2>2, <2>3
<1>3. QED
  BY <1>1, <1>2

LEMMA OnceStep ==
    ASSUME TypeOK, NoDoubleCount, [Next]_vars
    PROVE  NoDoubleCount'
<1>1. \A e \in Device, j \in Kind : Once(acc[e][j].samples) /\ \A b \in Bucket : Once(row[e][j][b])
  BY DEF NoDoubleCount
<1>2. acc \in [Device -> [Kind -> Accs]]
  BY DataTypes
<1>3. ASSUME NEW e \in Device, NEW j \in Kind PROVE Once(acc'[e][j].samples)
  <2>1. acc[e][j] \in Accs /\ acc[e][j].samples \in Seq(Timestamp) /\ Once(acc[e][j].samples)
    BY <1>1, <1>2 DEF Accs
  <2>2. MaxSamples(j) \in Nat \ {0}
    BY MetricsAssumption DEF MaxSamples
  <2>3. Once(NoAccs[j].samples)
    BY DEF NoAccs, NoAcc, Once
  <2>4. CASE AccsLost \/ \E d \in Device : AccDropped(d)
    <3>1. acc'[e] = NoAccs \/ acc'[e] = acc[e]
      BY <1>2, <2>4 DEF AccsLost, AccDropped
    <3>2. QED
      BY <2>1, <2>3, <3>1
  <2>5. ASSUME NEW d \in Device, NEW k \in Kind, NEW ts \in Timestamp, SampleAdded(d, k, ts)
        PROVE  Once(acc'[e][j].samples)
    <3>1. \/ acc'[e][j].samples = acc[e][j].samples
          \/ acc'[e][j].samples = AddSample(acc[e][j].samples, ts, MaxSamples(j))
      BY <1>2, <2>1, <2>5 DEF SampleAdded, Accs
    <3>2. Once(AddSample(acc[e][j].samples, ts, MaxSamples(j)))
      BY <2>1, <2>2, AddSampleOnce
    <3>3. QED
      BY <2>1, <3>1, <3>2
  <2>6. ASSUME NEW d \in Device, NEW k \in Kind, NEW b \in Bucket, NEW ts \in Timestamp,
               BucketOpened(d, k, b, ts)
        PROVE  Once(acc'[e][j].samples)
    <3>1. acc'[e][j].samples = acc[e][j].samples \/ acc'[e][j].samples = <<ts>>
      BY <1>2, <2>6 DEF BucketOpened, Opened
    <3>2. Once(<<ts>>)
      BY DEF Once
    <3>3. QED
      BY <2>1, <3>1, <3>2
  <2>7. ASSUME NEW d \in Device, NEW k \in Kind, Written(d, k)
        PROVE  Once(acc'[e][j].samples)
    <3>1. acc'[e][j].samples = acc[e][j].samples
      BY <1>2, <2>1, <2>7 DEF Written, Accs
    <3>2. QED
      BY <2>1, <3>1
  <2>8. CASE UNCHANGED acc
    BY <2>1, <2>8
  <2>9. QED
    BY <2>4, <2>5, <2>6, <2>7, <2>8, AggregateSteps DEF WriteUnsure
<1>4. ASSUME NEW e \in Device, NEW j \in Kind, NEW b \in Bucket PROVE Once(row'[e][j][b])
  <2>1. \/ UNCHANGED row
        \/ \E d \in Device, k \in Kind : row' = Persisted(d, k, acc[d][k])
    BY RowChanges
  <2>2. ASSUME NEW d \in Device, NEW k \in Kind, row' = Persisted(d, k, acc[d][k])
        PROVE  Once(row'[e][j][b])
    <3>1. row'[e][j][b] \in {row[e][j][b], acc[d][k].samples}
      BY <2>2, PersistedRows
    <3>2. QED
      BY <1>1, <3>1
  <2>3. QED
    BY <1>1, <2>1, <2>2
<1>5. QED
  BY <1>3, <1>4 DEF NoDoubleCount, Once

\* However often an upload is repeated, no sample enters an accumulator or a
\* history row twice.
THEOREM NoDoubleCountHolds == Spec => []NoDoubleCount
<1>1. Init => NoDoubleCount
  BY DEF Init, NoDoubleCount, NoAccs, NoAcc, Once
<1>2. TypeOK /\ NoDoubleCount /\ [Next]_vars => NoDoubleCount'
  BY OnceStep
<1>3. QED
  BY <1>1, <1>2, TypeCorrect, PTL DEF Spec


-----------------------------------------------------------------------------
(* The certified order of the raw series *)

LEMMA NatMin ==
    ASSUME NEW T \in SUBSET Nat, T # {}
    PROVE  \E m \in T : \A n \in T : m <= n
<1> DEFINE R == OpToRel(<, Nat)
<1>1. IsWellFoundedOn(R, Nat)
  BY NatLessThanWellFounded
<1>2. \A x, y \in Nat : <<y, x>> \in R <=> y < x
  BY DEF OpToRel
<1> HIDE DEF R
<1>3. PICK m \in T : \A y \in T : ~(<<y, m>> \in R)
  BY <1>1, WFMin, Zenon
<1>4. ASSUME NEW y \in T PROVE m <= y
  <2>1. m \in Nat /\ y \in Nat /\ ~(y < m)
    BY <1>2, <1>3, Zenon
  <2>2. QED
    BY <2>1
<1>5. QED
  BY <1>4, Zenon


\* The points that stay after the trim are in the order they had.
LEMMA TrimAscending ==
    ASSUME NEW l \in Seq(Points), StrictlyAscending(l), NEW maxP \in Nat \ {0}
    PROVE  StrictlyAscending(Trim(l, maxP))
<1>1. Len(l) \in Nat
  OBVIOUS
<1>2. CASE Len(l) <= maxP
  BY <1>2 DEF Trim
<1>3. CASE ~(Len(l) <= maxP)
  <2> DEFINE n == Len(l) - maxP
             s == SubSeq(l, n + 1, Len(l))
  <2>1. n \in Nat /\ n + maxP = Len(l) /\ Trim(l, maxP) = s
    BY <1>1, <1>3 DEF Trim
  <2>2. Len(s) = maxP /\ \A i \in 1..maxP : s[i] = l[n + i]
    BY <1>1, <2>1
  <2> HIDE DEF n, s
  <2>3. ASSUME NEW i \in 1..Len(s) PROVE s[i].t # 0
    <3>1. n + i \in 1..Len(l)
      BY <1>1, <2>1, <2>2
    <3>2. QED
      BY <2>2, <3>1 DEF StrictlyAscending
  <2>4. ASSUME NEW i \in 1..(Len(s) - 1) PROVE s[i].t < s[i + 1].t
    <3>1. n + i \in 1..(Len(l) - 1) /\ n + (i + 1) = (n + i) + 1 /\ i \in 1..maxP /\ i + 1 \in 1..maxP
      BY <1>1, <2>1, <2>2
    <3>2. l[n + i].t < l[(n + i) + 1].t
      BY <3>1 DEF StrictlyAscending
    <3>3. s[i] = l[n + i] /\ s[i + 1] = l[n + (i + 1)]
      BY <2>2, <3>1
    <3>4. QED
      BY <3>1, <3>2, <3>3
  <2>5. QED
    BY <2>1, <2>3, <2>4 DEF StrictlyAscending
<1>4. QED
  BY <1>2, <1>3

LEMMA AppendAscending ==
    ASSUME NEW l \in Seq(Points), StrictlyAscending(l), NEW p \in Points,
           l = <<>> \/ p.t > l[Len(l)].t
    PROVE  StrictlyAscending(Append(l, p))
<1>1. p.t # 0
  BY MetricsAssumption DEF Points, Timestamp
<1>2. /\ Len(Append(l, p)) = Len(l) + 1 /\ Len(l) \in Nat
      /\ \A i \in 1..Len(l) : Append(l, p)[i] = l[i]
      /\ Append(l, p)[Len(l) + 1] = p
  OBVIOUS
<1>3. ASSUME NEW i \in 1..Len(Append(l, p)) PROVE Append(l, p)[i].t # 0
  <2>1. i \in 1..Len(l) \/ i = Len(l) + 1
    BY <1>2
  <2>2. QED
    BY <1>1, <1>2, <2>1 DEF StrictlyAscending
<1>4. ASSUME NEW i \in 1..(Len(Append(l, p)) - 1) PROVE Append(l, p)[i].t < Append(l, p)[i + 1].t
  <2>1. i \in 1..Len(l) /\ l # <<>>
    BY <1>2
  <2>2. CASE i = Len(l)
    <3>1. l[Len(l)].t < p.t
      <4>1. l[Len(l)] \in Points
        BY <1>2, <2>1
      <4>2. QED
        BY <2>1, <4>1, MetricsAssumption DEF Points, Timestamp
    <3>2. QED
      BY <1>2, <2>1, <2>2, <3>1
  <2>3. CASE i # Len(l)
    <3>1. i \in 1..(Len(l) - 1) /\ i + 1 \in 1..Len(l)
      BY <1>2, <2>1, <2>3
    <3>2. l[i].t < l[i + 1].t
      BY <3>1 DEF StrictlyAscending
    <3>3. QED
      BY <1>2, <2>1, <3>1, <3>2
  <2>4. QED
    BY <2>2, <2>3
<1>5. QED
  BY <1>3, <1>4 DEF StrictlyAscending

LEMMA ReplaceAscending ==
    ASSUME NEW l \in Seq(Points), StrictlyAscending(l), NEW p \in Points, NEW i \in 1..Len(l), l[i].t = p.t
    PROVE  StrictlyAscending([l EXCEPT ![i] = p])
<1> DEFINE s == [l EXCEPT ![i] = p]
<1>1. Len(l) \in Nat /\ s \in Seq(Points) /\ Len(s) = Len(l)
  BY ReplaceType
<1>2. \A j \in 1..Len(l) : s[j].t = l[j].t
  OBVIOUS
<1> HIDE DEF s
<1>3. ASSUME NEW j \in 1..(Len(s) - 1) PROVE s[j].t < s[j + 1].t
  <2>1. j \in 1..(Len(l) - 1) /\ j \in 1..Len(l) /\ j + 1 \in 1..Len(l)
    BY <1>1
  <2>2. QED
    BY <1>2, <2>1 DEF StrictlyAscending
<1>4. StrictlyAscending(s)
  BY <1>1, <1>2, <1>3 DEF StrictlyAscending
<1>5. QED
  BY <1>4 DEF s

\* The first match is a match: the search of the script finds the position it
\* replaces.
LEMMA FirstMatchFound ==
    ASSUME NEW l \in Seq(Points), NEW p, Matches(l, p) # {}
    PROVE  FirstMatch(l, p) \in 1..Len(l) /\ l[FirstMatch(l, p)].t = p.t
<1>1. Matches(l, p) \in SUBSET Nat
  BY DEF Matches
<1>2. \E i \in Matches(l, p) : \A j \in Matches(l, p) : i <= j
  BY <1>1, NatMin
<1>3. FirstMatch(l, p) \in Matches(l, p)
  BY <1>2 DEF FirstMatch
<1>4. QED
  BY <1>3 DEF Matches

Certified(s) == s.order = "1" => StrictlyAscending(s.list)

\* The script leaves the marker "1" on an ascending list only.
LEMMA AppendCertified ==
    ASSUME NEW s \in SeriesStates, NEW p \in Points, NEW maxP \in Nat \ {0}, Certified(s)
    PROVE  Certified(AppendSeries(s, p, maxP))
<1>1. s.list \in Seq(Points) /\ Len(s.list) \in Nat
  BY DEF SeriesStates
<1>2. CASE s.list = <<>>
  <2>1. StrictlyAscending(<<>>) /\ <<>> \in Seq(Points) /\ Append(<<>>, p) = <<p>> /\ <<p>> \in Seq(Points)
    BY DEF StrictlyAscending
  <2>2. StrictlyAscending(<<p>>)
    BY <2>1, AppendAscending
  <2>3. QED
    BY <1>2, <2>1, <2>2, TrimAscending DEF AppendSeries, Certified
<1>3. CASE s.list # <<>> /\ FastPathApplies(s, p)
  <2> DEFINE last == s.list[Len(s.list)]
             l == IF p.t > last.t THEN Append(s.list, p) ELSE [s.list EXCEPT ![Len(s.list)] = p]
  <2>1. StrictlyAscending(s.list) /\ p.t >= last.t /\ Len(s.list) \in 1..Len(s.list)
    BY <1>1, <1>3 DEF FastPathApplies, Certified
  <2>2. last \in Points /\ p.t \in Int /\ last.t \in Int
    <3>1. last \in Points
      BY <1>1, <2>1
    <3>2. QED
      BY <3>1, MetricsAssumption DEF Points, Timestamp
  <2>3. StrictlyAscending(l) /\ l \in Seq(Points)
    <3>1. CASE p.t > last.t
      <4>1. StrictlyAscending(Append(s.list, p))
        BY <1>1, <2>1, <3>1, AppendAscending
      <4>2. QED
        BY <1>1, <3>1, <4>1
    <3>2. CASE ~(p.t > last.t)
      <4>1. last.t = p.t
        BY <2>1, <2>2, <3>2
      <4>2. StrictlyAscending([s.list EXCEPT ![Len(s.list)] = p])
        BY <1>1, <2>1, <4>1, ReplaceAscending
      <4>3. [s.list EXCEPT ![Len(s.list)] = p] \in Seq(Points)
        BY <1>1, ReplaceType
      <4>4. QED
        BY <3>2, <4>2, <4>3
    <3>3. QED
      BY <3>1, <3>2
  <2>4. AppendSeries(s, p, maxP) = [list |-> Trim(l, maxP), order |-> "1"]
    BY <1>3 DEF AppendSeries
  <2> HIDE DEF l
  <2>5. QED
    BY <2>3, <2>4, TrimAscending DEF Certified
<1>4. CASE s.list # <<>> /\ ~FastPathApplies(s, p)
  <2> DEFINE l == ReplaceOrAppend(s.list, p)
  <2>1. AppendSeries(s, p, maxP) =
          [list |-> Trim(l, maxP), order |-> IF SlowPathOrdered(s, p) THEN "1" ELSE "0"]
    BY <1>4 DEF AppendSeries
  <2>2. ASSUME SlowPathOrdered(s, p) PROVE StrictlyAscending(l) /\ l \in Seq(Points)
    <3>1. StrictlyAscending(s.list) /\ (Matches(s.list, p) # {} \/ p.t > s.list[Len(s.list)].t)
      BY <2>2 DEF SlowPathOrdered
    <3>2. CASE Matches(s.list, p) # {}
      BY <1>1, <3>1, <3>2, FirstMatchFound, ReplaceAscending, ReplaceType DEF ReplaceOrAppend
    <3>3. CASE Matches(s.list, p) = {}
      <4>1. StrictlyAscending(Append(s.list, p))
        BY <1>1, <3>1, <3>3, AppendAscending
      <4>2. QED
        BY <1>1, <3>3, <4>1 DEF ReplaceOrAppend
    <3>4. QED
      BY <3>2, <3>3
  <2> HIDE DEF l
  <2>3. CASE SlowPathOrdered(s, p)
    BY <2>1, <2>2, <2>3, TrimAscending DEF Certified
  <2>4. CASE ~SlowPathOrdered(s, p)
    BY <2>1, <2>4 DEF Certified
  <2>5. QED
    BY <2>3, <2>4
<1>5. QED
  BY <1>2, <1>3, <1>4

\* Only the append script and the clearing of a removed device write a series.
LEMMA SeriesSteps ==
    ASSUME TypeOK, [Next]_vars
    PROVE  \/ UNCHANGED series
           \/ \E d \in Device : series' = [series EXCEPT ![d] = [w \in Window |-> EmptySeries]]
           \/ \E d \in Device, ts \in Timestamp, W \in SUBSET Window : series' = Appended(d, ts, W)
<1> USE DEF stores
<1>1. ASSUME NEW r \in Requests, Submit(r) PROVE UNCHANGED series
  BY <1>1 DEF Submit, SubmitIngest, SubmitRemove, SubmitGroup
<1>2. ASSUME NEW r \in Requests, EnterDeviceQueue(r) \/ AcquireNext(r) \/ Regroup(r) PROVE UNCHANGED series
  BY <1>2 DEF EnterDeviceQueue, AcquireNext, Regroup, UpdateGroup, NotifyGroup
<1>3. ASSUME NEW r \in Requests,
             \/ Register(r) \/ ReadPrevious(r) \/ AddMinuteAggregate(r) \/ AddHourlyAggregate(r)
             \/ Upsert(r) \/ EmitAccepted(r)
      PROVE  UNCHANGED series
  BY <1>3 DEF Register, ReadPrevious, AddMinuteAggregate, AddHourlyAggregate, Accumulate, RollOver,
              Upsert, EmitAccepted
<1>4. ASSUME NEW r \in Requests, AppendRaw(r)
      PROVE  \E d \in Device, ts \in Timestamp, W \in SUBSET Window : series' = Appended(d, ts, W)
  <2>1. req[r].dev \in Device /\ req[r].ts \in Timestamp
    BY <1>4, ServiceTypes, IngestSample DEF AppendRaw, FailsWith, Runs, IngestSteps
  <2>2. \E W \in SUBSET Window : series' = Appended(req[r].dev, req[r].ts, W)
    BY Zenon, <1>4 DEF AppendRaw
  <2>3. QED
    BY <2>1, <2>2
<1>5. ASSUME NEW r \in Requests, Remove(r)
      PROVE  \/ UNCHANGED series
             \/ \E d \in Device : series' = [series EXCEPT ![d] = [w \in Window |-> EmptySeries]]
  <2>1. req[r].dev \in Device
    BY ServiceTypes
  <2>2. QED
    BY <1>5, <2>1 DEF Remove, DeleteDevice, ForgetAccumulators, RemoveState, ClearSeries
<1>6. CASE StartFlush \/ \E d \in Device : FlushStep(d)
  BY <1>6 DEF StartFlush, FlushStep, AdmitFlush, FlushMinute, FlushHourly, FlushStage
<1>7. CASE StartSweep \/ ListExpired \/ \E d \in Device : SweepStep(d)
  BY <1>7 DEF StartSweep, ListExpired, SweepStep, MarkOffline, EnterSweep, NotifyOffline
<1>8. CASE Shutdown \/ Process \/ Restart \/ Tick \/ UNCHANGED vars
  BY <1>8 DEF Shutdown, Process, HttpDrained, FlushDrained, SweepDrained, LastFlush, Stop, Restart, Tick, vars
<1>9. ASSUME NEW r \in Requests, Handle(r)
      PROVE  \/ UNCHANGED series
             \/ \E d \in Device : series' = [series EXCEPT ![d] = [w \in Window |-> EmptySeries]]
             \/ \E d \in Device, ts \in Timestamp, W \in SUBSET Window : series' = Appended(d, ts, W)
  BY <1>2, <1>3, <1>4, <1>5, <1>9 DEF Handle, Ingest
<1>10. QED
  BY <1>1, <1>6, <1>7, <1>8, <1>9 DEF Next

\* The script may trust the marker it finds: whatever points come, in order,
\* repeated or late, and whatever the trim cuts off, a list marked "1" is
\* strictly ascending.
THEOREM OrderMarkerSoundHolds == Spec => []OrderMarkerSound
<1>1. Init => OrderMarkerSound
  BY DEF Init, OrderMarkerSound, EmptySeries
<1>2. TypeOK /\ OrderMarkerSound /\ [Next]_vars => OrderMarkerSound'
  <2> SUFFICES ASSUME TypeOK, OrderMarkerSound, [Next]_vars, NEW e \in Device, NEW w \in Window
               PROVE  Certified(series'[e][w])
    BY DEF OrderMarkerSound, Certified
  <2>1. /\ series \in [Device -> [Window -> SeriesStates]] /\ series[e][w] \in SeriesStates
        /\ Certified(series[e][w])
    BY DEF TypeOK, OrderMarkerSound, Certified
  <2>2. CASE UNCHANGED series
    BY <2>1, <2>2
  <2>3. ASSUME NEW d \in Device, series' = [series EXCEPT ![d] = [v \in Window |-> EmptySeries]]
        PROVE  Certified(series'[e][w])
    <3>1. series'[e][w] = series[e][w] \/ series'[e][w] = EmptySeries
      BY <2>1, <2>3
    <3>2. QED
      BY <2>1, <3>1 DEF Certified, EmptySeries
  <2>4. ASSUME NEW d \in Device, NEW ts \in Timestamp, NEW W \in SUBSET Window, series' = Appended(d, ts, W)
        PROVE  Certified(series'[e][w])
    <3>1. series'[e][w] = series[e][w] \/ series'[e][w] = AppendSeries(series[e][w], Point(ts), MaxPoints(w))
      BY <2>1, <2>4 DEF Appended
    <3>2. Point(ts) \in Points /\ MaxPoints(w) \in Nat \ {0}
      BY MetricsAssumption DEF Point, Points, MaxPoints
    <3>3. QED
      BY <2>1, <3>1, <3>2, AppendCertified
  <2>5. QED
    BY <2>2, <2>3, <2>4, SeriesSteps
<1>3. QED
  BY <1>1, <1>2, TypeCorrect, PTL DEF Spec

-----------------------------------------------------------------------------
(* What was published is aggregated *)

Safe(d, k, ts) == BucketOf(k, ts) \in cut[d][k] \/ Accumulated(d, k, ts) \/ Recorded(d, k, ts)

IsPrefixOf(s, t) == Len(s) <= Len(t) /\ \A i \in 1..Len(s) : s[i] = t[i]

\* In a bucket that was accumulated without interruption the row is an earlier
\* state of the accumulator: writing the fuller of the two loses no sample.
RowBehind(d, k) ==
    acc[d][k].samples # <<>> /\ acc[d][k].bucket \notin cut[d][k] =>
        IsPrefixOf(row[d][k][acc[d][k].bucket], acc[d][k].samples)

\* The sample of an upload that went through an aggregate is safe there.
StagedSafe(r) ==
    /\ req[r].pc \in {"hourly", "upsert"} => Safe(req[r].dev, "minute", req[r].ts)
    /\ req[r].pc = "upsert" => Safe(req[r].dev, "hourly", req[r].ts)

HistoryInv ==
    /\ TypeOK /\ CleanIsWritten /\ NothingDropped
    /\ \A d \in Device, k \in Kind : RowBehind(d, k)
    /\ \A r \in Requests : StagedSafe(r)

\* Another sample extends the accumulator unless its bucket is cut.
LEMMA AddSampleExtends ==
    ASSUME NEW s \in Seq(Timestamp), NEW ts \in Timestamp, NEW cap \in Nat \ {0},
           ~(Len(s) >= cap /\ AddSample(s, ts, cap) # s)
    PROVE  IsPrefixOf(s, AddSample(s, ts, cap))
<1>1. CASE AddSample(s, ts, cap) = s
  BY <1>1 DEF IsPrefixOf
<1>2. CASE AddSample(s, ts, cap) # s
  <2>1. AddSample(s, ts, cap) = Append(s, ts)
    BY <1>2 DEF AddSample
  <2>2. QED
    BY <2>1 DEF IsPrefixOf
<1>3. QED
  BY <1>1, <1>2

LEMMA AddSampleHolds ==
    ASSUME NEW s \in Seq(Timestamp), NEW ts \in Timestamp, NEW cap \in Nat \ {0}
    PROVE  InSeq(ts, AddSample(s, ts, cap)) /\ AddSample(s, ts, cap) # <<>>
<1>1. CASE \E i \in 1..Len(s) : s[i] = ts
  BY <1>1 DEF AddSample, InSeq
<1>2. CASE ~\E i \in 1..Len(s) : s[i] = ts
  <2>1. PICK t \in Seq(Timestamp) : AddSample(s, ts, cap) = Append(t, ts)
    <3>1. AddSample(s, ts, cap) = Append(IF Len(s) >= cap THEN Tail(s) ELSE s, ts)
      BY <1>2 DEF AddSample
    <3>2. Len(s) >= cap => Tail(s) \in Seq(Timestamp)
      OBVIOUS
    <3>3. QED
      BY <3>1, <3>2
  <2>2. Len(Append(t, ts)) = Len(t) + 1 /\ Append(t, ts)[Len(t) + 1] = ts /\ Len(t) \in Nat
    OBVIOUS
  <2>3. QED
    BY <2>1, <2>2 DEF InSeq
<1>3. QED
  BY <1>1, <1>2

LEMMA PrefixFacts ==
    ASSUME NEW s \in Seq(Timestamp), NEW t \in Seq(Timestamp), IsPrefixOf(s, t)
    PROVE  /\ \A x : InSeq(x, s) => InSeq(x, t)
           /\ Len(s) >= Len(t) => s = t
           /\ \A u \in Seq(Timestamp) : IsPrefixOf(t, u) => IsPrefixOf(s, u)
           /\ UpsertRow(s, t) = t
<1>1. Len(s) \in Nat /\ Len(t) \in Nat /\ Len(s) <= Len(t) /\ \A i \in 1..Len(s) : s[i] = t[i] /\ i \in 1..Len(t)
  BY DEF IsPrefixOf
<1>2. \A x : InSeq(x, s) => InSeq(x, t)
  BY <1>1 DEF InSeq
<1>3. Len(s) >= Len(t) => s = t
  BY <1>1
<1>4. \A u \in Seq(Timestamp) : IsPrefixOf(t, u) => IsPrefixOf(s, u)
  BY <1>1 DEF IsPrefixOf
<1>5. UpsertRow(s, t) = t
  BY <1>1, <1>3 DEF UpsertRow
<1>6. QED
  BY <1>2, <1>3, <1>4, <1>5

\* What a step can do to one aggregate of one device.
RowKept(e, j) == row'[e][j] = row[e][j]

RowPersisted(e, j) ==
    row'[e][j] = [row[e][j] EXCEPT ![acc[e][j].bucket] = UpsertRow(@, acc[e][j].samples)]

Kept(e, j) == acc'[e][j] = acc[e][j] /\ RowKept(e, j)

Emptied(e, j) ==
    /\ acc'[e][j].samples = <<>> /\ RowKept(e, j)
    /\ acc[e][j].samples # <<>> => acc[e][j].bucket \in cut'[e][j]

Extended(e, j) ==
    /\ acc[e][j].samples # <<>> /\ acc'[e][j].bucket = acc[e][j].bucket /\ RowKept(e, j)
    /\ acc'[e][j].samples \in Seq(Timestamp)
    /\ acc[e][j].bucket \in cut'[e][j] \/ IsPrefixOf(acc[e][j].samples, acc'[e][j].samples)

Replaced(e, j) ==
    LET b == acc'[e][j].bucket IN
    /\ acc[e][j].samples = <<>> \/ acc[e][j].bucket # b
    /\ IF NeedsPersist(acc[e][j]) THEN RowPersisted(e, j) ELSE RowKept(e, j)
    /\ b \in cut'[e][j] \/ row[e][j][b] = <<>>

Saved(e, j) ==
    /\ acc'[e][j].samples = acc[e][j].samples /\ acc'[e][j].bucket = acc[e][j].bucket
    /\ RowKept(e, j) \/ RowPersisted(e, j)

LEMMA LocalSteps ==
    ASSUME TypeOK, [Next]_vars, NEW e \in Device, NEW j \in Kind
    PROVE  /\ cut[e][j] \subseteq cut'[e][j]
           /\ Kept(e, j) \/ Emptied(e, j) \/ Extended(e, j) \/ Replaced(e, j) \/ Saved(e, j)
<1> DEFINE Goal == /\ cut[e][j] \subseteq cut'[e][j]
                   /\ Kept(e, j) \/ Emptied(e, j) \/ Extended(e, j) \/ Replaced(e, j) \/ Saved(e, j)
<1>1. /\ acc \in [Device -> [Kind -> Accs]] /\ row \in Rows /\ cut \in [Device -> [Kind -> SUBSET Bucket]]
      /\ acc[e][j] \in Accs /\ acc[e][j].samples \in Seq(Timestamp) /\ acc[e][j].bucket \in Bucket
  BY DataTypes DEF TypeOK, Accs
<1>2. NoAccs[j].samples = <<>>
  BY DEF NoAccs, NoAcc
<1>3. CASE UNCHANGED <<acc, row, cut>>
  BY <1>3 DEF Kept, RowKept
<1>4. CASE AccsLost
  <2>1. acc'[e][j].samples = <<>> /\ RowKept(e, j)
    BY <1>2, <1>4 DEF AccsLost, RowKept
  <2>2. cut'[e][j] = IF acc[e][j].samples = <<>> THEN cut[e][j] ELSE cut[e][j] \cup {acc[e][j].bucket}
    BY <1>4 DEF AccsLost
  <2>3. QED
    BY <2>1, <2>2 DEF Emptied
<1>5. ASSUME NEW d \in Device, AccDropped(d) PROVE Goal
  <2>1. CASE d = e
    <3>1. acc'[e][j].samples = <<>> /\ RowKept(e, j)
      BY <1>1, <1>2, <1>5, <2>1 DEF AccDropped, RowKept
    <3>2. cut'[e][j] = IF acc[e][j].samples = <<>> THEN cut[e][j] ELSE cut[e][j] \cup {acc[e][j].bucket}
      BY <1>1, <1>5, <2>1 DEF AccDropped, CutBuckets
    <3>3. QED
      BY <3>1, <3>2 DEF Emptied
  <2>2. CASE d # e
    BY <1>1, <1>5, <2>2 DEF AccDropped, CutBuckets, Kept, RowKept
  <2>3. QED
    BY <2>1, <2>2
<1>6. ASSUME NEW d \in Device, NEW k \in Kind, NEW ts \in Timestamp, SampleAdded(d, k, ts) PROVE Goal
  <2> DEFINE a == acc[d][k]
             added == AddSample(a.samples, ts, MaxSamples(k))
             shifted == Len(a.samples) >= MaxSamples(k) /\ added # a.samples
  <2>1. /\ acc' = [acc EXCEPT ![d][k].samples = added, ![d][k].dirty = TRUE]
        /\ cut' = IF shifted THEN [cut EXCEPT ![d][k] = @ \cup {a.bucket}] ELSE cut
        /\ UNCHANGED row /\ a.samples # <<>>
    BY <1>6 DEF SampleAdded
  <2>2. a.samples \in Seq(Timestamp) /\ MaxSamples(k) \in Nat \ {0}
    BY <1>1, MetricsAssumption DEF MaxSamples, Accs
  <2>3. added \in Seq(Timestamp) /\ (~shifted => IsPrefixOf(a.samples, added))
    BY <2>2, AddSampleType, AddSampleExtends
  <2> HIDE DEF added, shifted
  <2>4. CASE d = e /\ k = j
    <3>1. acc'[e][j].samples = added /\ acc'[e][j].bucket = acc[e][j].bucket
      BY <1>1, <2>1, <2>4 DEF Accs
    <3>2. cut'[e][j] = IF shifted THEN cut[e][j] \cup {acc[e][j].bucket} ELSE cut[e][j]
      BY <1>1, <2>1, <2>4
    <3>3. QED
      BY <2>1, <2>3, <2>4, <3>1, <3>2 DEF Extended, RowKept
  <2>5. CASE ~(d = e /\ k = j)
    BY <1>1, <2>1, <2>5 DEF Kept, RowKept
  <2>6. QED
    BY <2>4, <2>5
<1>7. \A d \in Device, k \in Kind : row' = Persisted(d, k, acc[d][k]) =>
          IF d = e /\ k = j THEN RowPersisted(e, j) ELSE RowKept(e, j)
  <2> SUFFICES ASSUME NEW d \in Device, NEW k \in Kind, row' = Persisted(d, k, acc[d][k])
               PROVE  IF d = e /\ k = j THEN RowPersisted(e, j) ELSE RowKept(e, j)
    OBVIOUS
  <2>1. row \in [Device -> [Kind -> [Bucket -> Seq(Timestamp)]]]
    BY <1>1 DEF Rows
  <2>2. row' = [row EXCEPT ![d][k][acc[d][k].bucket] = UpsertRow(@, acc[d][k].samples)]
    BY DEF Persisted
  <2>3. CASE d = e /\ k = j
    <3>1. row'[e][j] = [row[e][j] EXCEPT ![acc[e][j].bucket] = UpsertRow(@, acc[e][j].samples)]
      BY <2>1, <2>2, <2>3
    <3>2. QED
      BY <2>3, <3>1 DEF RowPersisted
  <2>4. CASE ~(d = e /\ k = j)
    <3>1. row'[e][j] = row[e][j]
      BY <2>1, <2>2, <2>4
    <3>2. QED
      BY <2>4, <3>1 DEF RowKept
  <2>5. QED
    BY <2>3, <2>4
<1>8. ASSUME NEW d \in Device, NEW k \in Kind, NEW b \in Bucket, NEW ts \in Timestamp, BucketOpened(d, k, b, ts)
      PROVE  Goal
  <2>1. CASE d = e /\ k = j
    <3>1. acc'[e][j].bucket = b
      BY <1>1, <1>8, <2>1 DEF BucketOpened, Opened
    <3>2. cut'[e][j] = IF row[e][j][b] = <<>> THEN cut[e][j] ELSE cut[e][j] \cup {b}
      BY <1>1, <1>8, <2>1 DEF BucketOpened, Reopened
    <3>3. IF NeedsPersist(acc[e][j]) THEN RowPersisted(e, j) ELSE RowKept(e, j)
      BY <1>7, <1>8, <2>1 DEF BucketOpened, RowKept
    <3>4. acc[e][j].samples = <<>> \/ acc[e][j].bucket # b
      BY <1>8, <2>1 DEF BucketOpened
    <3>5. Replaced(e, j)
      BY <3>1, <3>2, <3>3, <3>4 DEF Replaced
    <3>6. QED
      BY <3>2, <3>5
  <2>2. CASE ~(d = e /\ k = j)
    <3>1. acc'[e][j] = acc[e][j] /\ RowKept(e, j)
      BY <1>1, <1>7, <1>8, <2>2 DEF BucketOpened, RowKept
    <3>2. cut'[e][j] = cut[e][j]
      BY <1>1, <1>8, <2>2 DEF BucketOpened, Reopened
    <3>3. QED
      BY <3>1, <3>2 DEF Kept
  <2>3. QED
    BY <2>1, <2>2
<1>9. ASSUME NEW d \in Device, NEW k \in Kind, WriteUnsure(d, k) \/ Written(d, k) PROVE Goal
  <2>1. UNCHANGED cut /\ row' \in {row, Persisted(d, k, acc[d][k])}
    BY <1>9 DEF WriteUnsure, Written
  <2>2. acc' = acc \/ acc' = [acc EXCEPT ![d][k].dirty = FALSE]
    BY <1>9 DEF WriteUnsure, Written
  <2>3. acc'[e][j].samples = acc[e][j].samples /\ acc'[e][j].bucket = acc[e][j].bucket
    <3>1. CASE d = e /\ k = j
      <4>1. CASE acc' = acc
        BY <4>1
      <4>2. CASE acc' = [acc EXCEPT ![e][j].dirty = FALSE]
        BY <1>1, <4>2 DEF Accs
      <4>3. QED
        BY <2>2, <3>1, <4>1, <4>2
    <3>2. CASE ~(d = e /\ k = j)
      BY <1>1, <2>2, <3>2
    <3>3. QED
      BY <3>1, <3>2
  <2>4. RowKept(e, j) \/ RowPersisted(e, j)
    BY <1>7, <2>1 DEF RowKept
  <2>5. QED
    BY <2>1, <2>3, <2>4 DEF Saved
<1>10. QED
  BY <1>3, <1>4, <1>5, <1>6, <1>8, <1>9, AggregateSteps

\* In an uninterrupted bucket an accumulator without the mark equals its row.
LEMMA CleanIsRow ==
    ASSUME TypeOK, CleanIsWritten, NEW e \in Device, NEW j \in Kind, RowBehind(e, j),
           acc[e][j].samples # <<>>, acc[e][j].bucket \notin cut[e][j]
    PROVE  /\ IsPrefixOf(row[e][j][acc[e][j].bucket], acc[e][j].samples)
           /\ UpsertRow(row[e][j][acc[e][j].bucket], acc[e][j].samples) = acc[e][j].samples
           /\ acc[e][j].dirty = FALSE => row[e][j][acc[e][j].bucket] = acc[e][j].samples
<1> DEFINE s == acc[e][j].samples
           t == row[e][j][acc[e][j].bucket]
<1>1. s \in Seq(Timestamp) /\ t \in Seq(Timestamp)
  BY DataTypes DEF Accs, Rows
<1>2. IsPrefixOf(t, s) /\ (acc[e][j].dirty = FALSE => Len(t) >= Len(s))
  BY DEF RowBehind, CleanIsWritten
<1> HIDE DEF s, t
<1>3. UpsertRow(t, s) = s /\ (Len(t) >= Len(s) => t = s)
  BY <1>1, <1>2, PrefixFacts
<1>4. IsPrefixOf(t, s) /\ UpsertRow(t, s) = s /\ (acc[e][j].dirty = FALSE => t = s)
  BY <1>2, <1>3
<1>5. QED
  BY <1>4 DEF s, t

LEMMA RowBehindStep ==
    ASSUME HistoryInv, [Next]_vars, NEW e \in Device, NEW j \in Kind
    PROVE  RowBehind(e, j)'
<1> DEFINE s == acc[e][j].samples
           b == acc[e][j].bucket
           t == row[e][j][b]
<1>1. /\ TypeOK /\ CleanIsWritten /\ RowBehind(e, j) /\ s \in Seq(Timestamp) /\ b \in Bucket
      /\ row[e][j] \in [Bucket -> Seq(Timestamp)] /\ t \in Seq(Timestamp)
  BY DataTypes DEF HistoryInv, Accs, Rows
<1>2. cut[e][j] \subseteq cut'[e][j]
  BY <1>1, LocalSteps
<1>3. CASE Kept(e, j)
  BY <1>1, <1>2, <1>3 DEF Kept, RowKept, RowBehind
<1>4. CASE Emptied(e, j)
  BY <1>4 DEF Emptied, RowBehind
<1>5. CASE Extended(e, j)
  <2> SUFFICES ASSUME acc'[e][j].bucket \notin cut'[e][j]
               PROVE  IsPrefixOf(row'[e][j][acc'[e][j].bucket], acc'[e][j].samples)
    BY DEF RowBehind
  <2>1. b \notin cut[e][j] /\ IsPrefixOf(s, acc'[e][j].samples) /\ acc'[e][j].samples \in Seq(Timestamp)
    BY <1>2, <1>5 DEF Extended
  <2>2. IsPrefixOf(t, s)
    BY <1>1, <1>5, <2>1 DEF Extended, RowBehind
  <2>3. IsPrefixOf(t, acc'[e][j].samples)
    BY <1>1, <2>1, <2>2, PrefixFacts
  <2>4. QED
    BY <1>5, <2>3 DEF Extended, RowKept
<1>6. CASE Replaced(e, j)
  <2> DEFINE c == acc'[e][j].bucket
  <2> SUFFICES ASSUME c \notin cut'[e][j]
               PROVE  IsPrefixOf(row'[e][j][c], acc'[e][j].samples)
    BY DEF RowBehind
  <2>1. row[e][j][c] = <<>> /\ (s = <<>> \/ b # c)
    BY <1>6 DEF Replaced
  <2>2. c \in Bucket /\ acc'[e][j].samples \in Seq(Timestamp)
    <3>1. TypeOK'
      BY <1>1, TypeStep
    <3>2. acc'[e][j] \in Accs
      BY <3>1 DEF TypeOK
    <3>3. QED
      BY <3>2 DEF Accs
  <2> HIDE DEF c
  <2>3. row'[e][j][c] = row[e][j][c]
    <3>1. CASE NeedsPersist(acc[e][j])
      <4>1. b # c
        BY <2>1, <3>1 DEF NeedsPersist
      <4>2. QED
        BY <1>1, <1>6, <2>2, <3>1, <4>1 DEF Replaced, RowPersisted
    <3>2. CASE ~NeedsPersist(acc[e][j])
      BY <1>6, <3>2 DEF Replaced, RowKept
    <3>3. QED
      BY <3>1, <3>2
  <2>4. IsPrefixOf(<<>>, acc'[e][j].samples)
    BY <2>2 DEF IsPrefixOf
  <2>5. QED
    BY <2>1, <2>3, <2>4
<1>7. CASE Saved(e, j)
  <2> SUFFICES ASSUME s # <<>>, b \notin cut'[e][j]
               PROVE  IsPrefixOf(row'[e][j][b], s)
    BY <1>7 DEF RowBehind, Saved
  <2>1. IsPrefixOf(t, s) /\ UpsertRow(t, s) = s
    BY <1>1, <1>2, CleanIsRow
  <2>2. IsPrefixOf(s, s)
    BY <1>1 DEF IsPrefixOf
  <2>3. row'[e][j][b] = t \/ row'[e][j][b] = s
    BY <1>1, <1>7, <2>1 DEF Saved, RowKept, RowPersisted
  <2>4. QED
    BY <2>1, <2>2, <2>3
<1>8. QED
  BY <1>1, <1>3, <1>4, <1>5, <1>6, <1>7, LocalSteps

\* No step loses a sample that is safe.
LEMMA SafeStep ==
    ASSUME HistoryInv, [Next]_vars, NEW e \in Device, NEW j \in Kind, NEW ts \in Timestamp, Safe(e, j, ts)
    PROVE  Safe(e, j, ts)'
<1> DEFINE s == acc[e][j].samples
           b == acc[e][j].bucket
           t == row[e][j][b]
           B == BucketOf(j, ts)
<1>1. /\ TypeOK /\ CleanIsWritten /\ RowBehind(e, j) /\ s \in Seq(Timestamp) /\ b \in Bucket
      /\ row[e][j] \in [Bucket -> Seq(Timestamp)] /\ t \in Seq(Timestamp)
  BY DataTypes DEF HistoryInv, Accs, Rows
<1>2. cut[e][j] \subseteq cut'[e][j] /\ B \in Bucket
  BY <1>1, LocalSteps, BucketType
<1>3. CASE B \in cut'[e][j]
  BY <1>3 DEF Safe
<1>4. CASE B \notin cut'[e][j] /\ InSeq(ts, row[e][j][B])
  <2>1. CASE RowKept(e, j)
    BY <1>4, <2>1 DEF Safe, Recorded, RowKept
  <2>2. CASE RowPersisted(e, j) /\ s # <<>>
    <3>1. CASE B = b
      <4>1. UpsertRow(t, s) = s /\ IsPrefixOf(t, s)
        BY <1>1, <1>2, <1>4, <2>2, <3>1, CleanIsRow
      <4>2. InSeq(ts, s)
        BY <1>1, <1>4, <3>1, <4>1, PrefixFacts
      <4>3. row'[e][j][B] = s
        BY <1>1, <2>2, <3>1, <4>1 DEF RowPersisted
      <4>4. QED
        BY <4>2, <4>3 DEF Safe, Recorded
    <3>2. CASE B # b
      <4>1. row'[e][j][B] = row[e][j][B]
        BY <1>1, <1>2, <2>2, <3>2 DEF RowPersisted
      <4>2. QED
        BY <1>4, <4>1 DEF Safe, Recorded
    <3>3. QED
      BY <3>1, <3>2
  <2>3. CASE RowPersisted(e, j) /\ s = <<>>
    <3>1. UpsertRow(t, s) = t
      BY <1>1, <2>3 DEF UpsertRow
    <3>2. row'[e][j][B] = row[e][j][B]
      BY <1>1, <1>2, <2>3, <3>1 DEF RowPersisted
    <3>3. QED
      BY <1>4, <3>2 DEF Safe, Recorded
  <2>4. QED
    BY <1>1, <2>1, <2>2, <2>3, LocalSteps DEF Kept, Emptied, Extended, Replaced, Saved
<1>5. CASE B \notin cut'[e][j] /\ b = B /\ InSeq(ts, s)
  <2>1. s # <<>> /\ b \notin cut[e][j]
    BY <1>2, <1>5 DEF InSeq
  <2>2. CASE Kept(e, j)
    BY <1>5, <2>2 DEF Kept, Safe, Accumulated
  <2>3. CASE Emptied(e, j)
    BY <1>5, <2>1, <2>3 DEF Emptied
  <2>4. CASE Extended(e, j)
    <3>1. IsPrefixOf(s, acc'[e][j].samples) /\ acc'[e][j].samples \in Seq(Timestamp)
      BY <1>5, <2>4 DEF Extended
    <3>2. InSeq(ts, acc'[e][j].samples)
      BY <1>1, <1>5, <3>1, PrefixFacts
    <3>3. QED
      BY <1>5, <2>4, <3>2 DEF Extended, Safe, Accumulated
  <2>5. CASE Replaced(e, j)
    <3>1. UpsertRow(t, s) = s /\ (acc[e][j].dirty = FALSE => t = s)
      BY <1>1, <2>1, CleanIsRow
    <3>2. acc[e][j].dirty \in BOOLEAN
      BY <1>1, DataTypes DEF Accs
    <3>3. row'[e][j][b] = s
      <4>1. CASE NeedsPersist(acc[e][j])
        BY <1>1, <2>5, <3>1, <4>1 DEF Replaced, RowPersisted
      <4>2. CASE ~NeedsPersist(acc[e][j])
        <5>1. acc[e][j].dirty = FALSE
          BY <2>1, <3>2, <4>2, Zenon DEF NeedsPersist
        <5>2. QED
          BY <2>5, <3>1, <4>2, <5>1 DEF Replaced, RowKept
      <4>3. QED
        BY <4>1, <4>2
    <3>4. QED
      BY <1>5, <3>3 DEF Safe, Recorded
  <2>6. CASE Saved(e, j)
    BY <1>5, <2>6 DEF Saved, Safe, Accumulated
  <2>7. QED
    BY <1>1, <2>2, <2>3, <2>4, <2>5, <2>6, LocalSteps
<1>6. QED
  BY <1>2, <1>3, <1>4, <1>5 DEF Safe, Accumulated, Recorded

StagedPcs == {"hourly", "upsert"}

\* The step leaves x where it is, or brings it to a step before or after the
\* aggregates.
Elsewhere(x) == req'[x] = req[x] \/ req'[x].pc \notin StagedPcs

LEMMA MovesElsewhere ==
    ASSUME TypeOK, NEW x \in Requests, NEW r \in Requests, NEW h, h.pc \notin StagedPcs,
           req' = [req EXCEPT ![r] = h]
    PROVE  Elsewhere(x)
BY DEF TypeOK, Elsewhere

LEMMA IdleElsewhere == Idle.pc \notin StagedPcs
BY DEF Idle, StagedPcs

LEMMA ReleaseElsewhere ==
    ASSUME TypeOK, NEW x \in Requests, NEW r \in Requests, Release(r)
    PROVE  Elsewhere(x)
BY IdleElsewhere, MovesElsewhere DEF Release

LEMMA GoToElsewhere ==
    ASSUME TypeOK, NEW x \in Requests, NEW r \in Requests, NEW pc, pc \notin StagedPcs, GoTo(r, pc)
    PROVE  Elsewhere(x)
<1> DEFINE h == [req[r] EXCEPT !.pc = pc]
<1>1. h.pc = pc /\ req' = [req EXCEPT ![r] = h]
  BY ServiceTypes DEF GoTo, Handlers
<1> HIDE DEF h
<1>2. QED
  BY <1>1, MovesElsewhere

\* The aggregation step of x: the sample is in the aggregate k afterwards.
Aggregates(x, k, next) == (Accumulate(x, k, next) \/ RollOver(x, k, next)) /\ GoTo(x, next)

Stages(x) == Aggregates(x, "minute", "hourly") \/ Aggregates(x, "hourly", "upsert")

LEMMA IngestStages ==
    ASSUME TypeOK, NEW x \in Requests, NEW r \in Requests, Ingest(r)
    PROVE  Elsewhere(x) \/ Stages(x)
<1>1. req[r] \in Handlers /\ req \in [Requests -> Handlers]
  BY ServiceTypes DEF TypeOK
<1>2. ASSUME NEW k \in Kind, NEW next \in StagedPcs, Accumulate(r, k, next) \/ RollOver(r, k, next)
      PROVE  Elsewhere(x) \/ (x = r /\ Aggregates(r, k, next))
  <2>1. Release(r) \/ GoTo(r, next)
    BY <1>2 DEF Accumulate, RollOver, FailsWith
  <2>2. CASE Release(r)
    BY <2>2, ReleaseElsewhere
  <2>3. CASE GoTo(r, next) /\ x = r
    BY <1>2, <2>3 DEF Aggregates
  <2>4. CASE GoTo(r, next) /\ x # r
    BY <1>1, <2>4 DEF GoTo, Elsewhere
  <2>5. QED
    BY <2>1, <2>2, <2>3, <2>4
<1>3. CASE AddMinuteAggregate(r)
  BY <1>2, <1>3 DEF AddMinuteAggregate, Kind, StagedPcs, Stages
<1>4. CASE AddHourlyAggregate(r)
  BY <1>2, <1>4 DEF AddHourlyAggregate, Kind, StagedPcs, Stages
<1>5. CASE Register(r)
  <2> DEFINE h == [req[r] EXCEPT !.pc = "previous", !.rec[req[r].dev] = OpenRecord(req[r].dev)]
  <2>1. h.pc \notin StagedPcs
    BY <1>1 DEF Handlers, StagedPcs
  <2>2. Release(r) \/ req' = [req EXCEPT ![r] = h]
    BY <1>5 DEF Register, FailsWith
  <2> HIDE DEF h
  <2>3. QED
    BY <2>1, <2>2, ReleaseElsewhere, MovesElsewhere
<1>6. CASE ReadPrevious(r) \/ AppendRaw(r) \/ Upsert(r) \/ EmitAccepted(r)
  <2>1. Release(r) \/ GoTo(r, "append") \/ GoTo(r, "minute") \/ GoTo(r, "emit")
    BY <1>6 DEF ReadPrevious, AppendRaw, Upsert, EmitAccepted, FailsWith
  <2>2. QED
    BY <2>1, ReleaseElsewhere, GoToElsewhere DEF StagedPcs
<1>7. QED
  BY <1>3, <1>4, <1>5, <1>6 DEF Ingest

LEMMA OtherStages ==
    ASSUME TypeOK, NEW x \in Requests, NEW r \in Requests,
           Submit(r) \/ EnterDeviceQueue(r) \/ AcquireNext(r) \/ Remove(r) \/ Regroup(r)
    PROVE  Elsewhere(x)
<1>1. req[r] \in Handlers /\ req \in [Requests -> Handlers]
  BY ServiceTypes DEF TypeOK
<1>2. ASSUME NEW d \in Device, NEW ts \in Timestamp, SubmitIngest(r, d, ts) PROVE Elsewhere(x)
  <2> DEFINE h == [Idle EXCEPT !.op = "ingest", !.pc = "queued", !.dev = d, !.devs = {d}, !.ts = ts, !.recv = now']
  <2>1. h.pc \notin StagedPcs
    BY DEF Idle, StagedPcs
  <2>2. UNCHANGED req \/ req' = [req EXCEPT ![r] = h]
    BY <1>2 DEF SubmitIngest
  <2> HIDE DEF h
  <2>3. QED
    BY <2>1, <2>2, MovesElsewhere DEF Elsewhere
<1>3. ASSUME NEW d \in Device, SubmitRemove(r, d) PROVE Elsewhere(x)
  <2> DEFINE h == [Idle EXCEPT !.op = "remove", !.pc = "queued", !.dev = d, !.devs = {d}]
  <2>1. h.pc \notin StagedPcs
    BY DEF Idle, StagedPcs
  <2>2. UNCHANGED req \/ req' = [req EXCEPT ![r] = h]
    BY <1>3 DEF SubmitRemove
  <2> HIDE DEF h
  <2>3. QED
    BY <2>1, <2>2, MovesElsewhere DEF Elsewhere
<1>4. ASSUME NEW D, NEW g, SubmitGroup(r, D, g) PROVE Elsewhere(x)
  <2> DEFINE h == [Idle EXCEPT !.op = "group", !.pc = "update", !.devs = D, !.todo = D, !.group = g]
  <2>1. h.pc \notin StagedPcs
    BY DEF Idle, StagedPcs
  <2>2. UNCHANGED req \/ req' = [req EXCEPT ![r] = h]
    BY <1>4 DEF SubmitGroup
  <2> HIDE DEF h
  <2>3. QED
    BY <2>1, <2>2, MovesElsewhere DEF Elsewhere
<1>5. CASE EnterDeviceQueue(r)
  <2>1. Release(r) \/ \E pc : GoTo(r, pc) /\ pc \notin StagedPcs
    BY <1>5 DEF EnterDeviceQueue, FirstStep, StagedPcs
  <2>2. QED
    BY <2>1, ReleaseElsewhere, GoToElsewhere
<1>6. ASSUME NEW d \in Device, req' = [req EXCEPT ![r].pc = "queued", ![r].dev = d] PROVE Elsewhere(x)
  <2> DEFINE h == [req[r] EXCEPT !.pc = "queued", !.dev = d]
  <2>1. h.pc \notin StagedPcs /\ req' = [req EXCEPT ![r] = h]
    BY <1>1, <1>6 DEF Handlers, StagedPcs
  <2> HIDE DEF h
  <2>2. QED
    BY <2>1, MovesElsewhere
<1>7. CASE AcquireNext(r)
  <2>1. Release(r) \/ \E d \in Device : req' = [req EXCEPT ![r].pc = "queued", ![r].dev = d]
    BY <1>7 DEF AcquireNext
  <2>2. QED
    BY <1>6, <2>1, ReleaseElsewhere
<1>8. CASE Remove(r)
  <2>1. CASE ForgetAccumulators(r)
    <3> DEFINE h == [req[r] EXCEPT !.pc = "remove", !.seen[req[r].dev] = live[req[r].dev]]
    <3>1. h.pc \notin StagedPcs
      BY <1>1 DEF Handlers, StagedPcs
    <3>2. Release(r) \/ req' = [req EXCEPT ![r] = h]
      BY <2>1 DEF ForgetAccumulators, FailsWith
    <3> HIDE DEF h
    <3>3. QED
      BY <3>1, <3>2, ReleaseElsewhere, MovesElsewhere
  <2>2. CASE DeleteDevice(r) \/ RemoveState(r) \/ ClearSeries(r)
    <3>1. Release(r) \/ GoTo(r, "state") \/ GoTo(r, "clear")
      BY <2>2 DEF DeleteDevice, RemoveState, ClearSeries, FailsWith
    <3>2. QED
      BY <3>1, ReleaseElsewhere, GoToElsewhere DEF StagedPcs
  <2>3. QED
    BY <1>8, <2>1, <2>2 DEF Remove
<1>9. CASE UpdateGroup(r)
  <2>1. \/ req' = [req EXCEPT ![r] = Idle]
        \/ \E d \in Device : req' = [req EXCEPT ![r].pc = "queued", ![r].dev = d]
    BY <1>9 DEF UpdateGroup
  <2>2. QED
    BY <1>6, <2>1, IdleElsewhere, MovesElsewhere
<1>10. ASSUME NEW d \in Device, NEW part, NotifyGroup(r, d, part) PROVE Elsewhere(x)
  <2>1. req[r].pc = "notify"
    BY <1>10 DEF NotifyGroup, Runs
  <2>2. ASSUME NEW h, h.pc = req[r].pc, req' = [req EXCEPT ![r] = h] PROVE Elsewhere(x)
    BY <2>1, <2>2, MovesElsewhere DEF StagedPcs
  <2>3. ASSUME Settle(r, d) PROVE Elsewhere(x)
    <3> DEFINE h == [req[r] EXCEPT !.todo = @ \ {d}]
    <3>1. h.pc = req[r].pc
      BY <1>1 DEF Handlers
    <3>2. Release(r) \/ req' = [req EXCEPT ![r] = h]
      BY <2>3 DEF Settle
    <3> HIDE DEF h
    <3>3. QED
      BY <2>2, <3>1, <3>2, ReleaseElsewhere
  <2>4. ASSUME NEW state, NEW record,
               req' = [req EXCEPT ![r].half[d] = part, ![r].seen[d] = state, ![r].rec[d] = record]
        PROVE  Elsewhere(x)
    <3> DEFINE h == [req[r] EXCEPT !.half[d] = part, !.seen[d] = state, !.rec[d] = record]
    <3>1. h.pc = req[r].pc
      BY <1>1 DEF Handlers
    <3>2. req' = [req EXCEPT ![r] = h]
      BY <2>4
    <3> HIDE DEF h
    <3>3. QED
      BY <2>2, <3>1, <3>2
  <2>5. \/ Settle(r, d)
        \/ \E state, record :
              req' = [req EXCEPT ![r].half[d] = part, ![r].seen[d] = state, ![r].rec[d] = record]
    BY <1>10, Zenon DEF NotifyGroup
  <2>6. QED
    BY <2>3, <2>4, <2>5
<1>11. QED
  BY <1>2, <1>3, <1>4, <1>5, <1>7, <1>8, <1>9, <1>10 DEF Submit, Regroup

LEMMA StageSteps ==
    ASSUME TypeOK, [Next]_vars, NEW x \in Requests
    PROVE  Elsewhere(x) \/ Stages(x)
<1>1. CASE StartFlush \/ \E d \in Device : FlushStep(d)
  BY <1>1 DEF StartFlush, FlushStep, AdmitFlush, FlushMinute, FlushHourly, FlushStage, Elsewhere
<1>2. CASE StartSweep \/ ListExpired \/ \E d \in Device : SweepStep(d)
  BY <1>2 DEF StartSweep, ListExpired, SweepStep, MarkOffline, EnterSweep, NotifyOffline, Elsewhere
<1>3. CASE Shutdown \/ Process \/ Tick \/ UNCHANGED vars
  BY <1>3 DEF Shutdown, Process, HttpDrained, FlushDrained, SweepDrained, LastFlush, Stop, Tick, vars,
              memory, Elsewhere
<1>4. CASE Restart
  BY <1>4, IdleElsewhere DEF Restart, Elsewhere
<1>5. QED
  BY <1>1, <1>2, <1>3, <1>4, IngestStages, OtherStages DEF Next, Handle

\* The sample an aggregation step took is in the accumulator.
LEMMA AggregatesSafe ==
    ASSUME TypeOK, NEW x \in Requests, NEW k \in Kind, NEW next \in StagedPcs, Aggregates(x, k, next),
           NEW d \in Device, NEW ts \in Timestamp, req[x].dev = d, req[x].ts = ts
    PROVE  Safe(d, k, ts)'
<1>1. acc \in [Device -> [Kind -> Accs]] /\ acc[d][k].samples \in Seq(Timestamp)
  BY DataTypes DEF Accs
<1>2. MaxSamples(k) \in Nat \ {0}
  BY MetricsAssumption DEF MaxSamples
<1>3. CASE Accumulate(x, k, next)
  <2>1. /\ acc[d][k].bucket = BucketOf(k, ts)
        /\ acc' = [acc EXCEPT ![d][k].samples = AddSample(acc[d][k].samples, ts, MaxSamples(k)),
                              ![d][k].dirty = TRUE]
    BY <1>3 DEF Accumulate
  <2>2. /\ acc'[d][k].bucket = BucketOf(k, ts)
        /\ acc'[d][k].samples = AddSample(acc[d][k].samples, ts, MaxSamples(k))
    BY <1>1, <2>1 DEF Accs
  <2>3. InSeq(ts, acc'[d][k].samples)
    BY <1>1, <1>2, <2>2, AddSampleHolds
  <2>4. QED
    BY <2>2, <2>3 DEF Safe, Accumulated
<1>4. CASE RollOver(x, k, next)
  <2>1. req'[x].pc = next /\ next # Idle.pc
    BY IdleElsewhere, ServiceTypes DEF Aggregates, GoTo, TypeOK, Handlers
  <2>2. ~Release(x)
    BY <2>1 DEF Release, TypeOK
  <2>3. acc' = [acc EXCEPT ![d][k] = Opened(BucketOf(k, ts), ts)]
    BY <1>4, <2>2 DEF RollOver, FailsWith
  <2>4. acc'[d][k].bucket = BucketOf(k, ts) /\ acc'[d][k].samples = <<ts>>
    BY <1>1, <2>3 DEF Opened
  <2>5. InSeq(ts, <<ts>>)
    BY DEF InSeq
  <2>6. QED
    BY <2>4, <2>5 DEF Safe, Accumulated
<1>5. QED
  BY <1>3, <1>4 DEF Aggregates

LEMMA PublishedSteps ==
    ASSUME TypeOK, [Next]_vars
    PROVE  \/ UNCHANGED published
           \/ \E r \in Requests : /\ req[r].pc = "upsert"
                                  /\ published' = [published EXCEPT ![req[r].dev] = @ \cup {req[r].ts}]
<1> USE DEF history
<1>1. ASSUME NEW r \in Requests, Submit(r) PROVE UNCHANGED published
  BY <1>1 DEF Submit, SubmitIngest, SubmitRemove, SubmitGroup
<1>2. ASSUME NEW r \in Requests,
             EnterDeviceQueue(r) \/ AcquireNext(r) \/ Remove(r) \/ Regroup(r)
      PROVE  UNCHANGED published
  BY <1>2 DEF EnterDeviceQueue, AcquireNext, Remove, DeleteDevice, ForgetAccumulators, RemoveState,
              ClearSeries, Regroup, UpdateGroup, NotifyGroup
<1>3. ASSUME NEW r \in Requests,
             \/ Register(r) \/ ReadPrevious(r) \/ AppendRaw(r) \/ AddMinuteAggregate(r)
             \/ AddHourlyAggregate(r) \/ EmitAccepted(r)
      PROVE  UNCHANGED published
  BY <1>3 DEF Register, ReadPrevious, AppendRaw, AddMinuteAggregate, AddHourlyAggregate, Accumulate,
              RollOver, EmitAccepted
<1>4. ASSUME NEW r \in Requests, Upsert(r)
      PROVE  \/ UNCHANGED published
             \/ /\ req[r].pc = "upsert"
                /\ published' = [published EXCEPT ![req[r].dev] = @ \cup {req[r].ts}]
  BY <1>4 DEF Upsert, FailsWith, Runs
<1>5. CASE StartFlush \/ \E d \in Device : FlushStep(d)
  BY <1>5 DEF StartFlush, FlushStep, AdmitFlush, FlushMinute, FlushHourly, FlushStage
<1>6. CASE StartSweep \/ ListExpired \/ \E d \in Device : SweepStep(d)
  BY <1>6 DEF StartSweep, ListExpired, SweepStep, MarkOffline, EnterSweep, NotifyOffline
<1>7. CASE Shutdown \/ Process \/ Restart \/ Tick \/ UNCHANGED vars
  BY <1>7 DEF Shutdown, Process, HttpDrained, FlushDrained, SweepDrained, LastFlush, Stop, Restart, Tick, vars
<1>8. QED
  BY <1>1, <1>2, <1>3, <1>4, <1>5, <1>6, <1>7 DEF Next, Handle, Ingest

LEMMA HistoryStep == HistoryInv /\ [Next]_vars => HistoryInv'
<1> SUFFICES ASSUME HistoryInv, [Next]_vars PROVE HistoryInv'
  OBVIOUS
<1>1. TypeOK /\ CleanIsWritten /\ NothingDropped /\ \A x \in Requests : StagedSafe(x)
  BY DEF HistoryInv
<1>2. TypeOK' /\ CleanIsWritten'
  BY <1>1, TypeStep, CleanStep
<1>3. \A e \in Device, j \in Kind : RowBehind(e, j)'
  BY RowBehindStep
<1>4. \A x \in Requests : req[x].dev \in Device /\ (req[x].pc \in StagedPcs => req[x].ts \in Timestamp)
  BY <1>1, ServiceTypes DEF CarriesSample, IngestSteps, StagedPcs
<1>5. NothingDropped'
  <2> SUFFICES ASSUME NEW e \in Device, NEW j \in Kind, NEW ts \in published'[e]
               PROVE  Safe(e, j, ts)'
    BY DEF NothingDropped, Safe
  <2>1. CASE ts \in published[e]
    <3>1. Safe(e, j, ts) /\ ts \in Timestamp
      BY <1>1, <2>1 DEF NothingDropped, Safe, TypeOK
    <3>2. QED
      BY <3>1, SafeStep
  <2>2. CASE ts \notin published[e]
    <3>1. PICK r \in Requests : /\ req[r].pc = "upsert"
                                /\ published' = [published EXCEPT ![req[r].dev] = @ \cup {req[r].ts}]
      BY <1>1, <2>2, PublishedSteps
    <3>2. e = req[r].dev /\ ts = req[r].ts
      BY <1>1, <2>2, <3>1 DEF TypeOK
    <3>3. Safe(e, j, ts) /\ ts \in Timestamp
      BY <1>1, <1>4, <3>1, <3>2 DEF StagedSafe, Kind, StagedPcs
    <3>4. QED
      BY <3>3, SafeStep
  <2>3. QED
    BY <2>1, <2>2
<1>6. ASSUME NEW x \in Requests PROVE StagedSafe(x)'
  <2>1. PICK d \in Device : d = req[x].dev
    BY <1>4
  <2>2. CASE req'[x] = req[x]
    <3>1. \A k \in Kind, ts \in Timestamp : Safe(d, k, ts) => Safe(d, k, ts)'
      BY SafeStep
    <3>2. QED
      BY <1>1, <1>4, <2>1, <2>2, <3>1 DEF StagedSafe, StagedPcs, Kind
  <2>3. CASE req'[x].pc \notin StagedPcs
    BY <2>3 DEF StagedSafe, StagedPcs
  <2>4. ASSUME NEW k \in Kind, NEW next \in StagedPcs, Aggregates(x, k, next)
        PROVE  /\ req[x].ts \in Timestamp
               /\ req'[x].dev = d /\ req'[x].ts = req[x].ts /\ req'[x].pc = next /\ req[x].pc = k
    <3>1. req[x].pc \in {"minute", "hourly"} /\ req[x].pc = k
      BY <2>4 DEF Aggregates, Accumulate, RollOver, FailsWith, Runs, Kind
    <3>2. req[x].ts \in Timestamp
      BY <1>1, <3>1, ServiceTypes DEF CarriesSample, IngestSteps
    <3>3. QED
      BY <1>1, <2>1, <2>4, <3>1, <3>2, ServiceTypes DEF Aggregates, GoTo, TypeOK, Handlers
  <2>5. CASE Aggregates(x, "minute", "hourly")
    <3>1. PICK ts \in Timestamp : ts = req[x].ts
      BY <2>4, <2>5 DEF Kind, StagedPcs
    <3>2. Safe(d, "minute", ts)'
      BY <1>1, <2>1, <2>5, <3>1, AggregatesSafe DEF Kind, StagedPcs
    <3>3. req'[x].dev = d /\ req'[x].ts = ts /\ req'[x].pc = "hourly"
      BY <2>4, <2>5, <3>1 DEF Kind, StagedPcs
    <3>4. QED
      BY <3>2, <3>3 DEF StagedSafe
  <2>6. CASE Aggregates(x, "hourly", "upsert")
    <3>1. PICK ts \in Timestamp : ts = req[x].ts
      BY <2>4, <2>6 DEF Kind, StagedPcs
    <3>2. Safe(d, "hourly", ts)'
      BY <1>1, <2>1, <2>6, <3>1, AggregatesSafe DEF Kind, StagedPcs
    <3>3. req'[x].dev = d /\ req'[x].ts = ts /\ req'[x].pc = "upsert" /\ req[x].pc = "hourly"
      BY <2>4, <2>6, <3>1 DEF Kind, StagedPcs
    <3>4. Safe(d, "minute", ts)
      BY <1>1, <2>1, <3>1, <3>3 DEF StagedSafe
    <3>5. Safe(d, "minute", ts)'
      BY <3>4, SafeStep DEF Kind
    <3>6. QED
      BY <3>2, <3>3, <3>5 DEF StagedSafe
  <2>7. QED
    BY <1>1, <2>2, <2>3, <2>5, <2>6, StageSteps DEF Elsewhere, Stages
<1>7. QED
  BY <1>2, <1>3, <1>5, <1>6 DEF HistoryInv

LEMMA HistoryInit == Init => HistoryInv
<1> SUFFICES ASSUME Init PROVE HistoryInv
  OBVIOUS
<1>1. \A d \in Device, k \in Kind : acc[d][k].samples = <<>>
  BY DEF Init, NoAccs, NoAcc
<1>2. \A r \in Requests : req[r].pc = "idle"
  BY DEF Init, Idle
<1>3. \A d \in Device : published[d] = {}
  BY DEF Init
<1>4. QED
  BY <1>1, <1>2, <1>3, TypeInit DEF HistoryInv, CleanIsWritten, NothingDropped, RowBehind, StagedSafe

LEMMA HistoryInvariant == Spec => []HistoryInv
BY HistoryInit, HistoryStep, PTL DEF Spec

\* Every sample that was shown as the live reading is in its history row or in
\* the open accumulator, unless the accumulation of its bucket was interrupted:
\* uploads aggregate before they publish, a failed or unanswered write leaves
\* the accumulator as it was, and a flush and a rollover write the fuller of
\* accumulator and row, of which the row is a prefix.
THEOREM NothingDroppedHolds == Spec => []NothingDropped
<1>1. HistoryInv => NothingDropped
  BY DEF HistoryInv
<1>2. QED
  BY <1>1, HistoryInvariant, PTL

-----------------------------------------------------------------------------
(* The last flush *)

Settled(d, k) == acc[d][k].samples = <<>> \/ acc[d][k].dirty = FALSE

\* What the flush has dealt with by its step pc for the device.
FlushedSoFar(d) ==
    /\ flush.pc[d] = "none" => Settled(d, "minute") /\ Settled(d, "hourly")
    /\ flush.pc[d] = "hourly" => Settled(d, "minute")

\* Once the handlers are drained nothing fills an accumulator, so what the last
\* flush has dealt with stays as it left it.
DrainInv ==
    /\ phase \notin {"up", "closing"} => \A r \in Requests : req[r].pc = "idle"
    /\ phase \in {"flushing", "down"} /\ flush.failed = FALSE => \A d \in Device : FlushedSoFar(d)
    /\ phase = "down" => FlushIdle

\* A handler only runs while its request is being handled.
LEMMA HandleBusy ==
    ASSUME NEW r \in Requests, Handle(r)
    PROVE  req[r].pc # "idle"
<1>1. CASE EnterDeviceQueue(r) \/ AcquireNext(r)
  BY <1>1 DEF EnterDeviceQueue, AcquireNext, Runs
<1>2. CASE Register(r) \/ ReadPrevious(r) \/ AppendRaw(r) \/ Upsert(r) \/ EmitAccepted(r)
  BY <1>2 DEF Register, ReadPrevious, AppendRaw, Upsert, EmitAccepted, FailsWith, Runs
<1>3. ASSUME NEW k \in {"minute", "hourly"}, NEW next, Accumulate(r, k, next) \/ RollOver(r, k, next)
      PROVE  req[r].pc # "idle"
  BY <1>3 DEF Accumulate, RollOver, FailsWith, Runs
<1>4. CASE Remove(r)
  BY <1>4 DEF Remove, DeleteDevice, ForgetAccumulators, RemoveState, ClearSeries, FailsWith, Runs
<1>5. CASE Regroup(r)
  BY <1>5 DEF Regroup, UpdateGroup, NotifyGroup, Runs
<1>6. QED
  BY <1>1, <1>2, <1>3, <1>4, <1>5 DEF Handle, Ingest, AddMinuteAggregate, AddHourlyAggregate

\* A step of the flush on d deals with its accumulators in order.
LEMMA FlushedStep ==
    ASSUME TypeOK, NEW d \in Device, FlushStep(d), flush'.failed = FALSE,
           NEW e \in Device, FlushedSoFar(e)
    PROVE  flush.failed = FALSE /\ FlushedSoFar(e)'
<1>1. flush \in FlushStates /\ acc \in [Device -> [Kind -> Accs]]
  BY TimerTypes, DataTypes
<1>2. /\ flush.pc \in [Device -> {"none", "captured", "minute", "hourly"}]
      /\ \A k \in Kind : acc[d][k].dirty \in BOOLEAN
  BY <1>1 DEF FlushStates, Accs
<1>3. CASE AdmitFlush(d)
  <2>1. flush'.failed = FALSE => flush' = [flush EXCEPT !.pc[d] = "minute"]
    BY <1>3, <1>1 DEF AdmitFlush, FlushStates
  <2>2. flush.failed = FALSE /\ acc' = acc
    BY <1>1, <1>3, <2>1 DEF AdmitFlush, FlushStates
  <2>3. flush'.pc = [flush.pc EXCEPT ![d] = "minute"]
    BY <1>1, <2>1 DEF FlushStates
  <2>4. QED
    BY <1>2, <2>2, <2>3 DEF FlushedSoFar, Settled
<1>4. ASSUME NEW k \in Kind, NEW next, FlushStage(d, k, next)
      PROVE  /\ flush.failed = FALSE
             /\ flush'.pc = [flush.pc EXCEPT ![d] = next]
             /\ \A j \in Kind : Settled(e, j) => Settled(e, j)'
             /\ Settled(d, k)'
             /\ flush.pc[d] = k
  <2>1. CASE NeedsPersist(acc[d][k]) /\ acc' = [acc EXCEPT ![d][k].dirty = FALSE]
    <3>1. /\ \A j \in Kind : j # k => acc'[d][j] = acc[d][j]
          /\ e # d => acc'[e] = acc[e]
          /\ acc'[d][k].dirty = FALSE
      BY <1>1, <2>1 DEF Accs
    <3>2. QED
      BY <1>1, <1>4, <2>1, <3>1 DEF FlushStage, FlushStates, Settled
  <2>2. CASE acc' = acc /\ NeedsPersist(acc[d][k])
    <3>1. acc' # [acc EXCEPT ![d][k].dirty = FALSE]
      <4>1. acc[d][k].dirty = TRUE /\ [acc EXCEPT ![d][k].dirty = FALSE][d][k].dirty = FALSE
        BY <1>1, <1>2, <2>2 DEF NeedsPersist, Accs
      <4>2. QED
        BY <2>2, <4>1
    <3>2. flush'.failed = TRUE
      <4>1. flush' = [flush EXCEPT !.pc[d] = next, !.failed = TRUE]
        BY <1>4, <2>2, <3>1, Zenon DEF FlushStage
      <4>2. QED
        BY <1>1, <4>1 DEF FlushStates
    <3>3. QED
      BY <3>2
  <2>3. CASE acc' = acc /\ ~NeedsPersist(acc[d][k])
    BY <1>1, <1>2, <1>4, <2>3 DEF FlushStage, FlushStates, NeedsPersist, Settled
  <2>4. \/ NeedsPersist(acc[d][k]) /\ acc' = [acc EXCEPT ![d][k].dirty = FALSE]
        \/ acc' = acc /\ NeedsPersist(acc[d][k])
        \/ acc' = acc /\ ~NeedsPersist(acc[d][k])
    BY <1>4, Zenon DEF FlushStage
  <2>5. QED
    BY <2>1, <2>2, <2>3, <2>4
<1>5. CASE FlushMinute(d)
  <2>1. FlushStage(d, "minute", "hourly")
    BY <1>5 DEF FlushMinute
  <2>2. /\ flush.failed = FALSE
        /\ flush'.pc = [flush.pc EXCEPT ![d] = "hourly"]
        /\ \A j \in Kind : Settled(e, j) => Settled(e, j)'
        /\ Settled(d, "minute")'
    BY <1>4, <2>1 DEF Kind
  <2>3. QED
    BY <1>2, <2>2 DEF FlushedSoFar, Kind
<1>6. CASE FlushHourly(d)
  <2>1. FlushStage(d, "hourly", "none")
    BY <1>6 DEF FlushHourly
  <2>2. /\ flush.failed = FALSE
        /\ flush'.pc = [flush.pc EXCEPT ![d] = "none"]
        /\ \A j \in Kind : Settled(e, j) => Settled(e, j)'
        /\ Settled(d, "hourly")'
        /\ flush.pc[d] = "hourly"
    BY <1>4, <2>1 DEF Kind
  <2>3. QED
    BY <1>2, <2>2 DEF FlushedSoFar, Kind
<1>7. QED
  BY <1>3, <1>5, <1>6 DEF FlushStep

LEMMA DrainStep == TypeOK /\ DrainInv /\ [Next]_vars => DrainInv'
<1> SUFFICES ASSUME TypeOK, DrainInv, [Next]_vars PROVE DrainInv'
  OBVIOUS
<1> USE DEF stores, memory, history
<1>1. ASSUME NEW r \in Requests, Submit(r) \/ Handle(r)
      PROVE  DrainInv'
  <2>1. phase' = phase /\ phase \in {"up", "closing"}
    <3>1. CASE Submit(r)
      BY <3>1 DEF Submit, SubmitIngest, SubmitRemove, SubmitGroup, Receives
    <3>2. CASE Handle(r)
      <4>1. req[r].pc # "idle"
        BY <3>2, HandleBusy
      <4>2. phase \in {"up", "closing"}
        BY <4>1 DEF DrainInv
      <4>3. phase' = phase
        BY <3>2 DEF Handle, EnterDeviceQueue, AcquireNext, Ingest, Register, ReadPrevious, AppendRaw,
                    AddMinuteAggregate, AddHourlyAggregate, Accumulate, RollOver, Upsert, EmitAccepted,
                    Remove, DeleteDevice, ForgetAccumulators, RemoveState, ClearSeries,
                    Regroup, UpdateGroup, NotifyGroup
      <4>4. QED
        BY <4>2, <4>3
    <3>3. QED
      BY <1>1, <3>1, <3>2
  <2>2. QED
    BY <2>1 DEF DrainInv
<1>2. CASE StartFlush \/ Shutdown
  BY <1>2 DEF StartFlush, Shutdown, DrainInv
<1>3. ASSUME NEW d \in Device, FlushStep(d)
      PROVE  DrainInv'
  <2>1. phase' = phase /\ req' = req
    BY <1>3 DEF FlushStep, AdmitFlush, FlushMinute, FlushHourly, FlushStage
  <2>2. phase # "down"
    <3>1. flush.pc[d] # "none"
      BY <1>3 DEF FlushStep, AdmitFlush, FlushMinute, FlushHourly, FlushStage
    <3>2. QED
      BY <3>1 DEF DrainInv, FlushIdle
  <2>3. ASSUME phase = "flushing", flush'.failed = FALSE, NEW e \in Device
        PROVE  FlushedSoFar(e)'
    <3>1. flush.failed = FALSE
      <4>1. flush \in FlushStates
        BY TimerTypes
      <4>2. QED
        BY <1>3, <2>3, <4>1 DEF FlushStep, AdmitFlush, FlushMinute, FlushHourly, FlushStage, FlushStates
    <3>2. FlushedSoFar(e)
      BY <2>3, <3>1 DEF DrainInv
    <3>3. QED
      BY <1>3, <2>3, <3>2, FlushedStep
  <2>4. QED
    BY <2>1, <2>2, <2>3 DEF DrainInv
<1>4. ASSUME UNCHANGED <<phase, acc, flush, req>>
      PROVE  DrainInv'
  BY <1>4 DEF DrainInv, FlushedSoFar, Settled, FlushIdle
<1>5. CASE StartSweep \/ ListExpired \/ (\E d \in Device : SweepStep(d)) \/ Tick \/ UNCHANGED vars
  BY <1>4, <1>5 DEF StartSweep, ListExpired, SweepStep, MarkOffline, EnterSweep, NotifyOffline, Tick, vars
<1>6. CASE HttpDrained \/ FlushDrained \/ SweepDrained
  BY <1>6 DEF HttpDrained, FlushDrained, SweepDrained, DrainInv
<1>7. CASE LastFlush
  <2>1. \A d \in Device : /\ flush'.pc[d] = "none" => acc'[d] = NoAccs
                          /\ flush'.pc[d] # "hourly"
    BY <1>7 DEF LastFlush, CaptureFlush
  <2>2. \A d \in Device : FlushedSoFar(d)'
    BY <2>1 DEF FlushedSoFar, Settled, NoAccs, NoAcc, Kind
  <2>3. phase' = "flushing" /\ req' = req /\ phase = "lastFlush"
    BY <1>7 DEF LastFlush
  <2>4. QED
    BY <2>2, <2>3 DEF DrainInv
<1>8. CASE Stop
  BY <1>8 DEF Stop, DrainInv, FlushedSoFar, Settled, FlushIdle
<1>9. CASE Restart
  BY <1>9 DEF Restart, DrainInv
<1>10. QED
  BY <1>1, <1>2, <1>3, <1>5, <1>6, <1>7, <1>8, <1>9 DEF Next, Process

LEMMA DrainInvariant == Spec => []DrainInv
<1>1. Init => DrainInv
  BY DEF Init, DrainInv
<1>2. QED
  BY <1>1, DrainStep, TypeCorrect, PTL DEF Spec

\* When a shutdown has ended and its last flush reported no failure, every
\* published sample of an uninterrupted bucket is in the history rows: the
\* handlers are drained before the accumulators are captured, so each one the
\* flush dealt with is empty or carries no mark, and an accumulator without
\* the mark equals its row.
THEOREM StoppedIsDurableHolds == Spec => []StoppedIsDurable
<1>1. HistoryInv /\ DrainInv => StoppedIsDurable
  <2> SUFFICES ASSUME HistoryInv, DrainInv, phase = "down", flush.failed = FALSE,
                      NEW d \in Device, NEW k \in Kind, NEW ts \in published[d],
                      BucketOf(k, ts) \notin cut[d][k], Accumulated(d, k, ts)
               PROVE  Recorded(d, k, ts)
    <3>1. flush \in FlushStates \/ ~HistoryInv
      BY TimerTypes DEF HistoryInv
    <3>2. QED
      BY <3>1 DEF StoppedIsDurable, HistoryInv, NothingDropped, FlushStates
  <2>1. TypeOK /\ CleanIsWritten /\ RowBehind(d, k)
    BY DEF HistoryInv
  <2>2. Settled(d, k)
    BY DEF DrainInv, FlushIdle, FlushedSoFar, Kind
  <2>3. acc[d][k].samples # <<>> /\ acc[d][k].bucket = BucketOf(k, ts) /\ InSeq(ts, acc[d][k].samples)
    <3>1. acc[d][k].samples \in Seq(Timestamp)
      BY <2>1, DataTypes DEF Accs
    <3>2. QED
      BY <3>1 DEF Accumulated, InSeq
  <2>4. row[d][k][acc[d][k].bucket] = acc[d][k].samples
    BY <2>1, <2>2, <2>3, CleanIsRow DEF Settled
  <2>5. QED
    BY <2>3, <2>4 DEF Recorded
<1>2. QED
  BY <1>1, HistoryInvariant, DrainInvariant, PTL
=============================================================================
