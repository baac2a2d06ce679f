------------------------- MODULE MetricsLocksProofs -------------------------
(***************************************************************************)
(* Machine-checked theorems about MetricsService: what the nested queues   *)
(* of a device exclude, and what follows for the live state, removals and  *)
(* the consoles.                                                           *)
(***************************************************************************)
EXTENDS MetricsServiceProofs, FiniteSetTheorems

-----------------------------------------------------------------------------
(* What the queues hold *)

RemoveSteps == {"delete", "state", "remove", "clear"}
GroupSteps == {"locked", "update", "notify"}

\* The steps of a handler that is in no queue.
Outside == {"idle", "update"}

\* A handler is in the inner queue of a device only as the head of the outer
\* one.  It took its locks in id order: it is in the queues of no later device
\* than the one it works on, holds the earlier ones, and runs its body only
\* when it is in the queues of all its devices.
RequestInv(r) ==
    LET h == req[r] IN
    /\ \A d \in Device : InQueue(deviceQ, d, r) => AtHead(ingestQ, d, r)
    /\ \A d \in Device : InQueue(ingestQ, d, r) =>
          /\ h.pc \notin Outside /\ d \in h.devs
          /\ d # h.dev => d < h.dev /\ AtHead(deviceQ, d, r)
    /\ h.pc \notin Outside =>
          /\ h.dev \in h.devs /\ InQueue(ingestQ, h.dev, r)
          /\ InQueue(deviceQ, h.dev, r) <=> h.pc # "queued"
          /\ \A e \in h.devs : ~InQueue(ingestQ, e, r) => h.dev < e /\ h.pc \in {"queued", "locked"}

\* The steps of a handler belong to its kind; only updateDeviceGroup locks more
\* than one device.
KindInv(r) ==
    LET h == req[r] IN
    /\ h.pc = "idle" <=> h.op = "none"
    /\ h.pc \in IngestSteps => h.op = "ingest"
    /\ h.pc \in RemoveSteps => h.op = "remove"
    /\ h.pc \in GroupSteps => h.op = "group"
    /\ h.op \in {"ingest", "remove"} => h.devs = {h.dev}

\* The sweep waits for a device it marked; it ends when it waits for none.
SweepInv(d) ==
    /\ InQueue(ingestQ, d, "sweep") <=> sweep.pc[d] \in {"queued", "notify"}
    /\ InQueue(deviceQ, d, "sweep") <=> sweep.pc[d] = "notify"
    /\ InQueue(deviceQ, d, "sweep") => AtHead(ingestQ, d, "sweep")
    /\ sweep.running = FALSE => sweep.pc[d] = "none"

FlushInv(d) ==
    /\ ~InQueue(ingestQ, d, "flush")
    /\ InQueue(deviceQ, d, "flush") <=> flush.pc[d] \in {"minute", "hourly"}
    /\ phase \in {"drainSweep", "lastFlush"} => flush.pc[d] = "none"

\* No operation is in a queue twice.
OnceInv == \A d \in Device : Once(ingestQ[d]) /\ Once(deviceQ[d])

QueuesInv ==
    /\ OnceInv
    /\ \A r \in Requests : RequestInv(r) /\ KindInv(r)
    /\ \A d \in Device : SweepInv(d) /\ FlushInv(d)

LocksInv == TypeOK /\ QueuesInv

-----------------------------------------------------------------------------
(* Order of the uploads *)

IngestOf(r, d) == req[r].op = "ingest" /\ req[r].dev = d

\* x is before y in the queue.
Before(q, d, x, y) == \E i, j \in 1..Len(q[d]) : i < j /\ q[d][i] = x /\ q[d][j] = y

\* Uploads are queued in the order of their receivedAt.
QueuedInOrder ==
    \A d \in Device : \A x, y \in Requests :
        IngestOf(x, d) /\ IngestOf(y, d) /\ Before(ingestQ, d, x, y) => req[x].recv < req[y].recv

\* An upload that is not published yet was received after every published one,
\* and once it passed the stale-sample exit its sample stays the newest.
LaterThanLive ==
    \A r \in Requests : req[r].op = "ingest" =>
        LET h == req[r] IN
        /\ 0 < h.recv /\ h.recv <= now
        /\ live[h.dev].lastSeen <= h.recv
        /\ h.pc # "emit" => live[h.dev].lastSeen < h.recv
        /\ h.pc \in {"append", "minute", "hourly", "upsert"} => live[h.dev].ts < h.ts

\* What the sweep captured of a device it is about to mark: lastSeenAt tells
\* whether the device has reported since.
MarkInv ==
    sweep.at <= now /\ \A d \in Device : sweep.pc[d] = "mark" =>
        LET s == sweep.seen[d] IN
        /\ s.ts # 0 /\ sweep.at - s.lastSeen >= HeartbeatTimeout
        /\ s.lastSeen <= live[d].lastSeen \/ live[d].ts = 0
        /\ live[d].lastSeen = s.lastSeen /\ live[d].ts # 0 => live[d].ts = s.ts
        /\ \A r \in Requests : IngestOf(r, d) /\ req[r].pc # "emit" => s.lastSeen < req[r].recv

LiveInv ==
    \A d \in Device : /\ live[d].lastSeen <= now
                      /\ live[d].ts = 0 => live[d] = NoLive

OrderInv == LocksInv /\ QueuedInOrder /\ LaterThanLive /\ MarkInv /\ LiveInv

-----------------------------------------------------------------------------
(* Removals *)

RemovalOf(d, r, steps) == req[r].op = "remove" /\ req[r].dev = d /\ req[r].pc \in steps

NothingLeft(d) == live[d] = NoLive /\ acc[d] = NoAccs /\ \A w \in Window : series[d][w] = EmptySeries

\* The steps that rely on what an earlier step of the handler wrote.
Removing == {"state", "remove", "clear"}
Accepting == IngestSteps \ {"register"}

\* A closed device has nothing left, or a removal is on its way through, or a
\* failure cut one short; a device that was never opened has nothing at all.
RemovalInv(d) ==
    /\ \A w \in Window : series[d][w].list = <<>> => series[d][w] = EmptySeries
    /\ registry[d].status = "closed" /\ missed[d] = FALSE =>
          NothingLeft(d) \/ \E r \in Requests : RemovalOf(d, r, Removing)
    /\ registry[d].status = "absent" => NothingLeft(d)
    /\ \A r \in Requests : req[r].dev = d =>
          /\ req[r].pc \in {"remove", "clear"} => acc[d] = NoAccs
          /\ req[r].pc = "clear" => live[d] = NoLive
          /\ req[r].pc \in Removing => registry[d].status = "closed"
          /\ req[r].pc \in Accepting => registry[d].status = "open"

GoneInv == OrderInv /\ \A d \in Device : RemovalInv(d)

-----------------------------------------------------------------------------
(* Consoles *)

\* The sweep will still announce that d is offline.
AnnouncePending(d) == sweep.pc[d] \in {"queued", "notify"} /\ StillOffline(d)

\* The group update r will still announce the group that d has now.
GroupPending(d, r) ==
    /\ req[r].op = "group" /\ req[r].pc # "update" /\ d \in req[r].todo
    /\ req[r].half[d] = "record" => req[r].rec[d].group = registry[d].group

\* The upload r will still announce its reading of d.
EmitPending(d, r) == IngestOf(r, d) /\ req[r].pc = "emit"

\* The removal r will still announce that d is gone.
GonePending(d, r) == RemovalOf(d, r, {"clear"}) /\ req[r].seen[d].ts # 0

GroupKnown(d, g) == g = registry[d].group \/ \E r \in Requests : GroupPending(d, r)

\* s shows the reading of d, and whether it is online unless the sweep will.
ReadingKnown(d, s) == s.ts = live[d].ts /\ (s.status = live[d].status \/ AnnouncePending(d))

\* A group update works through its devices, and reads them under all its locks.
GroupShape(r) ==
    req[r].op = "group" =>
        /\ req[r].todo \subseteq req[r].devs
        /\ req[r].pc = "update" => req[r].todo = req[r].devs
        /\ \A d \in Device : req[r].half[d] # "none" => req[r].pc = "notify"

\* The half of the notification of d that r has read is still right.
NotifyOk(d, r) ==
    req[r].op = "group" /\ d \in req[r].todo =>
        /\ req[r].half[d] = "live" => ReadingKnown(d, req[r].seen[d])
        /\ req[r].half[d] = "record" =>
              req[r].rec[d].status = registry[d].status /\ GroupKnown(d, req[r].rec[d].group)

\* So is what the upload r is about to announce.
EmitOk(d, r) ==
    req[r].dev = d =>
        /\ req[r].pc \in Accepting => GroupKnown(d, req[r].rec[d].group)
        /\ req[r].pc = "emit" => ReadingKnown(d, [ts |-> req[r].ts, status |-> "online"])

\* What the removal r has read tells whether there was a reading to take back.
SeenOk(d, r) ==
    req[r].dev = d /\ req[r].pc = "remove" => (req[r].seen[d].ts = 0 <=> live[d].ts = 0)

\* The console shows the device as it is, unless something in flight corrects it.
Shown(d) ==
    registry[d].status = "open" /\ live[d].ts # 0 =>
        \/ \E r \in Requests : EmitPending(d, r)
        \/ view[d].kind = "state" /\ ReadingKnown(d, view[d]) /\ GroupKnown(d, view[d].group)

\* It shows no reading of a device without live state.
Hidden(d) ==
    live[d].ts = 0 =>
        \/ \E r \in Requests : GonePending(d, r)
        \/ ~(view[d].kind = "state" /\ view[d].ts # 0)

ConsoleInv(d) ==
    missed[d] = FALSE =>
        /\ \A r \in Requests : NotifyOk(d, r) /\ EmitOk(d, r) /\ SeenOk(d, r)
        /\ Shown(d) /\ Hidden(d)

\* What the handler r has to do with the device d goes on.
RoleKept(d, r) ==
    LET h == req[r] IN
    /\ GroupPending(d, r) => GroupPending(d, r)'
    /\ EmitPending(d, r) => EmitPending(d, r)'
    /\ GonePending(d, r) => GonePending(d, r)'
    /\ h'.op = "group" /\ d \in h'.todo /\ h'.half[d] # "none" =>
          /\ h.op = "group" /\ d \in h.todo /\ h.half[d] = h'.half[d]
          /\ h.seen[d] = h'.seen[d] /\ h.rec[d] = h'.rec[d]
    /\ h'.dev = d /\ h'.pc \in Accepting =>
          /\ h.dev = d /\ h.pc \in Accepting /\ h.rec[d] = h'.rec[d]
          /\ h'.pc = "emit" => h.pc = "emit" /\ h.ts = h'.ts
    /\ h'.dev = d /\ h'.pc = "remove" => h.dev = d /\ h.pc = "remove" /\ h.seen[d] = h'.seen[d]

ViewInv ==
    /\ GoneInv
    /\ \A r \in Requests : GroupShape(r)
    /\ \A d \in Device : ConsoleInv(d)

-----------------------------------------------------------------------------
(* Queues *)

LEMMA HeadFacts ==
    ASSUME NEW q \in Queues, NEW d \in Device
    PROVE  /\ \A x : AtHead(q, d, x) => InQueue(q, d, x)
           /\ \A x, y : AtHead(q, d, x) /\ AtHead(q, d, y) => x = y
           /\ q[d] # <<>> => AtHead(q, d, Head(q[d])) /\ Head(q[d]) \in Operators
BY DEF AtHead, InQueue, Queues

\* An operation that is admitted joins the end of one queue.
LEMMA AdmitFacts ==
    ASSUME NEW q \in Queues, NEW d \in Device, NEW op \in Operators, ~InQueue(q, d, op),
           \A e \in Device : Once(q[e])
    PROVE  /\ Admit(q, d, op) \in Queues
           /\ \A e \in Device : Once(Admit(q, d, op)[e])
           /\ \A e \in Device : \A x : InQueue(Admit(q, d, op), e, x) <=> (InQueue(q, e, x) \/ (e = d /\ x = op))
           /\ \A e \in Device : \A x : AtHead(q, e, x) => AtHead(Admit(q, d, op), e, x)
           /\ \A e \in Device : \A x, y : Before(Admit(q, d, op), e, x, y) =>
                 Before(q, e, x, y) \/ (e = d /\ y = op /\ InQueue(q, d, x))
<1> DEFINE a == Admit(q, d, op)
<1>1. a \in Queues
  BY AdmitType
<1>2. \A e \in Device : e # d => a[e] = q[e]
  BY DEF Admit, Queues
<1>3. a[d] = Append(q[d], op) /\ q[d] \in Seq(Operators)
  BY DEF Admit, Queues
<1>4. /\ Len(a[d]) = Len(q[d]) + 1 /\ Len(q[d]) \in Nat
      /\ a[d][Len(q[d]) + 1] = op
      /\ \A i \in 1..Len(q[d]) : a[d][i] = q[d][i]
  BY <1>3
<1>5. \A i \in 1..Len(a[d]) : i \in 1..Len(q[d]) \/ i = Len(q[d]) + 1
  BY <1>4
<1> HIDE DEF a
<1>6. \A e \in Device : Once(a[e])
  <2>1. Once(a[d])
    <3>1. \A i \in 1..Len(q[d]) : q[d][i] # op
      BY DEF InQueue
    <3>2. \A i, j \in 1..Len(q[d]) : q[d][i] = q[d][j] => i = j
      BY DEF Once
    <3>3. QED
      BY <1>4, <1>5, <3>1, <3>2 DEF Once
  <2>2. QED
    BY <1>2, <2>1
<1>7. \A x : InQueue(a, d, x) <=> InQueue(q, d, x) \/ x = op
  BY <1>4, <1>5 DEF InQueue
<1>8. \A e \in Device : \A x : e # d => (InQueue(a, e, x) <=> InQueue(q, e, x)) /\ (AtHead(a, e, x) <=> AtHead(q, e, x))
                              /\ (\A y : Before(a, e, x, y) <=> Before(q, e, x, y))
  BY <1>2 DEF InQueue, AtHead, Before
<1>9. \A x : AtHead(q, d, x) => AtHead(a, d, x)
  BY <1>3, <1>4 DEF AtHead
<1>10. ASSUME NEW x, NEW y, Before(a, d, x, y)
       PROVE  Before(q, d, x, y) \/ (y = op /\ InQueue(q, d, x))
  <2>1. PICK i \in 1..Len(a[d]), j \in 1..Len(a[d]) : i < j /\ a[d][i] = x /\ a[d][j] = y
    BY <1>10 DEF Before
  <2>2. i \in 1..Len(q[d])
    BY <1>4, <1>5, <2>1
  <2>3. CASE j \in 1..Len(q[d])
    BY <1>4, <2>1, <2>2, <2>3 DEF Before
  <2>4. CASE j = Len(q[d]) + 1
    BY <1>4, <2>1, <2>2, <2>4 DEF InQueue
  <2>5. QED
    BY <1>5, <2>3, <2>4
<1>11. QED
  BY <1>1, <1>6, <1>7, <1>8, <1>9, <1>10 DEF a

\* The head of a queue leaves it.
LEMMA TailFacts ==
    ASSUME NEW s \in Seq(Operators), s # <<>>, Once(s)
    PROVE  /\ Once(Tail(s)) /\ Tail(s) \in Seq(Operators)
           /\ \A x : (\E i \in 1..Len(Tail(s)) : Tail(s)[i] = x) <=> (\E i \in 1..Len(s) : s[i] = x) /\ x # Head(s)
           /\ \A i \in 1..Len(Tail(s)) : i + 1 \in 1..Len(s) /\ Tail(s)[i] = s[i + 1]
<1>1. /\ Len(s) \in Nat /\ Len(s) > 0 /\ Len(Tail(s)) = Len(s) - 1 /\ Head(s) = s[1]
      /\ \A i \in 1..(Len(s) - 1) : Tail(s)[i] = s[i + 1]
      /\ Tail(s) \in Seq(Operators)
  OBVIOUS
<1>2. \A i, j \in 1..Len(s) : s[i] = s[j] => i = j
  BY DEF Once
<1>3. \A i \in 1..(Len(s) - 1) : i + 1 \in 1..Len(s) /\ i + 1 # 1
  BY <1>1
<1>4. Once(Tail(s))
  BY <1>1, <1>2, <1>3 DEF Once
<1>5. \A x : (\E i \in 1..Len(Tail(s)) : Tail(s)[i] = x) => (\E i \in 1..Len(s) : s[i] = x) /\ x # Head(s)
  BY <1>1, <1>2, <1>3
<1>6. ASSUME NEW i \in 1..Len(s), s[i] # Head(s) PROVE \E j \in 1..Len(Tail(s)) : Tail(s)[j] = s[i]
  <2>1. i - 1 \in 1..(Len(s) - 1) /\ (i - 1) + 1 = i
    BY <1>1, <1>6
  <2>2. Tail(s)[i - 1] = s[i]
    BY <1>1, <2>1
  <2>3. QED
    BY <1>1, <2>1, <2>2
<1>7. QED
  BY <1>1, <1>3, <1>4, <1>5, <1>6

\* The queues after the head of the queue of d left.
Popped(q, d) == [q EXCEPT ![d] = Tail(@)]

LEMMA PopFacts ==
    ASSUME NEW q \in Queues, NEW d \in Device, NEW op, AtHead(q, d, op), \A e \in Device : Once(q[e])
    PROVE  /\ Popped(q, d) \in Queues
           /\ \A e \in Device : Once(Popped(q, d)[e])
           /\ \A e \in Device : \A x : InQueue(Popped(q, d), e, x) <=> (InQueue(q, e, x) /\ ~(e = d /\ x = op))
           /\ \A e \in Device : \A x : AtHead(q, e, x) /\ ~(e = d /\ x = op) => AtHead(Popped(q, d), e, x)
           /\ \A e \in Device : \A x, y : Before(Popped(q, d), e, x, y) => Before(q, e, x, y)
<1> DEFINE p == Popped(q, d)
           s == q[d]
<1>1. s \in Seq(Operators) /\ s # <<>> /\ Head(s) = op /\ Once(s)
  BY DEF AtHead, Queues
<1>2. /\ Once(Tail(s)) /\ Tail(s) \in Seq(Operators)
      /\ \A x : (\E i \in 1..Len(Tail(s)) : Tail(s)[i] = x) <=> ((\E i \in 1..Len(s) : s[i] = x) /\ x # op)
      /\ \A i \in 1..Len(Tail(s)) : i + 1 \in 1..Len(s) /\ Tail(s)[i] = s[i + 1]
  BY <1>1, TailFacts
<1>3. p[d] = Tail(s) /\ \A e \in Device : e # d => p[e] = q[e]
  BY DEF Popped, Queues
<1>4. p \in Queues
  BY <1>2 DEF Popped, Queues
<1> HIDE DEF p
<1>5. \A e \in Device : Once(p[e])
  BY <1>2, <1>3
<1>6. \A e \in Device : \A x : InQueue(p, e, x) <=> (InQueue(q, e, x) /\ ~(e = d /\ x = op))
  BY <1>2, <1>3 DEF InQueue
<1>7. \A e \in Device : \A x : AtHead(q, e, x) /\ ~(e = d /\ x = op) => AtHead(p, e, x)
  BY <1>1, <1>3 DEF AtHead
<1>8. ASSUME NEW x, NEW y, Before(p, d, x, y) PROVE Before(q, d, x, y)
  <2>1. PICK i \in 1..Len(Tail(s)), j \in 1..Len(Tail(s)) : i < j /\ Tail(s)[i] = x /\ Tail(s)[j] = y
    BY <1>3, <1>8 DEF Before
  <2>2. i + 1 \in 1..Len(s) /\ j + 1 \in 1..Len(s) /\ i + 1 < j + 1 /\ s[i + 1] = x /\ s[j + 1] = y
    BY <1>2, <2>1
  <2>3. QED
    BY <2>2 DEF Before
<1>9. ASSUME NEW e \in Device, NEW x, NEW y, Before(p, e, x, y) PROVE Before(q, e, x, y)
  <2>1. CASE e = d
    BY <1>8, <1>9, <2>1
  <2>2. CASE e # d
    BY <1>3, <1>9, <2>2 DEF Before
  <2>3. QED
    BY <2>1, <2>2
<1>10. QED
  BY <1>4, <1>5, <1>6, <1>7, <1>9 DEF p

\* The handler that ends leaves every queue it is the head of.
LEMMA LeaveFacts ==
    ASSUME NEW q \in Queues, NEW op, \A e \in Device : Once(q[e])
    PROVE  /\ Leave(q, op) \in Queues
           /\ \A e \in Device : Once(Leave(q, op)[e])
           /\ \A e \in Device : \A x : InQueue(Leave(q, op), e, x) <=> (InQueue(q, e, x) /\ ~(x = op /\ AtHead(q, e, op)))
           /\ \A e \in Device : \A x : AtHead(q, e, x) /\ x # op => AtHead(Leave(q, op), e, x)
           /\ \A e \in Device : \A x, y : Before(Leave(q, op), e, x, y) => Before(q, e, x, y)
<1> DEFINE l == Leave(q, op)
<1>1. l \in Queues
  BY LeaveType
<1>2. ASSUME NEW e \in Device
      PROVE  /\ Once(l[e])
             /\ \A x : InQueue(l, e, x) <=> (InQueue(q, e, x) /\ ~(x = op /\ AtHead(q, e, op)))
             /\ \A x : AtHead(q, e, x) /\ x # op => AtHead(l, e, x)
             /\ \A x, y : Before(l, e, x, y) => Before(q, e, x, y)
  <2>1. CASE ~AtHead(q, e, op)
    <3>1. l[e] = q[e]
      BY <2>1 DEF Leave
    <3>2. QED
      BY <2>1, <3>1 DEF InQueue, AtHead, Before
  <2>2. CASE AtHead(q, e, op)
    <3> DEFINE p == Popped(q, e)
    <3>1. l[e] = p[e]
      BY <2>2 DEF Leave, Popped, Queues
    <3>2. /\ Once(p[e])
          /\ \A x : InQueue(p, e, x) <=> (InQueue(q, e, x) /\ x # op)
          /\ \A x : AtHead(q, e, x) /\ x # op => AtHead(p, e, x)
          /\ \A x, y : Before(p, e, x, y) => Before(q, e, x, y)
      BY <2>2, PopFacts
    <3> HIDE DEF p, l
    <3>3. /\ \A x : InQueue(l, e, x) <=> InQueue(p, e, x)
          /\ \A x : AtHead(l, e, x) <=> AtHead(p, e, x)
          /\ \A x, y : Before(l, e, x, y) <=> Before(p, e, x, y)
      BY <3>1 DEF InQueue, AtHead, Before
    <3>4. QED
      BY <2>2, <3>1, <3>2, <3>3
  <2>3. QED
    BY <2>1, <2>2
<1> HIDE DEF l
<1>3. QED
  BY <1>1, <1>2 DEF l

-----------------------------------------------------------------------------
(* Steps that leave an operation where it is *)

SamePlace(op) ==
    \A d \in Device :
        /\ InQueue(ingestQ', d, op) <=> InQueue(ingestQ, d, op)
        /\ InQueue(deviceQ', d, op) <=> InQueue(deviceQ, d, op)
        /\ AtHead(ingestQ, d, op) => AtHead(ingestQ', d, op)
        /\ AtHead(deviceQ, d, op) => AtHead(deviceQ', d, op)

\* The handler goes on, at most to another step of its kind.
Advances(r) ==
    /\ req'[r].op = req[r].op /\ req'[r].dev = req[r].dev /\ req'[r].devs = req[r].devs
    /\ \/ req'[r].pc = req[r].pc
       \/ req[r].pc \in IngestSteps /\ req'[r].pc \in IngestSteps
       \/ req[r].pc \in RemoveSteps /\ req'[r].pc \in RemoveSteps

SameTimers == UNCHANGED <<phase, flush, sweep>>

LEMMA HandlerStays ==
    ASSUME LocksInv, NEW r \in Requests, Advances(r), SamePlace(r)
    PROVE  RequestInv(r)' /\ KindInv(r)'
<1>1. /\ req'[r].op = req[r].op /\ req'[r].dev = req[r].dev /\ req'[r].devs = req[r].devs
      /\ req'[r].pc \in Outside <=> req[r].pc \in Outside
      /\ req'[r].pc = "queued" <=> req[r].pc = "queued"
      /\ req'[r].pc = "locked" <=> req[r].pc = "locked"
      /\ req'[r].pc = "idle" <=> req[r].pc = "idle"
  BY DEF Advances, Outside, IngestSteps, RemoveSteps
<1>2. KindInv(r)'
  BY <1>1 DEF LocksInv, QueuesInv, KindInv, Advances, IngestSteps, RemoveSteps, GroupSteps
<1>3. /\ \A d \in Device : InQueue(deviceQ', d, r) => AtHead(ingestQ', d, r)
      /\ \A d \in Device : InQueue(ingestQ', d, r) =>
            /\ req'[r].pc \notin Outside /\ d \in req'[r].devs
            /\ d # req'[r].dev => d < req'[r].dev /\ AtHead(deviceQ', d, r)
  BY <1>1 DEF LocksInv, QueuesInv, RequestInv, SamePlace
<1>4. req'[r].pc \notin Outside =>
          /\ req'[r].dev \in req'[r].devs /\ InQueue(ingestQ', req'[r].dev, r)
          /\ InQueue(deviceQ', req'[r].dev, r) <=> req'[r].pc # "queued"
          /\ \A e \in req'[r].devs : ~InQueue(ingestQ', e, r) => req'[r].dev < e /\ req'[r].pc \in {"queued", "locked"}
  <2>1. req[r].dev \in Device /\ req[r].devs \subseteq Device
    BY ServiceTypes DEF LocksInv
  <2>2. QED
    BY <1>1, <2>1 DEF LocksInv, QueuesInv, RequestInv, SamePlace
<1>5. QED
  BY <1>2, <1>3, <1>4 DEF RequestInv

LEMMA TimersStay ==
    ASSUME LocksInv, SameTimers, SamePlace("sweep"), SamePlace("flush")
    PROVE  \A d \in Device : SweepInv(d)' /\ FlushInv(d)'
BY DEF LocksInv, QueuesInv, SameTimers, SamePlace, SweepInv, FlushInv

\* Nothing is admitted and nothing leaves.
LEMMA QueuesStay ==
    ASSUME LocksInv, UNCHANGED <<ingestQ, deviceQ>>, \A r \in Requests : Advances(r),
           \A d \in Device : SweepInv(d)' /\ FlushInv(d)'
    PROVE  QueuesInv'
<1>1. \A op : SamePlace(op)
  BY DEF SamePlace
<1>2. QED
  BY <1>1, HandlerStays DEF LocksInv, QueuesInv, OnceInv

\* One handler goes on, in one step of its kind.
LEMMA AdvanceStep ==
    ASSUME LocksInv, NEW r \in Requests, NEW h, req' = [req EXCEPT ![r] = h],
           h.op = req[r].op, h.dev = req[r].dev, h.devs = req[r].devs,
           \/ h.pc = req[r].pc
           \/ req[r].pc \in IngestSteps /\ h.pc \in IngestSteps
           \/ req[r].pc \in RemoveSteps /\ h.pc \in RemoveSteps,
           UNCHANGED <<ingestQ, deviceQ>>, SameTimers
    PROVE  QueuesInv'
<1>1. \A x \in Requests : req'[x] = IF x = r THEN h ELSE req[x]
  BY DEF LocksInv, TypeOK
<1>2. \A x \in Requests : Advances(x)
  BY <1>1 DEF Advances
<1>3. \A op : SamePlace(op)
  BY DEF SamePlace
<1>4. QED
  BY <1>2, <1>3, TimersStay, QueuesStay DEF LocksInv

\* The parts of QueuesInv after a step in which only op moves.
LEMMA OthersStay ==
    ASSUME LocksInv, NEW op, \A x \in Operators \ {op} : SamePlace(x),
           \A x \in Requests \ {op} : req'[x] = req[x]
    PROVE  /\ \A r \in Requests \ {op} : RequestInv(r)' /\ KindInv(r)'
           /\ op \notin {"sweep", "flush"} /\ SameTimers => \A d \in Device : SweepInv(d)' /\ FlushInv(d)'
<1>1. \A r \in Requests \ {op} : r \in Operators /\ Advances(r)
  BY DEF Operators, Advances
<1>2. \A r \in Requests \ {op} : RequestInv(r)' /\ KindInv(r)'
  BY <1>1, HandlerStays
<1>3. "sweep" \in Operators /\ "flush" \in Operators
  BY DEF Operators
<1>4. QED
  BY <1>2, <1>3, TimersStay

-----------------------------------------------------------------------------
(* The end of a handler *)

LEMMA ReleasePlaces ==
    ASSUME LocksInv, NEW r \in Requests, Release(r),
           \/ AtHead(deviceQ, req[r].dev, r)
           \/ req[r].pc = "queued" /\ AtHead(ingestQ, req[r].dev, r)
    PROVE  /\ OnceInv'
           /\ \A x \in Operators \ {r} : SamePlace(x)
           /\ \A d \in Device : ~InQueue(ingestQ', d, r) /\ ~InQueue(deviceQ', d, r)
           /\ req'[r] = Idle /\ \A x \in Requests \ {r} : req'[x] = req[x]
<1>1. /\ ingestQ \in Queues /\ deviceQ \in Queues
      /\ \A e \in Device : Once(ingestQ[e]) /\ Once(deviceQ[e])
  BY ServiceTypes DEF LocksInv, QueuesInv, OnceInv
<1>2. ingestQ' = Leave(ingestQ, r) /\ deviceQ' = Leave(deviceQ, r)
  BY DEF Release
<1>3. req'[r] = Idle /\ \A x \in Requests \ {r} : req'[x] = req[x]
  BY DEF Release, LocksInv, TypeOK
<1>4. ASSUME NEW d \in Device
      PROVE  /\ InQueue(ingestQ, d, r) => AtHead(ingestQ, d, r)
             /\ InQueue(deviceQ, d, r) => AtHead(deviceQ, d, r)
  <2>1. RequestInv(r) /\ req[r].dev \in Device
    BY ServiceTypes DEF LocksInv, QueuesInv
  <2>2. /\ InQueue(deviceQ, d, r) => AtHead(ingestQ, d, r)
        /\ InQueue(ingestQ, d, r) /\ d # req[r].dev => AtHead(deviceQ, d, r)
        /\ req[r].pc = "queued" => ~InQueue(deviceQ, req[r].dev, r)
    BY <2>1 DEF RequestInv, Outside
  <2>3. /\ AtHead(ingestQ, d, r) => InQueue(ingestQ, d, r)
        /\ AtHead(deviceQ, d, r) => InQueue(deviceQ, d, r)
    BY <1>1, HeadFacts
  <2>4. QED
    BY <2>2, <2>3
<1>5. \A d \in Device : ~InQueue(ingestQ', d, r) /\ ~InQueue(deviceQ', d, r)
  BY <1>1, <1>2, <1>4, LeaveFacts
<1>6. \A x \in Operators \ {r} : SamePlace(x)
  BY <1>1, <1>2, LeaveFacts DEF SamePlace
<1>7. OnceInv'
  BY <1>1, <1>2, LeaveFacts DEF OnceInv
<1>8. QED
  BY <1>3, <1>5, <1>6, <1>7

LEMMA ReleaseStep ==
    ASSUME LocksInv, NEW r \in Requests, Release(r), SameTimers,
           \/ AtHead(deviceQ, req[r].dev, r)
           \/ req[r].pc = "queued" /\ AtHead(ingestQ, req[r].dev, r)
    PROVE  QueuesInv'
<1>1. /\ OnceInv'
      /\ \A x \in Operators \ {r} : SamePlace(x)
      /\ \A d \in Device : ~InQueue(ingestQ', d, r) /\ ~InQueue(deviceQ', d, r)
      /\ req'[r] = Idle /\ \A x \in Requests \ {r} : req'[x] = req[x]
  BY ReleasePlaces
<1>2. RequestInv(r)' /\ KindInv(r)'
  <2>1. Idle.pc = "idle" /\ Idle.op = "none"
    BY DEF Idle
  <2>2. RequestInv(r)'
    BY <1>1, <2>1 DEF RequestInv, Outside
  <2>3. KindInv(r)'
    BY <1>1, <2>1 DEF KindInv, IngestSteps, RemoveSteps, GroupSteps
  <2>4. QED
    BY <2>2, <2>3
<1>3. r \notin {"sweep", "flush"}
  BY MetricsAssumption
<1>4. QED
  BY <1>1, <1>2, <1>3, OthersStay DEF LocksInv, QueuesInv

-----------------------------------------------------------------------------
(* A handler queues for a device *)

LEMMA EnqueueStep ==
    ASSUME LocksInv, NEW r \in Requests, NEW d \in Device, NEW h,
           ingestQ' = Admit(ingestQ, d, r), UNCHANGED deviceQ, req' = [req EXCEPT ![r] = h], SameTimers,
           ~InQueue(ingestQ, d, r),
           h.pc = "queued", h.dev = d, d \in h.devs, h.devs \subseteq Device,
           h.op # "none", h.op \in {"ingest", "remove"} => h.devs = {d},
           \A e \in Device : InQueue(ingestQ, e, r) => e < d /\ e \in h.devs /\ AtHead(deviceQ, e, r),
           \A e \in h.devs : e # d /\ ~InQueue(ingestQ, e, r) => d < e
    PROVE  QueuesInv'
<1>1. /\ ingestQ \in Queues /\ deviceQ \in Queues /\ r \in Operators
      /\ \A e \in Device : Once(ingestQ[e]) /\ Once(deviceQ[e])
  BY ServiceTypes DEF LocksInv, QueuesInv, OnceInv
<1>2. /\ \A e \in Device : Once(ingestQ'[e])
      /\ \A e \in Device : \A x : InQueue(ingestQ', e, x) <=> (InQueue(ingestQ, e, x) \/ (e = d /\ x = r))
      /\ \A e \in Device : \A x : AtHead(ingestQ, e, x) => AtHead(ingestQ', e, x)
  BY <1>1, AdmitFacts
<1>3. req'[r] = h /\ \A x \in Requests \ {r} : req'[x] = req[x]
  BY DEF LocksInv, TypeOK
<1>4. OnceInv'
  BY <1>1, <1>2 DEF OnceInv
<1>5. \A x \in Operators \ {r} : SamePlace(x)
  BY <1>2 DEF SamePlace
<1>6. r \notin {"sweep", "flush"}
  BY MetricsAssumption
<1>7. KindInv(r)'
  BY <1>3 DEF KindInv, IngestSteps, RemoveSteps, GroupSteps
<1>8. RequestInv(r)'
  <2>1. \A e \in Device : InQueue(deviceQ, e, r) => AtHead(ingestQ, e, r) /\ InQueue(ingestQ, e, r)
    BY <1>1, HeadFacts DEF LocksInv, QueuesInv, RequestInv
  <2>2. h.pc \notin Outside
    BY DEF Outside
  <2>3. \A e \in Device : InQueue(deviceQ', e, r) => AtHead(ingestQ', e, r)
    BY <1>2, <2>1
  <2>4. \A e \in Device : InQueue(ingestQ', e, r) => e \in h.devs /\ (e # d => e < d /\ AtHead(deviceQ', e, r))
    BY <1>2
  <2>5. InQueue(ingestQ', d, r) /\ ~InQueue(deviceQ', d, r)
    BY <1>2, <2>1
  <2>6. \A e \in h.devs : ~InQueue(ingestQ', e, r) => d < e
    BY <1>2
  <2>7. QED
    BY <1>3, <2>2, <2>3, <2>4, <2>5, <2>6 DEF RequestInv
<1>9. QED
  BY <1>4, <1>5, <1>6, <1>3, <1>7, <1>8, OthersStay DEF QueuesInv

\* A handler that is in no queue takes another step outside.
LEMMA OutsideStep ==
    ASSUME LocksInv, NEW r \in Requests, NEW h, req[r].pc \in Outside,
           UNCHANGED <<ingestQ, deviceQ>>, req' = [req EXCEPT ![r] = h], SameTimers,
           h = Idle \/ (h.pc = "update" /\ h.op = "group")
    PROVE  QueuesInv'
<1>1. req'[r] = h /\ \A x \in Requests \ {r} : req'[x] = req[x]
  BY DEF LocksInv, TypeOK
<1>2. \A x : SamePlace(x)
  BY DEF SamePlace
<1>3. r \notin {"sweep", "flush"}
  BY MetricsAssumption
<1>4. /\ h.pc \in Outside /\ (h.pc = "idle" <=> h.op = "none")
      /\ h.op \notin {"ingest", "remove"} /\ (h.pc = "update" => h.op = "group")
      /\ h.pc \notin IngestSteps /\ h.pc \notin RemoveSteps /\ h.pc # "notify" /\ h.pc # "locked"
  BY DEF Idle, Outside, IngestSteps, RemoveSteps
<1>5. KindInv(r)'
  BY <1>1, <1>4 DEF KindInv, GroupSteps
<1>6. RequestInv(r)'
  <2>1. /\ \A d \in Device : InQueue(deviceQ, d, r) => AtHead(ingestQ, d, r)
        /\ \A d \in Device : ~InQueue(ingestQ, d, r)
    BY DEF LocksInv, QueuesInv, RequestInv
  <2>2. QED
    BY <1>1, <1>4, <2>1 DEF RequestInv
<1>7. QED
  BY <1>1, <1>2, <1>3, <1>5, <1>6, OthersStay DEF LocksInv, QueuesInv, OnceInv

LEMMA SubmitStep ==
    ASSUME LocksInv, NEW r \in Requests, Submit(r)
    PROVE  QueuesInv'
<1>1. req[r].pc = "idle"
  BY DEF Submit, SubmitIngest, SubmitRemove, SubmitGroup, Receives
<1>2. \A e \in Device : ~InQueue(ingestQ, e, r)
  BY <1>1 DEF LocksInv, QueuesInv, RequestInv, Outside
<1>3. ASSUME NEW d \in Device, NEW h, h.pc = "queued", h.dev = d, h.devs = {d}, h.op # "none",
             ingestQ' = Admit(ingestQ, d, r), UNCHANGED deviceQ, req' = [req EXCEPT ![r] = h], SameTimers
      PROVE  QueuesInv'
  <2>1. d \in h.devs /\ h.devs \subseteq Device /\ ~InQueue(ingestQ, d, r)
    BY <1>2, <1>3
  <2>2. \A e \in Device : InQueue(ingestQ, e, r) => e < d /\ e \in h.devs /\ AtHead(deviceQ, e, r)
    BY <1>2
  <2>3. \A e \in h.devs : e # d /\ ~InQueue(ingestQ, e, r) => d < e
    BY <1>3
  <2>4. QED
    BY <1>3, <2>1, <2>2, <2>3, EnqueueStep
<1>4. CASE UNCHANGED <<ingestQ, deviceQ, req>> /\ SameTimers
  <2>1. \A x \in Requests : Advances(x)
    BY <1>4 DEF Advances
  <2>2. \A x : SamePlace(x)
    BY <1>4 DEF SamePlace
  <2>3. QED
    BY <1>4, <2>1, <2>2, TimersStay, QueuesStay
<1>5. ASSUME NEW d \in Device, NEW ts \in Timestamp, SubmitIngest(r, d, ts) PROVE QueuesInv'
  <2> DEFINE h == [Idle EXCEPT !.op = "ingest", !.pc = "queued", !.dev = d, !.devs = {d}, !.ts = ts, !.recv = now']
  <2>1. h.pc = "queued" /\ h.dev = d /\ h.devs = {d} /\ h.op = "ingest"
    BY DEF Idle
  <2>2. SameTimers /\ UNCHANGED deviceQ
    BY <1>5 DEF SubmitIngest, SameTimers
  <2>3. \/ UNCHANGED <<req, ingestQ>>
        \/ ingestQ' = Admit(ingestQ, d, r) /\ req' = [req EXCEPT ![r] = h]
    BY <1>5 DEF SubmitIngest
  <2> HIDE DEF h
  <2>4. QED
    BY <1>3, <1>4, <2>1, <2>2, <2>3
<1>6. ASSUME NEW d \in Device, SubmitRemove(r, d) PROVE QueuesInv'
  <2> DEFINE h == [Idle EXCEPT !.op = "remove", !.pc = "queued", !.dev = d, !.devs = {d}]
  <2>1. h.pc = "queued" /\ h.dev = d /\ h.devs = {d} /\ h.op = "remove"
    BY DEF Idle
  <2>2. SameTimers /\ UNCHANGED deviceQ
    BY <1>6 DEF SubmitRemove, SameTimers
  <2>3. \/ UNCHANGED <<req, ingestQ>>
        \/ ingestQ' = Admit(ingestQ, d, r) /\ req' = [req EXCEPT ![r] = h]
    BY <1>6 DEF SubmitRemove
  <2> HIDE DEF h
  <2>4. QED
    BY <1>3, <1>4, <2>1, <2>2, <2>3
<1>7. ASSUME NEW D, NEW g, SubmitGroup(r, D, g) PROVE QueuesInv'
  <2> DEFINE h == [Idle EXCEPT !.op = "group", !.pc = "update", !.devs = D, !.todo = D, !.group = g]
  <2>1. h.pc = "update" /\ h.op = "group"
    BY DEF Idle
  <2>2. SameTimers /\ UNCHANGED <<ingestQ, deviceQ>> /\ req' = [req EXCEPT ![r] = h] /\ req[r].pc \in Outside
    BY <1>1, <1>7 DEF SubmitGroup, SameTimers, Outside
  <2> HIDE DEF h
  <2>3. QED
    BY <2>1, <2>2, OutsideStep
<1>8. QED
  BY <1>5, <1>6, <1>7 DEF Submit

LEMMA UnlockedFacts ==
    ASSUME NEW r
    PROVE  Unlocked(r) = {e \in req[r].devs : ~InQueue(ingestQ, e, r)}
BY DEF Unlocked, InQueue

\* The inner queue admits the handler at the head of the outer one.
LEMMA EnterStep ==
    ASSUME LocksInv, NEW r \in Requests, EnterDeviceQueue(r)
    PROVE  QueuesInv'
<1> DEFINE d == req[r].dev
           pc == IF Unlocked(r) = {} THEN FirstStep(req[r].op) ELSE "locked"
           h == [req[r] EXCEPT !.pc = pc]
<1>1. /\ d \in Device /\ r \in Operators /\ req[r] \in Handlers
      /\ ingestQ \in Queues /\ deviceQ \in Queues
      /\ \A e \in Device : Once(ingestQ[e]) /\ Once(deviceQ[e])
      /\ RequestInv(r) /\ KindInv(r)
  BY ServiceTypes DEF LocksInv, QueuesInv, OnceInv
<1>2. req[r].pc = "queued" /\ AtHead(ingestQ, d, r) /\ SameTimers
  BY DEF EnterDeviceQueue, SameTimers
<1>3. CASE Release(r)
  BY <1>2, <1>3, ReleaseStep
<1>4. CASE deviceQ' = Admit(deviceQ, d, r) /\ GoTo(r, pc) /\ UNCHANGED ingestQ
  <2>1. /\ h.op = req[r].op /\ h.dev = d /\ h.devs = req[r].devs /\ h.pc = pc
        /\ req[r].op \in {"none", "ingest", "remove", "group"}
    BY <1>1 DEF Handlers
  <2>2. req'[r] = h /\ \A x \in Requests \ {r} : req'[x] = req[x]
    BY <1>4 DEF GoTo, LocksInv, TypeOK
  <2>3. /\ \A e \in Device : InQueue(deviceQ, e, r) => AtHead(ingestQ, e, r)
        /\ \A e \in Device : InQueue(ingestQ, e, r) =>
              e \in h.devs /\ (e # d => e < d /\ AtHead(deviceQ, e, r))
        /\ d \in h.devs /\ InQueue(ingestQ, d, r) /\ ~InQueue(deviceQ, d, r)
        /\ \A e \in h.devs : ~InQueue(ingestQ, e, r) => d < e
    BY <1>1, <1>2, <2>1 DEF RequestInv, Outside
  <2>4. Unlocked(r) = {e \in h.devs : ~InQueue(ingestQ, e, r)}
    BY <2>1, UnlockedFacts
  <2>5. req[r].op # "none" /\ (req[r].op \in {"ingest", "remove"} => h.devs = {d})
    BY <1>1, <1>2, <2>1 DEF KindInv
  <2>6. \/ pc = "register" /\ req[r].op = "ingest"
        \/ pc = "delete" /\ req[r].op = "remove"
        \/ pc = "notify" /\ req[r].op = "group"
        \/ pc = "locked" /\ req[r].op = "group"
    <3>1. req[r].op \in {"ingest", "remove"} => Unlocked(r) = {}
      BY <2>3, <2>4, <2>5
    <3>2. QED
      BY <2>1, <2>5, <3>1 DEF FirstStep
  <2>7. Unlocked(r) # {} => pc = "locked"
    OBVIOUS
  <2> HIDE DEF h, pc
  <2>8. KindInv(r)'
    BY <2>1, <2>2, <2>5, <2>6 DEF KindInv, IngestSteps, RemoveSteps, GroupSteps
  <2>9. /\ \A e \in Device : Once(deviceQ'[e])
        /\ \A e \in Device : \A x : InQueue(deviceQ', e, x) <=> (InQueue(deviceQ, e, x) \/ (e = d /\ x = r))
        /\ \A e \in Device : \A x : AtHead(deviceQ, e, x) => AtHead(deviceQ', e, x)
    BY <1>1, <1>4, <2>3, AdmitFacts
  <2>10. RequestInv(r)'
    <3>1. pc \notin Outside /\ pc # "queued"
      BY <2>6 DEF Outside
    <3>2. \A e \in Device : InQueue(deviceQ', e, r) => AtHead(ingestQ', e, r)
      BY <1>2, <1>4, <2>3, <2>9
    <3>3. \A e \in Device : InQueue(ingestQ', e, r) => e \in h.devs /\ (e # d => e < d /\ AtHead(deviceQ', e, r))
      BY <1>4, <2>3, <2>9
    <3>4. InQueue(ingestQ', d, r) /\ InQueue(deviceQ', d, r)
      BY <1>1, <1>4, <2>3, <2>9
    <3>5. \A e \in h.devs : ~InQueue(ingestQ', e, r) => d < e /\ pc \in {"queued", "locked"}
      BY <1>4, <2>3, <2>4, <2>7
    <3>6. QED
      BY <2>1, <2>2, <2>3, <3>1, <3>2, <3>3, <3>4, <3>5 DEF RequestInv
  <2>11. OnceInv'
    BY <1>1, <1>4, <2>9 DEF OnceInv
  <2>12. \A x \in Operators \ {r} : SamePlace(x)
    BY <1>4, <2>9 DEF SamePlace
  <2>13. r \notin {"sweep", "flush"}
    BY MetricsAssumption
  <2>14. QED
    BY <1>2, <2>2, <2>8, <2>10, <2>11, <2>12, <2>13, OthersStay DEF QueuesInv
<1>5. QED
  BY <1>3, <1>4 DEF EnterDeviceQueue

\* withDeviceLocks goes on to the next id.
LEMMA AcquireStep ==
    ASSUME LocksInv, NEW r \in Requests, AcquireNext(r)
    PROVE  QueuesInv'
<1> DEFINE d == req[r].dev
<1>1. /\ d \in Device /\ req[r].devs \subseteq Device /\ req[r] \in Handlers
      /\ RequestInv(r) /\ KindInv(r)
  BY ServiceTypes DEF LocksInv, QueuesInv
<1>2. req[r].pc = "locked" /\ AtHead(deviceQ, d, r) /\ SameTimers
  BY DEF AcquireNext, Runs, SameTimers
<1>3. PICK next \in Device :
         /\ IsLeast(next, Unlocked(r))
         /\ \/ Release(r)
            \/ /\ ingestQ' = Admit(ingestQ, next, r)
               /\ req' = [req EXCEPT ![r].pc = "queued", ![r].dev = next]
               /\ UNCHANGED deviceQ
  BY DEF AcquireNext
<1>4. CASE Release(r)
  BY <1>2, <1>4, ReleaseStep
<1>5. CASE ~Release(r)
  <2> DEFINE h == [req[r] EXCEPT !.pc = "queued", !.dev = next]
  <2>1. h.pc = "queued" /\ h.dev = next /\ h.devs = req[r].devs /\ h.op = "group"
    BY <1>1, <1>2 DEF Handlers, KindInv, GroupSteps
  <2>2. req' = [req EXCEPT ![r] = h] /\ ingestQ' = Admit(ingestQ, next, r) /\ UNCHANGED deviceQ
    BY <1>3, <1>5
  <2> HIDE DEF h
  <2>3. /\ \A e \in Device : InQueue(ingestQ, e, r) =>
              e \in h.devs /\ (e # d => e < d /\ AtHead(deviceQ, e, r))
        /\ \A e \in h.devs : ~InQueue(ingestQ, e, r) => d < e
    BY <1>1, <1>2, <2>1 DEF RequestInv, Outside
  <2>4. /\ next \in h.devs /\ ~InQueue(ingestQ, next, r)
        /\ \A e \in h.devs : ~InQueue(ingestQ, e, r) => next <= e
    BY <1>3, <2>1, UnlockedFacts DEF IsLeast
  <2>5. \A e \in Device : InQueue(ingestQ, e, r) => e < next /\ e \in h.devs /\ AtHead(deviceQ, e, r)
    <3>1. \A e \in Device : e \in Nat
      BY MetricsAssumption
    <3>2. d < next
      BY <2>3, <2>4
    <3>3. QED
      BY <1>1, <1>2, <2>3, <3>1, <3>2
  <2>6. \A e \in h.devs : e # next /\ ~InQueue(ingestQ, e, r) => next < e
    <3>1. \A e \in Device : e \in Nat
      BY MetricsAssumption
    <3>2. QED
      BY <1>1, <2>1, <2>4, <3>1
  <2>7. h.devs \subseteq Device /\ h.op # "none" /\ h.op \notin {"ingest", "remove"}
    BY <1>1, <2>1
  <2>8. QED
    BY <1>2, <2>1, <2>2, <2>4, <2>5, <2>6, <2>7, EnqueueStep
<1>6. QED
  BY <1>4, <1>5

\* updateDeviceGroup asks for its first lock, or ends.
LEMMA UpdateGroupStep ==
    ASSUME LocksInv, NEW r \in Requests, UpdateGroup(r)
    PROVE  QueuesInv'
<1> DEFINE D == req[r].devs
<1>1. D \subseteq Device /\ req[r] \in Handlers /\ RequestInv(r) /\ KindInv(r)
  BY ServiceTypes DEF LocksInv, QueuesInv
<1>2. req[r].pc = "update" /\ req[r].op = "group" /\ SameTimers /\ UNCHANGED deviceQ
  BY <1>1 DEF UpdateGroup, SameTimers, KindInv, GroupSteps
<1>3. \A e \in Device : ~InQueue(ingestQ, e, r)
  BY <1>1, <1>2 DEF RequestInv, Outside
<1>4. CASE req' = [req EXCEPT ![r] = Idle] /\ UNCHANGED ingestQ
  <2>1. req[r].pc \in Outside
    BY <1>2 DEF Outside
  <2>2. UNCHANGED <<ingestQ, deviceQ>>
    BY <1>2, <1>4
  <2>3. QED
    BY <1>2, <1>4, <2>1, <2>2, OutsideStep
<1>5. ASSUME NEW first \in Device, IsLeast(first, D), ingestQ' = Admit(ingestQ, first, r),
             req' = [req EXCEPT ![r].pc = "queued", ![r].dev = first]
      PROVE  QueuesInv'
  <2> DEFINE h == [req[r] EXCEPT !.pc = "queued", !.dev = first]
  <2>1. h.pc = "queued" /\ h.dev = first /\ h.devs = D /\ h.op = "group"
    BY <1>1, <1>2 DEF Handlers
  <2>2. req' = [req EXCEPT ![r] = h]
    BY <1>5
  <2> HIDE DEF h
  <2>3. first \in D /\ \A e \in D : first <= e
    BY <1>5 DEF IsLeast
  <2>4. \A e \in h.devs : e # first /\ ~InQueue(ingestQ, e, r) => first < e
    <3>1. \A e \in Device : e \in Nat
      BY MetricsAssumption
    <3>2. QED
      BY <1>1, <2>1, <2>3, <3>1
  <2>5. \A e \in Device : InQueue(ingestQ, e, r) => e < first /\ e \in h.devs /\ AtHead(deviceQ, e, r)
    BY <1>3
  <2>6. h.op # "none" /\ h.op \notin {"ingest", "remove"}
    BY <2>1
  <2>7. QED
    BY <1>1, <1>2, <1>3, <1>5, <2>1, <2>2, <2>3, <2>4, <2>5, <2>6, EnqueueStep
<1>6. \/ req' = [req EXCEPT ![r] = Idle] /\ UNCHANGED ingestQ
      \/ \E first \in Device :
            /\ IsLeast(first, D) /\ ingestQ' = Admit(ingestQ, first, r)
            /\ req' = [req EXCEPT ![r].pc = "queued", ![r].dev = first]
  BY DEF UpdateGroup
<1>7. QED
  BY <1>4, <1>5, <1>6

-----------------------------------------------------------------------------
(* The handler bodies *)

\* h is the same request at another step.
SameRequest(h, g) ==
    h.op = g.op /\ h.dev = g.dev /\ h.devs = g.devs /\ h.ts = g.ts /\ h.recv = g.recv /\ h.group = g.group

\* The step of a body moves the handler on, or ends it.
BodyMoves(r) ==
    \/ Release(r)
    \/ \E h : /\ req' = [req EXCEPT ![r] = h]
              /\ SameRequest(h, req[r])
              /\ \/ h.pc = req[r].pc
                 \/ req[r].pc \in IngestSteps /\ h.pc \in IngestSteps
                 \/ req[r].pc \in RemoveSteps /\ h.pc \in RemoveSteps
              /\ UNCHANGED <<ingestQ, deviceQ>>

LEMMA BodyStep ==
    ASSUME LocksInv, NEW r \in Requests, AtHead(deviceQ, req[r].dev, r), BodyMoves(r), SameTimers
    PROVE  QueuesInv'
<1>1. CASE Release(r)
  BY <1>1, ReleaseStep
<1>2. CASE ~Release(r)
  <2>1. PICK h : /\ req' = [req EXCEPT ![r] = h]
                 /\ SameRequest(h, req[r])
                 /\ \/ h.pc = req[r].pc
                    \/ req[r].pc \in IngestSteps /\ h.pc \in IngestSteps
                    \/ req[r].pc \in RemoveSteps /\ h.pc \in RemoveSteps
                 /\ UNCHANGED <<ingestQ, deviceQ>>
    BY <1>2 DEF BodyMoves
  <2>2. QED
    BY <2>1, AdvanceStep DEF SameRequest
<1>3. QED
  BY <1>1, <1>2

LEMMA GoToMoves ==
    ASSUME TypeOK, NEW r \in Requests, NEW pc, GoTo(r, pc), UNCHANGED <<ingestQ, deviceQ>>,
           \/ req[r].pc \in IngestSteps /\ pc \in IngestSteps
           \/ req[r].pc \in RemoveSteps /\ pc \in RemoveSteps
    PROVE  BodyMoves(r)
<1> DEFINE h == [req[r] EXCEPT !.pc = pc]
<1>1. SameRequest(h, req[r]) /\ h.pc = pc
  BY ServiceTypes DEF Handlers, SameRequest
<1>2. req' = [req EXCEPT ![r] = h]
  BY DEF GoTo
<1> HIDE DEF h
<1>3. QED
  BY <1>1, <1>2 DEF BodyMoves

LEMMA IngestMoves ==
    ASSUME TypeOK, NEW r \in Requests, Ingest(r)
    PROVE  AtHead(deviceQ, req[r].dev, r) /\ SameTimers /\ BodyMoves(r)
<1>1. ASSUME NEW pc \in IngestSteps, NEW next \in IngestSteps, Runs(r, pc),
             Release(r) \/ (GoTo(r, next) /\ UNCHANGED <<ingestQ, deviceQ>>), SameTimers
      PROVE  AtHead(deviceQ, req[r].dev, r) /\ SameTimers /\ BodyMoves(r)
  <2>1. req[r].pc \in IngestSteps /\ AtHead(deviceQ, req[r].dev, r)
    BY <1>1 DEF Runs
  <2>2. QED
    BY <1>1, <2>1, GoToMoves DEF BodyMoves
<1>2. /\ "register" \in IngestSteps /\ "previous" \in IngestSteps /\ "append" \in IngestSteps
      /\ "minute" \in IngestSteps /\ "hourly" \in IngestSteps
      /\ "upsert" \in IngestSteps /\ "emit" \in IngestSteps
  BY DEF IngestSteps
<1>3. CASE Register(r)
  <2> DEFINE h == [req[r] EXCEPT !.pc = "previous", !.rec[req[r].dev] = OpenRecord(req[r].dev)]
  <2>1. SameRequest(h, req[r]) /\ h.pc = "previous"
    BY ServiceTypes DEF Handlers, SameRequest
  <2>2. /\ Runs(r, "register") /\ SameTimers
        /\ Release(r) \/ (req' = [req EXCEPT ![r] = h] /\ UNCHANGED <<ingestQ, deviceQ>>)
    BY <1>3 DEF Register, FailsWith, SameTimers
  <2> HIDE DEF h
  <2>3. req[r].pc \in IngestSteps /\ AtHead(deviceQ, req[r].dev, r)
    BY <1>2, <2>2 DEF Runs
  <2>4. QED
    BY <1>2, <2>1, <2>2, <2>3 DEF BodyMoves
<1>4. CASE ReadPrevious(r)
  <2>1. /\ Runs(r, "previous") /\ SameTimers
        /\ Release(r) \/ (GoTo(r, "append") /\ UNCHANGED <<ingestQ, deviceQ>>)
    BY <1>4 DEF ReadPrevious, FailsWith, SameTimers
  <2>2. QED
    BY <1>1, <1>2, <2>1
<1>5. CASE AppendRaw(r)
  <2>1. /\ Runs(r, "append") /\ SameTimers
        /\ Release(r) \/ (GoTo(r, "minute") /\ UNCHANGED <<ingestQ, deviceQ>>)
    BY <1>5 DEF AppendRaw, FailsWith, SameTimers
  <2>2. QED
    BY <1>1, <1>2, <2>1
<1>6. CASE AddMinuteAggregate(r)
  <2>1. /\ Runs(r, "minute") /\ SameTimers
        /\ Release(r) \/ (GoTo(r, "hourly") /\ UNCHANGED <<ingestQ, deviceQ>>)
    BY <1>6 DEF AddMinuteAggregate, Accumulate, RollOver, FailsWith, SameTimers
  <2>2. QED
    BY <1>1, <1>2, <2>1
<1>7. CASE AddHourlyAggregate(r)
  <2>1. /\ Runs(r, "hourly") /\ SameTimers
        /\ Release(r) \/ (GoTo(r, "upsert") /\ UNCHANGED <<ingestQ, deviceQ>>)
    BY <1>7 DEF AddHourlyAggregate, Accumulate, RollOver, FailsWith, SameTimers
  <2>2. QED
    BY <1>1, <1>2, <2>1
<1>8. CASE Upsert(r)
  <2>1. /\ Runs(r, "upsert") /\ SameTimers
        /\ Release(r) \/ (GoTo(r, "emit") /\ UNCHANGED <<ingestQ, deviceQ>>)
    BY <1>8 DEF Upsert, FailsWith, SameTimers
  <2>2. QED
    BY <1>1, <1>2, <2>1
<1>9. CASE EmitAccepted(r)
  <2>1. Runs(r, "emit") /\ SameTimers /\ Release(r)
    BY <1>9 DEF EmitAccepted, SameTimers
  <2>2. QED
    BY <1>1, <1>2, <2>1
<1>10. QED
  BY <1>3, <1>4, <1>5, <1>6, <1>7, <1>8, <1>9 DEF Ingest

LEMMA RemoveMoves ==
    ASSUME TypeOK, NEW r \in Requests, Remove(r)
    PROVE  AtHead(deviceQ, req[r].dev, r) /\ SameTimers /\ BodyMoves(r)
<1>1. ASSUME NEW pc \in RemoveSteps, NEW next \in RemoveSteps, Runs(r, pc),
             Release(r) \/ (GoTo(r, next) /\ UNCHANGED <<ingestQ, deviceQ>>), SameTimers
      PROVE  AtHead(deviceQ, req[r].dev, r) /\ SameTimers /\ BodyMoves(r)
  <2>1. req[r].pc \in RemoveSteps /\ AtHead(deviceQ, req[r].dev, r)
    BY <1>1 DEF Runs
  <2>2. QED
    BY <1>1, <2>1, GoToMoves DEF BodyMoves
<1>2. "delete" \in RemoveSteps /\ "state" \in RemoveSteps /\ "remove" \in RemoveSteps /\ "clear" \in RemoveSteps
  BY DEF RemoveSteps
<1>3. CASE DeleteDevice(r)
  <2>1. /\ Runs(r, "delete") /\ SameTimers
        /\ Release(r) \/ (GoTo(r, "state") /\ UNCHANGED <<ingestQ, deviceQ>>)
    BY <1>3 DEF DeleteDevice, FailsWith, SameTimers
  <2>2. QED
    BY <1>1, <1>2, <2>1
<1>4. CASE ForgetAccumulators(r)
  <2> DEFINE h == [req[r] EXCEPT !.pc = "remove", !.seen[req[r].dev] = live[req[r].dev]]
  <2>1. SameRequest(h, req[r]) /\ h.pc = "remove"
    BY ServiceTypes DEF Handlers, SameRequest
  <2>2. /\ Runs(r, "state") /\ SameTimers
        /\ Release(r) \/ (req' = [req EXCEPT ![r] = h] /\ UNCHANGED <<ingestQ, deviceQ>>)
    BY <1>4 DEF ForgetAccumulators, FailsWith, SameTimers
  <2> HIDE DEF h
  <2>3. req[r].pc \in RemoveSteps /\ AtHead(deviceQ, req[r].dev, r)
    BY <1>2, <2>2 DEF Runs
  <2>4. QED
    BY <1>2, <2>1, <2>2, <2>3 DEF BodyMoves
<1>5. CASE RemoveState(r)
  <2>1. /\ Runs(r, "remove") /\ SameTimers
        /\ Release(r) \/ (GoTo(r, "clear") /\ UNCHANGED <<ingestQ, deviceQ>>)
    BY <1>5 DEF RemoveState, FailsWith, SameTimers
  <2>2. QED
    BY <1>1, <1>2, <2>1
<1>6. CASE ClearSeries(r)
  <2>1. Runs(r, "clear") /\ SameTimers /\ Release(r)
    BY <1>6 DEF ClearSeries, FailsWith, SameTimers
  <2>2. QED
    BY <1>1, <1>2, <2>1
<1>7. QED
  BY <1>3, <1>4, <1>5, <1>6 DEF Remove

LEMMA NotifyMoves ==
    ASSUME TypeOK, NEW r \in Requests, NEW d \in Device, NEW part, NotifyGroup(r, d, part)
    PROVE  AtHead(deviceQ, req[r].dev, r) /\ SameTimers /\ BodyMoves(r)
<1>1. AtHead(deviceQ, req[r].dev, r) /\ SameTimers
  BY DEF NotifyGroup, Runs, SameTimers
<1>2. req[r] \in Handlers
  BY ServiceTypes
<1>3. ASSUME Settle(r, d) PROVE BodyMoves(r)
  <2> DEFINE h == [req[r] EXCEPT !.todo = @ \ {d}]
  <2>1. SameRequest(h, req[r]) /\ h.pc = req[r].pc
    BY <1>2 DEF Handlers, SameRequest
  <2>2. Release(r) \/ (req' = [req EXCEPT ![r] = h] /\ UNCHANGED <<ingestQ, deviceQ>>)
    BY <1>3 DEF Settle
  <2> HIDE DEF h
  <2>3. QED
    BY <2>1, <2>2 DEF BodyMoves
<1>4. ASSUME NEW state, NEW record,
             req' = [req EXCEPT ![r].half[d] = part, ![r].seen[d] = state, ![r].rec[d] = record],
             UNCHANGED <<ingestQ, deviceQ>>
      PROVE  BodyMoves(r)
  <2> DEFINE h == [req[r] EXCEPT !.half[d] = part, !.seen[d] = state, !.rec[d] = record]
  <2>1. SameRequest(h, req[r]) /\ h.pc = req[r].pc
    BY <1>2 DEF Handlers, SameRequest
  <2>2. req' = [req EXCEPT ![r] = h]
    BY <1>4
  <2> HIDE DEF h
  <2>3. QED
    BY <1>4, <2>1, <2>2 DEF BodyMoves
<1>5. \/ Settle(r, d)
      \/ \E state, record :
            /\ req' = [req EXCEPT ![r].half[d] = part, ![r].seen[d] = state, ![r].rec[d] = record]
            /\ UNCHANGED <<ingestQ, deviceQ>>
  BY Zenon DEF NotifyGroup
<1>6. QED
  BY <1>1, <1>3, <1>4, <1>5

-----------------------------------------------------------------------------
(* The flush and the sweep *)

\* A step of a timer leaves the handlers where they are.
LEMMA TimerStep ==
    ASSUME LocksInv, NEW op \in {"flush", "sweep"}, \A x \in Operators \ {op} : SamePlace(x),
           UNCHANGED req, OnceInv', \A d \in Device : SweepInv(d)' /\ FlushInv(d)'
    PROVE  QueuesInv'
<1>1. \A x \in Requests : x # op /\ req'[x] = req[x]
  BY MetricsAssumption
<1>2. QED
  BY <1>1, OthersStay DEF QueuesInv

\* The flush stays as it is at the other devices; so do the sweep's places.
LEMMA FlushPart ==
    ASSUME LocksInv, NEW d \in Device, UNCHANGED <<phase, sweep, req>>, SamePlace("sweep"),
           OnceInv', \A x \in Operators \ {"flush"} : SamePlace(x),
           \A e \in Device \ {d} : flush'.pc[e] = flush.pc[e],
           \A e \in Device : InQueue(ingestQ', e, "flush") <=> InQueue(ingestQ, e, "flush"),
           \A e \in Device \ {d} : InQueue(deviceQ', e, "flush") <=> InQueue(deviceQ, e, "flush"),
           InQueue(deviceQ', d, "flush") <=> flush'.pc[d] \in {"minute", "hourly"},
           flush.pc[d] # "none"
    PROVE  QueuesInv'
<1>1. \A e \in Device : SweepInv(e)'
  BY DEF LocksInv, QueuesInv, SweepInv, SamePlace
<1>2. \A e \in Device : FlushInv(e)'
  BY DEF LocksInv, QueuesInv, FlushInv
<1>3. QED
  BY <1>1, <1>2, TimerStep

LEMMA FlushQueues ==
    ASSUME LocksInv, StartFlush \/ \E d \in Device : FlushStep(d)
    PROVE  QueuesInv'
<1>1. /\ ingestQ \in Queues /\ deviceQ \in Queues /\ "flush" \in Operators /\ "sweep" \in Operators
      /\ \A e \in Device : Once(ingestQ[e]) /\ Once(deviceQ[e])
      /\ flush \in FlushStates
  BY ServiceTypes DEF LocksInv, QueuesInv, OnceInv, Operators, TypeOK, FlushStates
<1>2. CASE StartFlush
  <2>1. \A op : SamePlace(op)
    BY <1>2 DEF StartFlush, memory, SamePlace
  <2>2. \A e \in Device : flush.pc[e] = "none" /\ flush'.pc[e] \in {"none", "captured"}
    BY <1>2 DEF StartFlush, FlushIdle, CaptureFlush
  <2>3. UNCHANGED <<sweep, req, ingestQ, deviceQ, phase>> /\ phase = "up"
    BY <1>2 DEF StartFlush
  <2>4. \A e \in Device : SweepInv(e)' /\ FlushInv(e)'
    BY <2>2, <2>3 DEF LocksInv, QueuesInv, SweepInv, FlushInv
  <2>5. OnceInv'
    BY <2>3 DEF LocksInv, QueuesInv, OnceInv
  <2>6. QED
    BY <2>1, <2>3, <2>4, <2>5, TimerStep
<1>3. ASSUME NEW d \in Device, AdmitFlush(d) PROVE QueuesInv'
  <2>1. flush.pc[d] = "captured" /\ UNCHANGED <<phase, sweep, req, ingestQ>>
    BY <1>3 DEF AdmitFlush
  <2>2. ~InQueue(deviceQ, d, "flush")
    BY <2>1 DEF LocksInv, QueuesInv, FlushInv
  <2>3. CASE UNCHANGED deviceQ /\ flush' = [flush EXCEPT !.pc[d] = "none", !.failed = TRUE]
    <3>1. \A op : SamePlace(op)
      BY <2>1, <2>3 DEF SamePlace
    <3>2. flush'.pc[d] = "none" /\ \A e \in Device \ {d} : flush'.pc[e] = flush.pc[e]
      BY <1>1, <2>3 DEF FlushStates
    <3>3. OnceInv'
      BY <2>1, <2>3 DEF LocksInv, QueuesInv, OnceInv
    <3>4. QED
      BY <2>1, <2>2, <2>3, <3>1, <3>2, <3>3, FlushPart
  <2>4. CASE deviceQ' = Admit(deviceQ, d, "flush") /\ flush' = [flush EXCEPT !.pc[d] = "minute"]
    <3>1. /\ \A e \in Device : Once(deviceQ'[e])
          /\ \A e \in Device : \A x : InQueue(deviceQ', e, x) <=> (InQueue(deviceQ, e, x) \/ (e = d /\ x = "flush"))
          /\ \A e \in Device : \A x : AtHead(deviceQ, e, x) => AtHead(deviceQ', e, x)
      BY <1>1, <2>2, <2>4, AdmitFacts
    <3>2. \A x \in Operators \ {"flush"} : SamePlace(x)
      BY <2>1, <3>1 DEF SamePlace
    <3>3. flush'.pc[d] = "minute" /\ \A e \in Device \ {d} : flush'.pc[e] = flush.pc[e]
      BY <1>1, <2>4 DEF FlushStates
    <3>4. OnceInv'
      BY <1>1, <2>1, <3>1 DEF OnceInv
    <3>5. InQueue(deviceQ', d, "flush") /\ \A e \in Device \ {d} : InQueue(deviceQ', e, "flush") <=> InQueue(deviceQ, e, "flush")
      BY <3>1
    <3>6. SamePlace("sweep")
      BY <1>1, <3>2
    <3>7. QED
      BY <2>1, <3>2, <3>3, <3>4, <3>5, <3>6, FlushPart
  <2>5. QED
    BY <1>3, <2>3, <2>4 DEF AdmitFlush
<1>4. ASSUME NEW d \in Device, FlushMinute(d) PROVE QueuesInv'
  <2>1. flush.pc[d] = "minute" /\ UNCHANGED <<phase, sweep, req, ingestQ, deviceQ>>
    BY <1>4 DEF FlushMinute, FlushStage
  <2>2. flush'.pc[d] = "hourly" /\ \A e \in Device \ {d} : flush'.pc[e] = flush.pc[e]
    <3>1. \/ flush' = [flush EXCEPT !.pc[d] = "hourly"]
          \/ flush' = [flush EXCEPT !.pc[d] = "hourly", !.failed = TRUE]
      BY <1>4 DEF FlushMinute, FlushStage
    <3>2. QED
      BY <1>1, <3>1 DEF FlushStates
  <2>3. \A op : SamePlace(op)
    BY <2>1 DEF SamePlace
  <2>4. OnceInv'
    BY <2>1 DEF LocksInv, QueuesInv, OnceInv
  <2>5. InQueue(deviceQ', d, "flush")
    BY <2>1 DEF LocksInv, QueuesInv, FlushInv
  <2>6. QED
    BY <2>1, <2>2, <2>3, <2>4, <2>5, FlushPart
<1>5. ASSUME NEW d \in Device, FlushHourly(d) PROVE QueuesInv'
  <2>1. /\ flush.pc[d] = "hourly" /\ UNCHANGED <<phase, sweep, req, ingestQ>>
        /\ AtHead(deviceQ, d, "flush") /\ deviceQ' = Popped(deviceQ, d)
    BY <1>5 DEF FlushHourly, FlushStage, Popped
  <2>2. flush'.pc[d] = "none" /\ \A e \in Device \ {d} : flush'.pc[e] = flush.pc[e]
    <3>1. \/ flush' = [flush EXCEPT !.pc[d] = "none"]
          \/ flush' = [flush EXCEPT !.pc[d] = "none", !.failed = TRUE]
      BY <1>5 DEF FlushHourly, FlushStage
    <3>2. flush'.pc = [flush.pc EXCEPT ![d] = "none"] /\ flush.pc \in [Device -> {"none", "captured", "minute", "hourly"}]
      BY <1>1, <3>1 DEF FlushStates
    <3>3. QED
      BY <3>2
  <2>3. /\ \A e \in Device : Once(deviceQ'[e])
        /\ \A e \in Device : \A x : InQueue(deviceQ', e, x) <=> (InQueue(deviceQ, e, x) /\ ~(e = d /\ x = "flush"))
        /\ \A e \in Device : \A x : AtHead(deviceQ, e, x) /\ ~(e = d /\ x = "flush") => AtHead(deviceQ', e, x)
    BY <1>1, <2>1, PopFacts
  <2>4. \A x \in Operators \ {"flush"} : SamePlace(x)
    BY <2>1, <2>3 DEF SamePlace
  <2>5. OnceInv'
    BY <1>1, <2>1, <2>3 DEF OnceInv
  <2>6. ~InQueue(deviceQ', d, "flush") /\ \A e \in Device \ {d} : InQueue(deviceQ', e, "flush") <=> InQueue(deviceQ, e, "flush")
    BY <2>3
  <2>7. SamePlace("sweep")
    BY <1>1, <2>4
  <2>8. QED
    BY <2>1, <2>2, <2>4, <2>5, <2>6, <2>7, FlushPart
<1>6. QED
  BY <1>2, <1>3, <1>4, <1>5 DEF FlushStep

\* The sweep stays as it is at the other devices; so do the flush's places.
LEMMA SweepPart ==
    ASSUME LocksInv, NEW d \in Device, UNCHANGED <<phase, flush, req>>,
           OnceInv', \A x \in Operators \ {"sweep"} : SamePlace(x),
           sweep'.running = sweep.running,
           \A e \in Device \ {d} : sweep'.pc[e] = sweep.pc[e],
           \A e \in Device \ {d} : /\ InQueue(ingestQ', e, "sweep") <=> InQueue(ingestQ, e, "sweep")
                                   /\ InQueue(deviceQ', e, "sweep") <=> InQueue(deviceQ, e, "sweep")
                                   /\ AtHead(ingestQ, e, "sweep") => AtHead(ingestQ', e, "sweep"),
           InQueue(ingestQ', d, "sweep") <=> sweep'.pc[d] \in {"queued", "notify"},
           InQueue(deviceQ', d, "sweep") <=> sweep'.pc[d] = "notify",
           InQueue(deviceQ', d, "sweep") => AtHead(ingestQ', d, "sweep"),
           sweep.pc[d] # "none"
    PROVE  QueuesInv'
<1>1. "flush" \in Operators /\ SamePlace("flush")
  BY DEF Operators
<1>2. \A e \in Device : SweepInv(e)'
  BY DEF LocksInv, QueuesInv, SweepInv
<1>3. \A e \in Device : FlushInv(e)'
  BY <1>1 DEF LocksInv, QueuesInv, FlushInv, SamePlace
<1>4. QED
  BY <1>2, <1>3, TimerStep

\* The sweep leaves one queue, or does not enter it.
LEMMA SweepQueues ==
    ASSUME LocksInv, NEW d \in Device, SweepStep(d)
    PROVE  QueuesInv'
<1>1. /\ ingestQ \in Queues /\ deviceQ \in Queues /\ "sweep" \in Operators
      /\ \A e \in Device : Once(ingestQ[e]) /\ Once(deviceQ[e])
      /\ sweep \in SweepStates
  BY ServiceTypes DEF LocksInv, QueuesInv, OnceInv, Operators, TypeOK, SweepStates
<1>2. ASSUME NEW pc, sweep' = [sweep EXCEPT !.pc[d] = pc] \/ sweep' = [sweep EXCEPT !.pc[d] = pc, !.failed = TRUE]
      PROVE  /\ sweep'.running = sweep.running /\ sweep'.pc[d] = pc
             /\ \A e \in Device \ {d} : sweep'.pc[e] = sweep.pc[e]
  <2>1. sweep'.pc = [sweep.pc EXCEPT ![d] = pc] /\ sweep'.running = sweep.running
    BY <1>1, <1>2 DEF SweepStates
  <2>2. sweep.pc \in [Device -> {"none", "mark", "queued", "notify"}]
    BY <1>1 DEF SweepStates
  <2>3. QED
    BY <2>1, <2>2
<1>3. SweepInv(d)
  BY DEF LocksInv, QueuesInv
<1>4. CASE MarkOffline(d)
  <2>1. /\ UNCHANGED <<phase, flush, req, deviceQ>> /\ sweep.pc[d] = "mark"
        /\ ~InQueue(ingestQ, d, "sweep") /\ ~InQueue(deviceQ, d, "sweep")
    BY <1>3, <1>4 DEF MarkOffline, SweepInv
  <2>2. CASE UNCHANGED ingestQ /\ (sweep' = [sweep EXCEPT !.pc[d] = "none"] \/ sweep' = [sweep EXCEPT !.pc[d] = "none", !.failed = TRUE])
    <3>1. \A op : SamePlace(op)
      BY <2>1, <2>2 DEF SamePlace
    <3>2. /\ sweep'.running = sweep.running /\ sweep'.pc[d] = "none"
          /\ \A e \in Device \ {d} : sweep'.pc[e] = sweep.pc[e]
      BY <1>2, <2>2
    <3>3. OnceInv'
      BY <2>1, <2>2 DEF LocksInv, QueuesInv, OnceInv
    <3>4. QED
      BY <2>1, <2>2, <3>1, <3>2, <3>3, SweepPart
  <2>3. CASE ingestQ' = Admit(ingestQ, d, "sweep") /\ sweep' = [sweep EXCEPT !.pc[d] = "queued"]
    <3>1. /\ \A e \in Device : Once(ingestQ'[e])
          /\ \A e \in Device : \A x : InQueue(ingestQ', e, x) <=> (InQueue(ingestQ, e, x) \/ (e = d /\ x = "sweep"))
          /\ \A e \in Device : \A x : AtHead(ingestQ, e, x) => AtHead(ingestQ', e, x)
      BY <1>1, <2>1, <2>3, AdmitFacts
    <3>2. \A x \in Operators \ {"sweep"} : SamePlace(x)
      BY <2>1, <3>1 DEF SamePlace
    <3>3. /\ sweep'.running = sweep.running /\ sweep'.pc[d] = "queued"
          /\ \A e \in Device \ {d} : sweep'.pc[e] = sweep.pc[e]
      BY <1>2, <2>3
    <3>4. OnceInv'
      BY <1>1, <2>1, <3>1 DEF OnceInv
    <3>5. \A e \in Device \ {d} : /\ InQueue(ingestQ', e, "sweep") <=> InQueue(ingestQ, e, "sweep")
                                  /\ InQueue(deviceQ', e, "sweep") <=> InQueue(deviceQ, e, "sweep")
                                  /\ AtHead(ingestQ, e, "sweep") => AtHead(ingestQ', e, "sweep")
      BY <2>1, <3>1
    <3>6. InQueue(ingestQ', d, "sweep") /\ ~InQueue(deviceQ', d, "sweep")
      BY <2>1, <3>1
    <3>7. QED
      BY <2>1, <3>2, <3>3, <3>4, <3>5, <3>6, SweepPart
  <2>4. QED
    BY <1>4, <2>2, <2>3 DEF MarkOffline
<1>5. CASE EnterSweep(d)
  <2>1. /\ UNCHANGED <<phase, flush, req>> /\ sweep.pc[d] = "queued" /\ AtHead(ingestQ, d, "sweep")
        /\ InQueue(ingestQ, d, "sweep") /\ ~InQueue(deviceQ, d, "sweep")
    BY <1>3, <1>5 DEF EnterSweep, SweepInv
  <2>2. CASE ingestQ' = Popped(ingestQ, d) /\ sweep' = [sweep EXCEPT !.pc[d] = "none", !.failed = TRUE] /\ UNCHANGED deviceQ
    <3>1. /\ \A e \in Device : Once(ingestQ'[e])
          /\ \A e \in Device : \A x : InQueue(ingestQ', e, x) <=> (InQueue(ingestQ, e, x) /\ ~(e = d /\ x = "sweep"))
          /\ \A e \in Device : \A x : AtHead(ingestQ, e, x) /\ ~(e = d /\ x = "sweep") => AtHead(ingestQ', e, x)
      BY <1>1, <2>1, <2>2, PopFacts
    <3>2. \A x \in Operators \ {"sweep"} : SamePlace(x)
      BY <2>2, <3>1 DEF SamePlace
    <3>3. /\ sweep'.running = sweep.running /\ sweep'.pc[d] = "none"
          /\ \A e \in Device \ {d} : sweep'.pc[e] = sweep.pc[e]
      BY <1>2, <2>2
    <3>4. OnceInv'
      BY <1>1, <2>2, <3>1 DEF OnceInv
    <3>5. \A e \in Device \ {d} : /\ InQueue(ingestQ', e, "sweep") <=> InQueue(ingestQ, e, "sweep")
                                  /\ InQueue(deviceQ', e, "sweep") <=> InQueue(deviceQ, e, "sweep")
                                  /\ AtHead(ingestQ, e, "sweep") => AtHead(ingestQ', e, "sweep")
      BY <2>2, <3>1
    <3>6. ~InQueue(ingestQ', d, "sweep") /\ ~InQueue(deviceQ', d, "sweep")
      BY <2>1, <2>2, <3>1
    <3>7. QED
      BY <2>1, <3>2, <3>3, <3>4, <3>5, <3>6, SweepPart
  <2>3. CASE deviceQ' = Admit(deviceQ, d, "sweep") /\ sweep' = [sweep EXCEPT !.pc[d] = "notify"] /\ UNCHANGED ingestQ
    <3>1. /\ \A e \in Device : Once(deviceQ'[e])
          /\ \A e \in Device : \A x : InQueue(deviceQ', e, x) <=> (InQueue(deviceQ, e, x) \/ (e = d /\ x = "sweep"))
          /\ \A e \in Device : \A x : AtHead(deviceQ, e, x) => AtHead(deviceQ', e, x)
      BY <1>1, <2>1, <2>3, AdmitFacts
    <3>2. \A x \in Operators \ {"sweep"} : SamePlace(x)
      BY <2>3, <3>1 DEF SamePlace
    <3>3. /\ sweep'.running = sweep.running /\ sweep'.pc[d] = "notify"
          /\ \A e \in Device \ {d} : sweep'.pc[e] = sweep.pc[e]
      BY <1>2, <2>3
    <3>4. OnceInv'
      BY <1>1, <2>3, <3>1 DEF OnceInv
    <3>5. \A e \in Device \ {d} : /\ InQueue(ingestQ', e, "sweep") <=> InQueue(ingestQ, e, "sweep")
                                  /\ InQueue(deviceQ', e, "sweep") <=> InQueue(deviceQ, e, "sweep")
                                  /\ AtHead(ingestQ, e, "sweep") => AtHead(ingestQ', e, "sweep")
      BY <2>3, <3>1
    <3>6. InQueue(ingestQ', d, "sweep") /\ InQueue(deviceQ', d, "sweep") /\ AtHead(ingestQ', d, "sweep")
      BY <2>1, <2>3, <3>1
    <3>7. QED
      BY <2>1, <3>2, <3>3, <3>4, <3>5, <3>6, SweepPart
  <2>4. QED
    BY <1>5, <2>2, <2>3 DEF EnterSweep, Popped
<1>6. CASE NotifyOffline(d)
  <2>1. /\ UNCHANGED <<phase, flush, req>> /\ sweep.pc[d] = "notify"
        /\ AtHead(ingestQ, d, "sweep") /\ AtHead(deviceQ, d, "sweep")
        /\ ingestQ' = Popped(ingestQ, d) /\ deviceQ' = Popped(deviceQ, d)
        /\ (sweep' = [sweep EXCEPT !.pc[d] = "none"] \/ sweep' = [sweep EXCEPT !.pc[d] = "none", !.failed = TRUE])
    BY <1>6 DEF NotifyOffline, Popped
  <2>2. /\ \A e \in Device : Once(ingestQ'[e])
        /\ \A e \in Device : \A x : InQueue(ingestQ', e, x) <=> (InQueue(ingestQ, e, x) /\ ~(e = d /\ x = "sweep"))
        /\ \A e \in Device : \A x : AtHead(ingestQ, e, x) /\ ~(e = d /\ x = "sweep") => AtHead(ingestQ', e, x)
    BY <1>1, <2>1, PopFacts
  <2>3. /\ \A e \in Device : Once(deviceQ'[e])
        /\ \A e \in Device : \A x : InQueue(deviceQ', e, x) <=> (InQueue(deviceQ, e, x) /\ ~(e = d /\ x = "sweep"))
        /\ \A e \in Device : \A x : AtHead(deviceQ, e, x) /\ ~(e = d /\ x = "sweep") => AtHead(deviceQ', e, x)
    BY <1>1, <2>1, PopFacts
  <2>4. \A x \in Operators \ {"sweep"} : SamePlace(x)
    BY <2>2, <2>3 DEF SamePlace
  <2>5. /\ sweep'.running = sweep.running /\ sweep'.pc[d] = "none"
        /\ \A e \in Device \ {d} : sweep'.pc[e] = sweep.pc[e]
    BY <1>2, <2>1
  <2>6. OnceInv'
    BY <2>2, <2>3 DEF OnceInv
  <2>7. \A e \in Device \ {d} : /\ InQueue(ingestQ', e, "sweep") <=> InQueue(ingestQ, e, "sweep")
                                /\ InQueue(deviceQ', e, "sweep") <=> InQueue(deviceQ, e, "sweep")
                                /\ AtHead(ingestQ, e, "sweep") => AtHead(ingestQ', e, "sweep")
    BY <2>2, <2>3
  <2>8. ~InQueue(ingestQ', d, "sweep") /\ ~InQueue(deviceQ', d, "sweep")
    BY <2>2, <2>3
  <2>9. QED
    BY <2>1, <2>4, <2>5, <2>6, <2>7, <2>8, SweepPart
<1>7. QED
  BY <1>4, <1>5, <1>6 DEF SweepStep

\* A page of the sweep starts or ends the sweep of devices that wait in no queue.
LEMMA SweepPages ==
    ASSUME LocksInv, StartSweep \/ ListExpired
    PROVE  QueuesInv'
<1>1. UNCHANGED <<phase, ingestQ, deviceQ, req, flush>>
  BY DEF StartSweep, ListExpired
<1>2. sweep \in SweepStates
  BY DEF LocksInv, TypeOK, SweepStates
<1>3. /\ \A d \in Device : sweep.pc[d] = "none" /\ sweep'.pc[d] \in {"none", "mark"}
      /\ sweep'.running = FALSE => \A d \in Device : sweep'.pc[d] = "none"
  <2>1. CASE StartSweep
    <3>1. sweep' = [NoSweep EXCEPT !.running = TRUE, !.at = now] /\ sweep.running = FALSE
      BY <1>2, <2>1 DEF StartSweep, SweepStates
    <3>2. QED
      BY <3>1 DEF NoSweep, LocksInv, QueuesInv, SweepInv
  <2>2. CASE ListExpired
    <3>1. SweepIdle /\ sweep.running = TRUE
      BY <1>2, <2>2 DEF ListExpired, SweepStates
    <3>2. ASSUME NEW page \in SUBSET Expired,
                 sweep' = [sweep EXCEPT !.pc = [d \in Device |-> IF d \in page THEN "mark" ELSE "none"],
                                        !.seen = [d \in Device |-> IF d \in page THEN live[d] ELSE NoLive]]
          PROVE  sweep'.running = TRUE /\ \A d \in Device : sweep'.pc[d] \in {"none", "mark"}
      BY <1>2, <3>1, <3>2 DEF SweepStates
    <3>3. ASSUME NEW f, sweep' = [NoSweep EXCEPT !.failed = f]
          PROVE  \A d \in Device : sweep'.pc[d] = "none"
      BY <3>3 DEF NoSweep
    <3>4. QED
      BY <2>2, <3>1, <3>2, <3>3 DEF ListExpired, SweepIdle
  <2>3. QED
    BY <2>1, <2>2
<1>4. \A op : SamePlace(op)
  BY <1>1 DEF SamePlace
<1>5. \A d \in Device : SweepInv(d)' /\ FlushInv(d)'
  BY <1>1, <1>3 DEF LocksInv, QueuesInv, SweepInv, FlushInv
<1>6. OnceInv'
  BY <1>1 DEF LocksInv, QueuesInv, OnceInv
<1>7. QED
  BY <1>1, <1>4, <1>5, <1>6, TimerStep

\* The memory of a process that has just started.
NothingQueued ==
    /\ ingestQ = [d \in Device |-> <<>>] /\ deviceQ = [d \in Device |-> <<>>]
    /\ req = [r \in Requests |-> Idle] /\ flush = NoFlush /\ sweep = NoSweep

LEMMA EmptyQueues == NothingQueued => QueuesInv
<1> SUFFICES ASSUME NothingQueued PROVE QueuesInv
  OBVIOUS
<1> USE DEF NothingQueued
<1>1. /\ \A d \in Device : \A op : ~InQueue(ingestQ, d, op) /\ ~InQueue(deviceQ, d, op)
      /\ \A d \in Device : Once(ingestQ[d]) /\ Once(deviceQ[d])
  BY DEF InQueue, Once
<1>2. ASSUME NEW r \in Requests PROVE RequestInv(r) /\ KindInv(r)
  <2>1. req[r].pc = "idle" /\ req[r].op = "none"
    BY DEF Idle
  <2>2. KindInv(r)
    BY <2>1 DEF KindInv, IngestSteps, RemoveSteps, GroupSteps
  <2>3. RequestInv(r)
    BY <1>1, <2>1 DEF RequestInv, Outside
  <2>4. QED
    BY <2>2, <2>3
<1>3. \A d \in Device : sweep.pc[d] = "none" /\ flush.pc[d] = "none"
  BY DEF NoSweep, NoFlush
<1>4. \A d \in Device : SweepInv(d) /\ FlushInv(d)
  BY <1>1, <1>3 DEF SweepInv, FlushInv
<1>5. QED
  BY <1>1, <1>2, <1>4 DEF QueuesInv, OnceInv

LEMMA ProcessQueues ==
    ASSUME LocksInv, Shutdown \/ Process \/ Restart \/ Tick
    PROVE  QueuesInv'
<1>1. CASE Restart
  <2>1. NothingQueued'
    BY <1>1 DEF Restart, NothingQueued
  <2>2. NothingQueued' => QueuesInv'
    BY EmptyQueues, PTL
  <2>3. QED
    BY <2>1, <2>2
<1>2. CASE LastFlush
  <2>1. /\ UNCHANGED <<ingestQ, deviceQ, req, sweep>> /\ phase = "lastFlush" /\ phase' = "flushing"
        /\ \A d \in Device : flush'.pc[d] \in {"none", "captured"}
    BY <1>2 DEF LastFlush, CaptureFlush
  <2>2. \A op : SamePlace(op)
    BY <2>1 DEF SamePlace
  <2>3. \A d \in Device : SweepInv(d)' /\ FlushInv(d)'
    BY <2>1 DEF LocksInv, QueuesInv, SweepInv, FlushInv
  <2>4. OnceInv'
    BY <2>1 DEF LocksInv, QueuesInv, OnceInv
  <2>5. QED
    BY <2>1, <2>2, <2>3, <2>4, TimerStep
<1>3. CASE Shutdown \/ HttpDrained \/ FlushDrained \/ SweepDrained \/ Stop \/ Tick
  <2>1. /\ UNCHANGED <<ingestQ, deviceQ, req, sweep, flush>>
        /\ phase' \in {"drainSweep", "lastFlush"} =>
              phase \in {"drainSweep", "lastFlush"} \/ \A d \in Device : flush.pc[d] = "none"
    BY <1>3 DEF Shutdown, HttpDrained, FlushDrained, SweepDrained, Stop, Tick, memory, FlushIdle
  <2>2. \A op : SamePlace(op)
    BY <2>1 DEF SamePlace
  <2>3. \A d \in Device : SweepInv(d)' /\ FlushInv(d)'
    BY <2>1 DEF LocksInv, QueuesInv, SweepInv, FlushInv
  <2>4. OnceInv'
    BY <2>1 DEF LocksInv, QueuesInv, OnceInv
  <2>5. QED
    BY <2>1, <2>2, <2>3, <2>4, TimerStep
<1>4. QED
  BY <1>1, <1>2, <1>3 DEF Process

LEMMA LocksStep == LocksInv /\ [Next]_vars => LocksInv'
<1> SUFFICES ASSUME LocksInv, [Next]_vars PROVE LocksInv'
  OBVIOUS
<1>1. TypeOK /\ TypeOK'
  BY TypeStep DEF LocksInv
<1>2. ASSUME NEW r \in Requests, Handle(r) PROVE QueuesInv'
  <2>1. CASE Ingest(r)
    BY <1>1, <2>1, IngestMoves, BodyStep
  <2>2. CASE Remove(r)
    BY <1>1, <2>2, RemoveMoves, BodyStep
  <2>3. ASSUME NEW d \in Device, NEW part \in {"live", "record"}, NotifyGroup(r, d, part) PROVE QueuesInv'
    BY <1>1, <2>3, NotifyMoves, BodyStep
  <2>4. QED
    BY <1>2, <2>1, <2>2, <2>3, EnterStep, AcquireStep, UpdateGroupStep DEF Handle, Regroup
<1>3. CASE UNCHANGED vars
  <2>1. UNCHANGED <<phase, ingestQ, deviceQ, req, flush, sweep>>
    BY <1>3 DEF vars, memory
  <2>2. SameTimers /\ (\A op : SamePlace(op)) /\ \A r \in Requests : Advances(r)
    BY <2>1 DEF SameTimers, SamePlace, Advances
  <2>3. QueuesInv'
    BY <2>1, <2>2, TimersStay, QueuesStay
  <2>4. QED
    BY <1>1, <2>3 DEF LocksInv
<1>4. QED
  BY <1>1, <1>2, <1>3, SubmitStep, FlushQueues, SweepPages, SweepQueues, ProcessQueues DEF Next, LocksInv

LEMMA LocksInvariant == Spec => []LocksInv
<1>1. Init => LocksInv
  <2>1. Init => NothingQueued
    BY DEF Init, NothingQueued
  <2>2. QED
    BY <2>1, TypeInit, EmptyQueues DEF LocksInv
<1>2. QED
  BY <1>1, LocksStep, PTL DEF Spec

-----------------------------------------------------------------------------
(* The queues never deadlock *)

\* Of finitely many devices one has the greatest id: the one with the fewest
\* above it.
LEMMA GreatestDevice ==
    ASSUME NEW D \in SUBSET Device, D # {}
    PROVE  \E m \in D : \A d \in D : d <= m
<1> DEFINE Above(m) == {d \in D : d > m}
           N == {Cardinality(Above(m)) : m \in D}
<1>1. IsFiniteSet(D) /\ \A d \in D : d \in Nat
  BY MetricsAssumption, FS_Subset
<1>2. ASSUME NEW m \in D PROVE IsFiniteSet(Above(m)) /\ Cardinality(Above(m)) \in Nat
  <2>1. Above(m) \subseteq D
    OBVIOUS
  <2> HIDE DEF Above
  <2>2. IsFiniteSet(Above(m))
    BY <1>1, <2>1, FS_Subset
  <2>3. QED
    BY <2>2, FS_CardinalityType
<1>3. N \in SUBSET Nat /\ N # {}
  BY <1>2
<1>4. PICK n \in N : \A x \in N : n <= x
  BY <1>3, NatMin
<1>5. PICK m \in D : n = Cardinality(Above(m))
  OBVIOUS
<1>6. ASSUME NEW e \in D, ~(e <= m) PROVE FALSE
  <2>1. e \in Above(m) /\ e \notin Above(e) /\ Above(e) \subseteq Above(m)
    BY <1>1, <1>6
  <2>2. Cardinality(Above(e)) \in N
    OBVIOUS
  <2>3. IsFiniteSet(Above(m)) /\ Cardinality(Above(m)) \in Nat /\ Cardinality(Above(e)) \in Nat
    BY <1>2
  <2> HIDE DEF Above, N
  <2>4. Cardinality(Above(e)) < Cardinality(Above(m))
    <3>1. Above(e) # Above(m)
      BY <2>1, Zenon
    <3>2. /\ Cardinality(Above(e)) <= Cardinality(Above(m))
          /\ Cardinality(Above(e)) = Cardinality(Above(m)) => Above(e) = Above(m)
      BY <2>1, <2>3, FS_Subset
    <3>3. QED
      BY <2>3, <3>1, <3>2
  <2>5. Cardinality(Above(m)) <= Cardinality(Above(e))
    BY <1>4, <1>5, <2>2, Zenon
  <2>6. QED
    BY <2>3, <2>4, <2>5
<1>7. QED
  BY <1>6, Zenon

\* Locks are taken in id order and the inner queue inside the outer one, so of
\* the operations that wait, one that leads the queue of the last device runs.
LEMMA SomethingRuns == LocksInv => NoCircularWait
<1> SUFFICES ASSUME LocksInv, NEW d \in Device, ingestQ[d] # <<>> \/ deviceQ[d] # <<>>,
                    \A e \in Device : ~AtHead(deviceQ, e, "flush")
             PROVE  \/ \E r \in Requests : (\E e \in Device : InQueue(ingestQ, e, r)) /\ Unblocked(r, Device)
                    \/ \E e \in Device : InQueue(ingestQ, e, "sweep") /\ Unblocked("sweep", {e})
  BY DEF NoCircularWait
<1>1. ingestQ \in Queues /\ deviceQ \in Queues
  BY ServiceTypes DEF LocksInv
<1>2. ASSUME NEW e \in Device, deviceQ[e] # <<>>
      PROVE  Head(deviceQ[e]) \in Operators /\ AtHead(deviceQ, e, Head(deviceQ[e])) /\ AtHead(ingestQ, e, Head(deviceQ[e]))
  <2>1. /\ Head(deviceQ[e]) \in Operators /\ AtHead(deviceQ, e, Head(deviceQ[e]))
        /\ InQueue(deviceQ, e, Head(deviceQ[e]))
    BY <1>1, <1>2, HeadFacts
  <2>2. Head(deviceQ[e]) # "flush"
    BY <2>1
  <2>3. AtHead(ingestQ, e, Head(deviceQ[e]))
    BY <2>1, <2>2 DEF LocksInv, QueuesInv, RequestInv, SweepInv, Operators
  <2>4. QED
    BY <2>1, <2>3
<1> DEFINE D == {e \in Device : ingestQ[e] # <<>>}
<1>3. D # {}
  BY <1>2 DEF AtHead
<1>4. PICK m \in D : \A e \in D : e <= m
  BY <1>3, GreatestDevice
<1> DEFINE h == Head(ingestQ[m])
<1>5. h \in Operators /\ AtHead(ingestQ, m, h) /\ InQueue(ingestQ, m, h)
  BY <1>1, HeadFacts
<1> HIDE DEF h
<1>6. ASSUME InQueue(deviceQ, m, h) PROVE AtHead(deviceQ, m, h)
  <2>1. deviceQ[m] # <<>>
    BY <1>1, <1>6 DEF InQueue, Queues
  <2>2. AtHead(deviceQ, m, Head(deviceQ[m])) /\ AtHead(ingestQ, m, Head(deviceQ[m]))
    BY <1>2, <2>1
  <2>3. h = Head(deviceQ[m])
    BY <1>1, <1>5, <2>2, HeadFacts
  <2>4. QED
    BY <2>2, <2>3
<1>7. CASE h = "sweep"
  <2>1. Unblocked("sweep", {m})
    BY <1>5, <1>6, <1>7 DEF Unblocked
  <2>2. QED
    BY <1>5, <1>7, <2>1
<1>8. CASE h = "flush"
  BY <1>5, <1>8 DEF LocksInv, QueuesInv, FlushInv
<1>9. CASE h \in Requests
  <2>1. RequestInv(h)
    BY <1>9 DEF LocksInv, QueuesInv
  <2>2. \A e \in Device : InQueue(ingestQ, e, h) => e \in Nat /\ e <= m
    <3>1. ASSUME NEW e \in Device, InQueue(ingestQ, e, h) PROVE e \in D
      BY <1>1, <3>1 DEF InQueue, Queues
    <3>2. \A e \in Device : e \in Nat
      BY MetricsAssumption
    <3>3. QED
      BY <1>4, <3>1, <3>2
  <2>3. req[h].dev \in Device /\ InQueue(ingestQ, req[h].dev, h)
    BY <1>5, <1>9, <2>1, ServiceTypes DEF LocksInv, RequestInv
  <2>4. req[h].dev = m
    <3>1. m # req[h].dev => m < req[h].dev
      BY <1>5, <2>1 DEF RequestInv
    <3>2. QED
      BY <2>2, <2>3, <3>1, <1>5
  <2>5. ASSUME NEW e \in Device, InQueue(ingestQ, e, h) PROVE AtHead(ingestQ, e, h)
    <3>1. CASE e = m
      BY <1>5, <3>1
    <3>2. CASE e # m
      BY <1>1, <2>1, <2>4, <2>5, <3>2, HeadFacts DEF RequestInv
    <3>3. QED
      BY <3>1, <3>2
  <2>6. ASSUME NEW e \in Device, InQueue(deviceQ, e, h) PROVE AtHead(deviceQ, e, h)
    <3>1. CASE e = m
      BY <1>6, <2>6, <3>1
    <3>2. CASE e # m
      BY <1>1, <2>1, <2>4, <2>6, <3>2, HeadFacts DEF RequestInv
    <3>3. QED
      BY <3>1, <3>2
  <2>7. Unblocked(h, Device)
    BY <2>5, <2>6 DEF Unblocked
  <2>8. QED
    BY <1>5, <1>9, <2>7
<1>10. QED
  BY <1>5, <1>7, <1>8, <1>9 DEF Operators

\* The nested queues of the handlers, the sweep and the flush never all wait
\* for each other: withDeviceLocks takes the pairs of queues in the order of the
\* ids, and the flush takes the inner queue alone.
THEOREM NoCircularWaitHolds == Spec => []NoCircularWait
BY LocksInvariant, SomethingRuns, PTL

-----------------------------------------------------------------------------
(* What a handler does to its upload and to the live state *)

LaterSteps == {"append", "minute", "hourly", "upsert"}

GoesOn(r) ==
    req'[r].op = "ingest" =>
        /\ req[r].op = "ingest" /\ req[r].pc # "emit"
        /\ req'[r].dev = req[r].dev /\ req'[r].ts = req[r].ts /\ req'[r].recv = req[r].recv
        /\ req'[r].pc \in LaterSteps => req[r].pc \in LaterSteps \/ ~IsStale(req[r].dev, req[r].ts)

UpsertState(r) == [ts |-> req[r].ts, lastSeen |-> req[r].recv, status |-> "online"]

\* The upload of r becomes the live reading.
Takes(r) ==
    /\ Runs(r, "upsert")
    /\ live' = [live EXCEPT ![req[r].dev] = UpsertState(r)]
    /\ published' = [published EXCEPT ![req[r].dev] = @ \cup {req[r].ts}]
    /\ req'[r] = Idle \/ req'[r].pc = "emit"

\* The removal r drops the live state.
Drops(r) ==
    /\ req[r].op = "remove" /\ AtHead(deviceQ, req[r].dev, r)
    /\ live' = [live EXCEPT ![req[r].dev] = NoLive]
    /\ UNCHANGED published

LiveChanges(r) == UNCHANGED <<live, published>> \/ Takes(r) \/ Drops(r)

\* Only a group update queues for another device.
KeepsOrder(r) ==
    \A d \in Device : \A x, y : Before(ingestQ', d, x, y) =>
        Before(ingestQ, d, x, y) \/ (y = r /\ req'[r].op = "group")

LEMMA GoToPc ==
    ASSUME TypeOK, NEW r \in Requests, NEW pc, GoTo(r, pc)
    PROVE  req'[r] = [req[r] EXCEPT !.pc = pc] /\ req'[r].pc = pc
<1>1. req \in [Requests -> Handlers] /\ req[r] \in Handlers
  BY DEF TypeOK
<1>2. req'[r] = [req[r] EXCEPT !.pc = pc]
  BY <1>1 DEF GoTo
<1>3. [req[r] EXCEPT !.pc = pc].pc = pc
  BY <1>1 DEF Handlers
<1>4. QED
  BY <1>2, <1>3

LEMMA IdleGoesOn ==
    ASSUME NEW r, req'[r] = Idle
    PROVE  GoesOn(r)
BY DEF GoesOn, Idle

LEMMA ReleaseOrder ==
    ASSUME LocksInv, NEW r \in Requests, Release(r)
    PROVE  KeepsOrder(r) /\ req'[r] = Idle /\ \A x \in Requests \ {r} : req'[x] = req[x]
<1>1. ingestQ \in Queues /\ \A e \in Device : Once(ingestQ[e])
  BY ServiceTypes DEF LocksInv, QueuesInv, OnceInv
<1>2. \A d \in Device : \A x, y : Before(ingestQ', d, x, y) => Before(ingestQ, d, x, y)
  BY <1>1, LeaveFacts DEF Release
<1>3. QED
  BY <1>2 DEF KeepsOrder, Release, LocksInv, TypeOK

\* A body moves its handler on or ends it.
LEMMA BodyOrder ==
    ASSUME LocksInv, NEW r \in Requests, BodyMoves(r)
    PROVE  /\ KeepsOrder(r) /\ \A x \in Requests \ {r} : req'[x] = req[x]
           /\ req'[r] = Idle \/ SameRequest(req'[r], req[r])
<1>1. CASE Release(r)
  BY <1>1, ReleaseOrder
<1>2. CASE ~Release(r)
  <2>1. PICK h : req' = [req EXCEPT ![r] = h] /\ SameRequest(h, req[r]) /\ UNCHANGED ingestQ
    BY <1>2 DEF BodyMoves
  <2>2. req'[r] = h /\ \A x \in Requests \ {r} : req'[x] = req[x]
    BY <2>1 DEF LocksInv, TypeOK
  <2>3. KeepsOrder(r)
    BY <2>1 DEF KeepsOrder, Before
  <2>4. QED
    BY <2>1, <2>2, <2>3
<1>3. QED
  BY <1>1, <1>2

\* The steps of an upload.
LEMMA IngestSequence ==
    ASSUME LocksInv, NEW r \in Requests, Ingest(r)
    PROVE  /\ GoesOn(r) /\ LiveChanges(r)
           /\ req'[r] = Idle \/ (req'[r].pc = "emit" => Takes(r))
<1>1. req \in [Requests -> Handlers] /\ req[r] \in Handlers /\ CarriesSample(req[r])
  BY ServiceTypes DEF LocksInv, TypeOK
<1>2. /\ BodyMoves(r) /\ (req'[r] = Idle \/ SameRequest(req'[r], req[r]))
  BY IngestMoves, BodyOrder DEF LocksInv
<1>3. ASSUME NEW pc \in IngestSteps, NEW next, Runs(r, pc), Release(r) \/ GoTo(r, next),
             UNCHANGED <<live, published>>, pc # "emit", next # "emit",
             next \in LaterSteps => pc \in LaterSteps \/ ~IsStale(req[r].dev, req[r].ts)
      PROVE  /\ GoesOn(r) /\ LiveChanges(r)
             /\ req'[r] = Idle \/ req'[r].pc # "emit"
  <2>1. req'[r] = Idle \/ req'[r].pc = next
    BY <1>3, ReleaseOrder, GoToPc DEF LocksInv
  <2>2. req[r].op = "ingest" /\ req[r].pc = pc
    BY <1>1, <1>3 DEF Runs, CarriesSample
  <2>3. GoesOn(r)
    BY <1>2, <1>3, <2>1, <2>2, IdleGoesOn DEF GoesOn, SameRequest
  <2>4. QED
    BY <1>3, <2>1, <2>3 DEF LiveChanges
<1>4. /\ "register" \in IngestSteps /\ "previous" \in IngestSteps /\ "append" \in IngestSteps
      /\ "minute" \in IngestSteps /\ "hourly" \in IngestSteps
      /\ "upsert" \in IngestSteps /\ "emit" \in IngestSteps
  BY DEF IngestSteps
<1>5. CASE Register(r)
  <2> DEFINE h == [req[r] EXCEPT !.pc = "previous", !.rec[req[r].dev] = OpenRecord(req[r].dev)]
  <2>0. h.pc = "previous"
    BY <1>1 DEF Handlers
  <2>1. /\ Runs(r, "register") /\ UNCHANGED <<live, published>>
        /\ (Release(r) \/ req' = [req EXCEPT ![r] = h])
    BY <1>5 DEF Register, FailsWith, history
  <2> HIDE DEF h
  <2>2. req'[r] = Idle \/ req'[r].pc = "previous"
    BY <1>1, <2>0, <2>1 DEF Release
  <2>3. req[r].op = "ingest" /\ req[r].pc = "register"
    BY <1>1, <1>4, <2>1 DEF Runs, CarriesSample
  <2>4. GoesOn(r)
    BY <1>2, <2>2, <2>3, IdleGoesOn DEF GoesOn, SameRequest, LaterSteps
  <2>5. QED
    BY <2>1, <2>2, <2>4 DEF LiveChanges
<1>6. CASE ReadPrevious(r)
  <2>1. /\ Runs(r, "previous") /\ UNCHANGED <<live, published>>
        /\ Release(r) \/ (GoTo(r, "append") /\ ~IsStale(req[r].dev, req[r].ts))
    BY <1>6 DEF ReadPrevious, FailsWith, stores
  <2>2. CASE Release(r)
    <3>1. req'[r] = Idle
      BY <1>1, <2>2 DEF Release
    <3>2. QED
      BY <2>1, <3>1, IdleGoesOn DEF LiveChanges
  <2>3. CASE GoTo(r, "append") /\ ~IsStale(req[r].dev, req[r].ts)
    BY <1>3, <1>4, <2>1, <2>3
  <2>4. QED
    BY <2>1, <2>2, <2>3
<1>7. CASE AppendRaw(r)
  <2>1. Runs(r, "append") /\ UNCHANGED <<live, published>> /\ (Release(r) \/ GoTo(r, "minute"))
    BY <1>7 DEF AppendRaw, FailsWith, history
  <2>2. QED
    BY <1>3, <1>4, <2>1 DEF LaterSteps
<1>8. CASE AddMinuteAggregate(r)
  <2>1. Runs(r, "minute") /\ UNCHANGED <<live, published>> /\ (Release(r) \/ GoTo(r, "hourly"))
    BY <1>8 DEF AddMinuteAggregate, Accumulate, RollOver, FailsWith, stores
  <2>2. QED
    BY <1>3, <1>4, <2>1 DEF LaterSteps
<1>9. CASE AddHourlyAggregate(r)
  <2>1. Runs(r, "hourly") /\ UNCHANGED <<live, published>> /\ (Release(r) \/ GoTo(r, "upsert"))
    BY <1>9 DEF AddHourlyAggregate, Accumulate, RollOver, FailsWith, stores
  <2>2. QED
    BY <1>3, <1>4, <2>1 DEF LaterSteps
<1>10. CASE Upsert(r)
  <2>1. /\ Runs(r, "upsert") /\ (Release(r) \/ GoTo(r, "emit"))
        /\ \/ Release(r) /\ UNCHANGED <<live, published>>
           \/ /\ live' = [live EXCEPT ![req[r].dev] = UpsertState(r)]
              /\ published' = [published EXCEPT ![req[r].dev] = @ \cup {req[r].ts}]
    BY <1>10 DEF Upsert, FailsWith, UpsertState
  <2>2. req'[r] = Idle \/ req'[r].pc = "emit"
    BY <2>1, ReleaseOrder, GoToPc DEF LocksInv
  <2>3. req[r].op = "ingest" /\ req[r].pc = "upsert"
    BY <1>1, <1>4, <2>1 DEF Runs, CarriesSample
  <2>4. GoesOn(r)
    BY <1>2, <2>2, <2>3, IdleGoesOn DEF GoesOn, SameRequest, LaterSteps
  <2>5. Release(r) => req'[r] = Idle
    BY <1>1 DEF Release
  <2>6. QED
    BY <2>1, <2>2, <2>4, <2>5 DEF LiveChanges, Takes
<1>11. CASE EmitAccepted(r)
  <2>1. Release(r) /\ UNCHANGED <<live, published>>
    BY <1>11 DEF EmitAccepted, stores, history
  <2>2. req'[r] = Idle
    BY <1>1, <2>1 DEF Release
  <2>3. QED
    BY <2>1, <2>2, IdleGoesOn DEF LiveChanges
<1>12. QED
  BY <1>5, <1>6, <1>7, <1>8, <1>9, <1>10, <1>11 DEF Ingest

\* A handler that queues for a device joins the end of its queue.
LEMMA AdmitOrder ==
    ASSUME LocksInv, NEW r \in Requests, NEW d \in Device, ~InQueue(ingestQ, d, r),
           ingestQ' = Admit(ingestQ, d, r), req'[r].op = "group"
    PROVE  KeepsOrder(r)
<1>1. ingestQ \in Queues /\ r \in Operators /\ \A e \in Device : Once(ingestQ[e])
  BY ServiceTypes DEF LocksInv, QueuesInv, OnceInv
<1>2. \A e \in Device : \A x, y : Before(ingestQ', e, x, y) => Before(ingestQ, e, x, y) \/ y = r
  BY <1>1, AdmitFacts
<1>3. QED
  BY <1>2 DEF KeepsOrder

LEMMA RemoveSequence ==
    ASSUME LocksInv, NEW r \in Requests, Remove(r)
    PROVE  GoesOn(r) /\ LiveChanges(r)
<1>1. BodyMoves(r) /\ AtHead(deviceQ, req[r].dev, r) /\ (req'[r] = Idle \/ SameRequest(req'[r], req[r]))
  BY RemoveMoves, BodyOrder DEF LocksInv
<1>2. req[r].op = "remove"
  <2>1. req[r].pc \in RemoveSteps
    BY DEF Remove, DeleteDevice, ForgetAccumulators, RemoveState, ClearSeries, FailsWith, Runs, RemoveSteps
  <2>2. QED
    BY <2>1 DEF LocksInv, QueuesInv, KindInv
<1>3. GoesOn(r)
  BY <1>1, <1>2, IdleGoesOn DEF GoesOn, SameRequest
<1>4. UNCHANGED published /\ (UNCHANGED live \/ live' = [live EXCEPT ![req[r].dev] = NoLive])
  <2>1. CASE DeleteDevice(r)
    BY <2>1 DEF DeleteDevice
  <2>2. CASE ForgetAccumulators(r)
    BY <2>2 DEF ForgetAccumulators, stores
  <2>3. CASE RemoveState(r)
    BY <2>3 DEF RemoveState
  <2>4. CASE ClearSeries(r)
    BY <2>4 DEF ClearSeries
  <2>5. QED
    BY <2>1, <2>2, <2>3, <2>4 DEF Remove
<1>5. QED
  BY <1>1, <1>2, <1>3, <1>4 DEF LiveChanges, Drops

\* All a step of the handler r does to uploads and live state.
Orderly(r) ==
    /\ GoesOn(r) /\ LiveChanges(r) /\ KeepsOrder(r)
    /\ \A x \in Requests \ {r} : req'[x] = req[x]
    /\ UNCHANGED <<now, sweep>>

LEMMA HandleEffects ==
    ASSUME LocksInv, NEW r \in Requests, Handle(r)
    PROVE  Orderly(r)
<1>1. req \in [Requests -> Handlers] /\ req[r] \in Handlers /\ KindInv(r) /\ RequestInv(r) /\ req[r].devs \subseteq Device
  BY ServiceTypes DEF LocksInv, QueuesInv, TypeOK
<1>2. CASE Ingest(r)
  <2>1. UNCHANGED <<now, sweep>>
    BY <1>2 DEF Ingest, Register, ReadPrevious, AppendRaw, AddMinuteAggregate, AddHourlyAggregate,
                Accumulate, RollOver, Upsert, EmitAccepted
  <2>2. QED
    BY <1>2, <2>1, IngestMoves, BodyOrder, IngestSequence DEF LocksInv, Orderly
<1>3. CASE Remove(r)
  <2>1. UNCHANGED <<now, sweep>>
    BY <1>3 DEF Remove, DeleteDevice, ForgetAccumulators, RemoveState, ClearSeries
  <2>2. QED
    BY <1>3, <2>1, RemoveMoves, BodyOrder, RemoveSequence DEF LocksInv, Orderly
<1>4. ASSUME NEW d \in Device, NEW part \in {"live", "record"}, NotifyGroup(r, d, part)
      PROVE  Orderly(r)
  <2>1. UNCHANGED <<now, sweep, live, published>> /\ req[r].pc = "notify"
    BY <1>4 DEF NotifyGroup, Runs, stores
  <2>2. req[r].op = "group"
    BY <1>1, <2>1 DEF KindInv, GroupSteps
  <2>3. /\ KeepsOrder(r) /\ \A x \in Requests \ {r} : req'[x] = req[x]
        /\ req'[r] = Idle \/ SameRequest(req'[r], req[r])
    BY <1>4, NotifyMoves, BodyOrder DEF LocksInv
  <2>4. GoesOn(r)
    BY <2>2, <2>3, IdleGoesOn DEF GoesOn, SameRequest
  <2>5. QED
    BY <2>1, <2>3, <2>4 DEF LiveChanges, Orderly
<1>5. CASE EnterDeviceQueue(r)
  <2> DEFINE pc == IF Unlocked(r) = {} THEN FirstStep(req[r].op) ELSE "locked"
  <2>1. /\ UNCHANGED <<now, sweep, live, published>> /\ req[r].pc = "queued"
        /\ Release(r) \/ (GoTo(r, pc) /\ UNCHANGED ingestQ)
    BY <1>5 DEF EnterDeviceQueue, stores
  <2>2. pc \notin LaterSteps
    BY DEF FirstStep, LaterSteps
  <2> HIDE DEF pc
  <2>3. CASE Release(r)
    BY <2>1, <2>3, ReleaseOrder, IdleGoesOn DEF LiveChanges, Orderly
  <2>4. CASE GoTo(r, pc) /\ UNCHANGED ingestQ
    <3>1. req'[r] = [req[r] EXCEPT !.pc = pc] /\ req'[r].pc = pc
      BY <2>4, GoToPc DEF LocksInv
    <3>2. GoesOn(r)
      BY <1>1, <2>1, <2>2, <3>1 DEF GoesOn, Handlers
    <3>3. KeepsOrder(r)
      BY <2>4 DEF KeepsOrder, Before
    <3>4. \A x \in Requests \ {r} : req'[x] = req[x]
      BY <1>1, <2>4 DEF GoTo
    <3>5. QED
      BY <2>1, <3>2, <3>3, <3>4 DEF LiveChanges, Orderly
  <2>5. QED
    BY <2>1, <2>3, <2>4
<1>6. ASSUME NEW d \in Device, ~InQueue(ingestQ, d, r), ingestQ' = Admit(ingestQ, d, r),
             req' = [req EXCEPT ![r].pc = "queued", ![r].dev = d], req[r].op = "group",
             UNCHANGED <<now, sweep, live, published>>
      PROVE  Orderly(r)
  <2> DEFINE h == [req[r] EXCEPT !.pc = "queued", !.dev = d]
  <2>1. h.op = "group"
    BY <1>1, <1>6 DEF Handlers
  <2>2. req' = [req EXCEPT ![r] = h]
    BY <1>6
  <2> HIDE DEF h
  <2>3. req'[r].op = "group" /\ \A x \in Requests \ {r} : req'[x] = req[x]
    BY <1>1, <2>1, <2>2
  <2>4. KeepsOrder(r)
    BY <1>6, <2>3, AdmitOrder
  <2>5. QED
    BY <1>6, <2>3, <2>4 DEF GoesOn, LiveChanges, Orderly
<1>7. CASE AcquireNext(r)
  <2>1. UNCHANGED <<now, sweep, live, published>> /\ req[r].pc = "locked"
    BY <1>7 DEF AcquireNext, Runs, stores
  <2>2. req[r].op = "group"
    BY <1>1, <2>1 DEF KindInv, GroupSteps
  <2>3. CASE Release(r)
    BY <2>1, <2>3, ReleaseOrder, IdleGoesOn DEF LiveChanges, Orderly
  <2>4. ASSUME NEW next \in Device, IsLeast(next, Unlocked(r)), ingestQ' = Admit(ingestQ, next, r),
               req' = [req EXCEPT ![r].pc = "queued", ![r].dev = next]
        PROVE  Orderly(r)
    <3>1. ~InQueue(ingestQ, next, r)
      BY <2>4, UnlockedFacts DEF IsLeast
    <3>2. QED
      BY <1>6, <2>1, <2>2, <2>4, <3>1
  <2>5. QED
    BY <1>7, <2>3, <2>4 DEF AcquireNext
<1>8. CASE UpdateGroup(r)
  <2>1. UNCHANGED <<now, sweep, live, published>> /\ req[r].pc = "update"
    BY <1>8 DEF UpdateGroup
  <2>2. req[r].op = "group" /\ \A d \in Device : ~InQueue(ingestQ, d, r)
    BY <1>1, <2>1 DEF KindInv, GroupSteps, RequestInv, Outside
  <2>3. CASE req' = [req EXCEPT ![r] = Idle] /\ UNCHANGED ingestQ
    <3>1. req'[r] = Idle /\ \A x \in Requests \ {r} : req'[x] = req[x]
      BY <1>1, <2>3
    <3>2. KeepsOrder(r)
      BY <2>3 DEF KeepsOrder, Before
    <3>3. QED
      BY <2>1, <3>1, <3>2, IdleGoesOn DEF LiveChanges, Orderly
  <2>4. \/ req' = [req EXCEPT ![r] = Idle] /\ UNCHANGED ingestQ
        \/ \E first \in Device :
              /\ ingestQ' = Admit(ingestQ, first, r)
              /\ req' = [req EXCEPT ![r].pc = "queued", ![r].dev = first]
    BY <1>8 DEF UpdateGroup
  <2>5. QED
    BY <1>6, <2>1, <2>2, <2>3, <2>4
<1>9. QED
  BY <1>2, <1>3, <1>4, <1>5, <1>7, <1>8 DEF Handle, Regroup

-----------------------------------------------------------------------------
(* The live state moves forward *)

\* While r runs its body for d, every other upload of d waits behind it.
LEMMA Serialized ==
    ASSUME LocksInv, NEW r \in Requests, NEW d \in Device, AtHead(deviceQ, d, r),
           NEW x \in Requests \ {r}, IngestOf(x, d)
    PROVE  req[x].pc = "queued" /\ Before(ingestQ, d, r, x)
<1>1. ingestQ \in Queues /\ deviceQ \in Queues
  BY ServiceTypes DEF LocksInv
<1>2. AtHead(ingestQ, d, r)
  BY <1>1, HeadFacts DEF LocksInv, QueuesInv, RequestInv
<1>3. req[x].pc \notin Outside /\ req[x].dev = d
  BY DEF LocksInv, QueuesInv, KindInv, IngestOf, Outside, GroupSteps
<1>4. InQueue(ingestQ, d, x)
  BY <1>3 DEF LocksInv, QueuesInv, RequestInv
<1>5. ~InQueue(deviceQ, d, x)
  <2>1. ~AtHead(ingestQ, d, x)
    BY <1>1, <1>2, HeadFacts
  <2>2. QED
    BY <2>1 DEF LocksInv, QueuesInv, RequestInv
<1>6. req[x].pc = "queued"
  BY <1>3, <1>5 DEF LocksInv, QueuesInv, RequestInv
<1>7. Before(ingestQ, d, r, x)
  <2>1. PICK i \in 1..Len(ingestQ[d]) : ingestQ[d][i] = x
    BY <1>4 DEF InQueue
  <2>2. ingestQ[d] \in Seq(Operators) /\ ingestQ[d] # <<>> /\ Head(ingestQ[d]) = r
    BY <1>1, <1>2 DEF AtHead, Queues
  <2>3. Len(ingestQ[d]) \in Nat /\ 1 \in 1..Len(ingestQ[d]) /\ ingestQ[d][1] = r
    BY <2>1, <2>2
  <2>4. 1 < i
    BY <2>1, <2>3
  <2>5. QED
    BY <2>1, <2>3, <2>4 DEF Before
<1>8. QED
  BY <1>6, <1>7

\* The types of what the order is about.
LEMMA OrderTypes ==
    ASSUME TypeOK
    PROVE  /\ now \in Nat /\ sweep.at \in Nat
           /\ live \in [Device -> LiveStates]
           /\ \A d \in Device : live[d].lastSeen \in Nat /\ live[d].ts \in Nat
           /\ \A d \in Device : sweep.seen[d].lastSeen \in Nat /\ sweep.seen[d].ts \in Nat
           /\ \A r \in Requests : req[r].dev \in Device /\ req[r].recv \in Nat /\ req[r].ts \in Nat
<1>1. Clock \subseteq Nat /\ 0..MaxTimestamp \subseteq Nat
  BY ClockType, MetricsAssumption
<1>2. \A r \in Requests : req[r].dev \in Device /\ req[r].recv \in Clock /\ req[r].ts \in 0..MaxTimestamp
  BY DEF TypeOK, Handlers
<1>3. \A d \in Device : live[d] \in LiveStates
  BY DEF TypeOK
<1>4. \A d \in Device : sweep.seen[d] \in LiveStates
  BY DEF TypeOK
<1>5. sweep.at \in Clock /\ now \in Clock
  BY DEF TypeOK
<1>6. \A s \in LiveStates : s.lastSeen \in Clock /\ s.ts \in 0..MaxTimestamp
  BY DEF LiveStates
<1>7. QED
  BY <1>1, <1>2, <1>3, <1>4, <1>5, <1>6 DEF TypeOK

\* What the step of a handler does to an upload, its own or another's.
LEMMA UploadsKeep ==
    ASSUME LocksInv, NEW r \in Requests, Orderly(r), NEW x \in Requests, req'[x].op = "ingest"
    PROVE  /\ req[x].op = "ingest" /\ req'[x].dev = req[x].dev /\ req'[x].recv = req[x].recv
           /\ req'[x].ts = req[x].ts
           /\ req'[x].pc # "emit" => req[x].pc # "emit"
           /\ req'[x].pc \in LaterSteps => req[x].pc \in LaterSteps \/ ~IsStale(req[x].dev, req[x].ts)
BY DEF Orderly, GoesOn

LEMMA QueuedOrderStep ==
    ASSUME OrderInv, NEW r \in Requests, Orderly(r)
    PROVE  QueuedInOrder'
<1> SUFFICES ASSUME NEW d \in Device, NEW x \in Requests, NEW y \in Requests,
                    IngestOf(x, d)', IngestOf(y, d)', Before(ingestQ', d, x, y)
             PROVE  req'[x].recv < req'[y].recv
  BY DEF QueuedInOrder
<1>1. IngestOf(x, d) /\ IngestOf(y, d) /\ req'[x].recv = req[x].recv /\ req'[y].recv = req[y].recv
  BY UploadsKeep DEF IngestOf, OrderInv
<1>2. Before(ingestQ, d, x, y)
  BY DEF Orderly, KeepsOrder, IngestOf
<1>3. QED
  BY <1>1, <1>2 DEF OrderInv, QueuedInOrder

\* An upload becomes the live reading of its device, all others stay behind it.
LEMMA TakesStep ==
    ASSUME OrderInv, NEW r \in Requests, Orderly(r), Takes(r)
    PROVE  /\ LaterThanLive' /\ MarkInv' /\ LiveInv'
           /\ req[r].op = "ingest" /\ req[r].ts \in Timestamp /\ live[req[r].dev].ts < req[r].ts
           /\ live[req[r].dev].lastSeen < req[r].recv
<1> DEFINE d == req[r].dev
<1>1. TypeOK /\ LocksInv
  BY DEF OrderInv, LocksInv
<1>2. /\ req[r].pc = "upsert" /\ AtHead(deviceQ, d, r) /\ d \in Device
      /\ req[r].op = "ingest" /\ req[r].ts \in Timestamp /\ req[r].ts > 0
  <2>1. req[r].pc = "upsert" /\ AtHead(deviceQ, d, r)
    BY DEF Takes, Runs
  <2>2. req[r].op = "ingest" /\ req[r].ts \in Timestamp /\ d \in Device
    BY <1>1, <2>1, ServiceTypes DEF CarriesSample, IngestSteps
  <2>3. QED
    BY <2>1, <2>2, MetricsAssumption DEF Timestamp
<1>3. /\ 0 < req[r].recv /\ req[r].recv <= now
      /\ live[d].lastSeen < req[r].recv /\ live[d].ts < req[r].ts
  BY <1>2 DEF OrderInv, LaterThanLive
<1>4. /\ live'[d] = UpsertState(r) /\ \A e \in Device \ {d} : live'[e] = live[e]
      /\ UpsertState(r).ts = req[r].ts /\ UpsertState(r).lastSeen = req[r].recv
  BY <1>1, <1>2 DEF Takes, UpsertState, TypeOK
<1>5. UNCHANGED <<now, sweep>> /\ (req'[r].op = "ingest" => req'[r].pc = "emit")
  BY DEF Orderly, Takes, Idle
<1>6. LaterThanLive'
  <2> SUFFICES ASSUME NEW x \in Requests, req'[x].op = "ingest"
               PROVE  LET h == req'[x] IN
                      /\ 0 < h.recv /\ h.recv <= now'
                      /\ live'[h.dev].lastSeen <= h.recv
                      /\ h.pc # "emit" => live'[h.dev].lastSeen < h.recv
                      /\ h.pc \in LaterSteps => live'[h.dev].ts < h.ts
    BY DEF LaterThanLive, LaterSteps
  <2>1. /\ req[x].op = "ingest" /\ req'[x].dev = req[x].dev /\ req'[x].recv = req[x].recv
        /\ req'[x].ts = req[x].ts /\ req[x].dev \in Device
    BY <1>1, UploadsKeep, OrderTypes
  <2>2. CASE x = r
    BY <1>1, <1>3, <1>4, <1>5, <2>1, <2>2, OrderTypes DEF LaterSteps
  <2>3. CASE x # r
    <3>1. req'[x] = req[x]
      BY <2>3 DEF Orderly
    <3>2. /\ 0 < req[x].recv /\ req[x].recv <= now
          /\ live[req[x].dev].lastSeen <= req[x].recv
          /\ req[x].pc # "emit" => live[req[x].dev].lastSeen < req[x].recv
          /\ req[x].pc \in LaterSteps => live[req[x].dev].ts < req[x].ts
      BY <2>1 DEF OrderInv, LaterThanLive, LaterSteps
    <3>3. CASE req[x].dev # d
      BY <1>4, <1>5, <2>1, <3>1, <3>2, <3>3
    <3>4. CASE req[x].dev = d
      <4>1. req[x].pc = "queued" /\ Before(ingestQ, d, r, x)
        BY <1>1, <1>2, <2>1, <2>3, <3>4, Serialized DEF IngestOf
      <4>2. req[r].recv < req[x].recv
        BY <1>2, <2>1, <3>4, <4>1 DEF OrderInv, QueuedInOrder, IngestOf
      <4>3. QED
        BY <1>1, <1>4, <1>5, <3>1, <3>2, <3>4, <4>1, <4>2, OrderTypes DEF LaterSteps
    <3>5. QED
      BY <3>3, <3>4
  <2>4. QED
    BY <2>2, <2>3
<1>7. MarkInv'
  <2>1. sweep'.at <= now'
    BY <1>5 DEF OrderInv, MarkInv
  <2>2. ASSUME NEW e \in Device, sweep'.pc[e] = "mark"
        PROVE  LET s == sweep'.seen[e] IN
               /\ s.ts # 0 /\ sweep'.at - s.lastSeen >= HeartbeatTimeout
               /\ s.lastSeen <= live'[e].lastSeen \/ live'[e].ts = 0
               /\ live'[e].lastSeen = s.lastSeen /\ live'[e].ts # 0 => live'[e].ts = s.ts
               /\ \A x \in Requests : IngestOf(x, e)' /\ req'[x].pc # "emit" => s.lastSeen < req'[x].recv
    <3> DEFINE s == sweep.seen[e]
    <3>1. /\ s.ts # 0 /\ sweep.at - s.lastSeen >= HeartbeatTimeout
          /\ s.lastSeen <= live[e].lastSeen \/ live[e].ts = 0
          /\ live[e].lastSeen = s.lastSeen /\ live[e].ts # 0 => live[e].ts = s.ts
          /\ \A x \in Requests : IngestOf(x, e) /\ req[x].pc # "emit" => s.lastSeen < req[x].recv
      BY <1>5, <2>2 DEF OrderInv, MarkInv
    <3>2. \A x \in Requests : IngestOf(x, e)' /\ req'[x].pc # "emit" => s.lastSeen < req'[x].recv
      BY <1>1, <3>1, UploadsKeep DEF IngestOf
    <3>3. /\ s.lastSeen <= live'[e].lastSeen \/ live'[e].ts = 0
          /\ live'[e].lastSeen = s.lastSeen /\ live'[e].ts # 0 => live'[e].ts = s.ts
      <4>1. CASE e = d
        <5>1. s.lastSeen < req[r].recv
          BY <1>2, <3>1, <4>1 DEF IngestOf
        <5>2. QED
          BY <1>1, <1>4, <4>1, <5>1, OrderTypes
      <4>2. CASE e # d
        BY <1>4, <3>1, <4>2
      <4>3. QED
        BY <4>1, <4>2
    <3>4. QED
      BY <1>5, <3>1, <3>2, <3>3
  <2>3. QED
    BY <2>1, <2>2 DEF MarkInv
<1>8. LiveInv'
  <2>1. \A e \in Device : live[e].lastSeen <= now /\ (live[e].ts = 0 => live[e] = NoLive)
    BY DEF OrderInv, LiveInv
  <2>2. QED
    BY <1>2, <1>3, <1>4, <1>5, <2>1 DEF LiveInv
<1>9. QED
  BY <1>2, <1>3, <1>6, <1>7, <1>8

UploadKept(x) ==
    req'[x].op = "ingest" =>
        /\ req[x].op = "ingest" /\ req'[x].dev = req[x].dev /\ req'[x].recv = req[x].recv
        /\ req'[x].ts = req[x].ts
        /\ req'[x].pc # "emit" => req[x].pc # "emit"
        /\ req'[x].pc \in LaterSteps => req[x].pc \in LaterSteps \/ ~IsStale(req[x].dev, req[x].ts)

\* A new upload, received at the present instant.
Received(x) ==
    /\ req'[x].op = "ingest" /\ req'[x].pc = "queued" /\ req'[x].recv = now' /\ now < now'

\* The reading stays, online or not, or is dropped.
LiveKept(e) ==
    \/ live'[e].ts = live[e].ts /\ live'[e].lastSeen = live[e].lastSeen /\ (live[e].ts = 0 => live'[e] = live[e])
    \/ live'[e] = NoLive

\* No device is marked that was not going to be.
MarksKept ==
    /\ sweep'.at <= now'
    /\ \A e \in Device : sweep'.pc[e] = "mark" =>
          sweep.pc[e] = "mark" /\ sweep'.seen[e] = sweep.seen[e] /\ sweep'.at = sweep.at

LEMMA LiveKeeps ==
    ASSUME OrderInv, TypeOK', \A x \in Requests : UploadKept(x) \/ Received(x), \A e \in Device : LiveKept(e),
           now <= now'
    PROVE  LaterThanLive' /\ LiveInv' /\ (MarksKept => MarkInv')
<1>1. TypeOK /\ LocksInv
  BY DEF OrderInv, LocksInv
<1>2. /\ now \in Nat /\ now' \in Nat
      /\ \A d \in Device : live[d].lastSeen \in Nat /\ live[d].ts \in Nat
      /\ \A r \in Requests : req[r].dev \in Device /\ req[r].recv \in Nat /\ req[r].ts \in Nat
      /\ \A r \in Requests : req'[r].dev \in Device
      /\ sweep.at \in Nat /\ \A d \in Device : sweep.seen[d].lastSeen \in Nat
  <2>1. now' \in Nat
    BY ClockType DEF TypeOK
  <2>2. \A r \in Requests : req'[r].dev \in Device
    BY DEF TypeOK, Handlers
  <2>3. QED
    BY <1>1, <2>1, <2>2, OrderTypes
<1>3. NoLive.ts = 0 /\ NoLive.lastSeen = 0
  BY DEF NoLive
<1>4. LaterThanLive'
  <2> SUFFICES ASSUME NEW x \in Requests, req'[x].op = "ingest"
               PROVE  LET h == req'[x] IN
                      /\ 0 < h.recv /\ h.recv <= now'
                      /\ live'[h.dev].lastSeen <= h.recv
                      /\ h.pc # "emit" => live'[h.dev].lastSeen < h.recv
                      /\ h.pc \in LaterSteps => live'[h.dev].ts < h.ts
    BY DEF LaterThanLive, LaterSteps
  <2>0. CASE Received(x)
    <3>1. live[req'[x].dev].lastSeen <= now /\ LiveKept(req'[x].dev)
      BY <1>2 DEF OrderInv, LiveInv
    <3>2. QED
      BY <1>2, <1>3, <2>0, <3>1 DEF Received, LiveKept, LaterSteps
  <2> SUFFICES ASSUME UploadKept(x)
               PROVE  LET h == req'[x] IN
                      /\ 0 < h.recv /\ h.recv <= now'
                      /\ live'[h.dev].lastSeen <= h.recv
                      /\ h.pc # "emit" => live'[h.dev].lastSeen < h.recv
                      /\ h.pc \in LaterSteps => live'[h.dev].ts < h.ts
    BY <2>0
  <2> DEFINE d == req[x].dev
  <2>1. /\ req[x].op = "ingest" /\ req'[x].dev = d /\ req'[x].recv = req[x].recv
        /\ req'[x].ts = req[x].ts
        /\ req'[x].pc # "emit" => req[x].pc # "emit"
        /\ req'[x].pc \in LaterSteps => req[x].pc \in LaterSteps \/ ~IsStale(d, req[x].ts)
    BY DEF UploadKept
  <2>2. /\ 0 < req[x].recv /\ req[x].recv <= now
        /\ live[d].lastSeen <= req[x].recv
        /\ req[x].pc # "emit" => live[d].lastSeen < req[x].recv
        /\ req[x].pc \in LaterSteps => live[d].ts < req[x].ts
    BY <2>1 DEF OrderInv, LaterThanLive, LaterSteps
  <2>3. d \in Device /\ LiveKept(d)
    BY <1>2
  <2>4. req[x].ts > 0
    <3>1. req[x].ts \in Timestamp
      BY <1>1, <2>1 DEF TypeOK, CarriesSample
    <3>2. QED
      BY <3>1, MetricsAssumption DEF Timestamp
  <2>5. req'[x].pc \in LaterSteps => live[d].ts < req[x].ts
    BY <1>2, <2>1, <2>2, <2>3, <2>4 DEF IsStale
  <2> HIDE DEF d
  <2>6. QED
    BY <1>2, <1>3, <2>1, <2>2, <2>3, <2>4, <2>5 DEF LiveKept
<1>5. LiveInv'
  BY <1>2, <1>3 DEF LiveInv, OrderInv, LiveKept
<1>6. ASSUME MarksKept PROVE MarkInv'
  <2>1. sweep'.at <= now'
    BY <1>6 DEF MarksKept
  <2>2. ASSUME NEW e \in Device, sweep'.pc[e] = "mark"
        PROVE  LET s == sweep'.seen[e] IN
               /\ s.ts # 0 /\ sweep'.at - s.lastSeen >= HeartbeatTimeout
               /\ s.lastSeen <= live'[e].lastSeen \/ live'[e].ts = 0
               /\ live'[e].lastSeen = s.lastSeen /\ live'[e].ts # 0 => live'[e].ts = s.ts
               /\ \A x \in Requests : IngestOf(x, e)' /\ req'[x].pc # "emit" => s.lastSeen < req'[x].recv
    <3> DEFINE s == sweep.seen[e]
    <3>1. sweep.pc[e] = "mark" /\ sweep'.seen[e] = s /\ sweep'.at = sweep.at
      BY <1>6, <2>2 DEF MarksKept
    <3>2. /\ s.ts # 0 /\ sweep.at - s.lastSeen >= HeartbeatTimeout
          /\ s.lastSeen <= live[e].lastSeen \/ live[e].ts = 0
          /\ live[e].lastSeen = s.lastSeen /\ live[e].ts # 0 => live[e].ts = s.ts
          /\ \A x \in Requests : IngestOf(x, e) /\ req[x].pc # "emit" => s.lastSeen < req[x].recv
      BY <3>1 DEF OrderInv, MarkInv
    <3>3. \A x \in Requests : IngestOf(x, e)' /\ req'[x].pc # "emit" => s.lastSeen < req'[x].recv
      <4>1. s.lastSeen < now'
        BY <1>2, <3>2, MetricsAssumption DEF OrderInv, MarkInv
      <4>2. QED
        BY <3>2, <4>1 DEF IngestOf, UploadKept, Received
    <3>4. /\ s.lastSeen <= live'[e].lastSeen \/ live'[e].ts = 0
          /\ live'[e].lastSeen = s.lastSeen /\ live'[e].ts # 0 => live'[e].ts = s.ts
      BY <1>2, <1>3, <3>2 DEF LiveKept
    <3> HIDE DEF s
    <3>5. QED
      BY <3>1, <3>2, <3>3, <3>4
  <2>3. QED
    BY <2>1, <2>2 DEF MarkInv
<1>7. QED
  BY <1>4, <1>5, <1>6

LEMMA HandleOrder ==
    ASSUME OrderInv, TypeOK', NEW r \in Requests, Handle(r)
    PROVE  (QueuedInOrder /\ LaterThanLive /\ MarkInv /\ LiveInv)'
<1>1. Orderly(r) /\ LocksInv /\ TypeOK
  BY HandleEffects DEF OrderInv, LocksInv
<1>2. QueuedInOrder'
  BY <1>1, QueuedOrderStep
<1>3. CASE Takes(r)
  BY <1>1, <1>2, <1>3, TakesStep
<1>4. CASE ~Takes(r)
  <2>1. \A e \in Device : live'[e] = live[e] \/ live'[e] = NoLive
    BY <1>1, <1>4 DEF Orderly, LiveChanges, Drops, TypeOK
  <2>2. \A e \in Device : LiveKept(e)
    BY <2>1 DEF LiveKept
  <2>3. \A x \in Requests : UploadKept(x)
    BY <1>1, UploadsKeep DEF UploadKept
  <2>4. UNCHANGED <<now, sweep>>
    BY <1>1 DEF Orderly
  <2>5. MarksKept /\ now <= now'
    BY <1>1, <2>4, OrderTypes DEF MarksKept, OrderInv, MarkInv
  <2>6. QED
    BY <1>2, <2>2, <2>3, <2>5, LiveKeeps
<1>5. QED
  BY <1>3, <1>4

\* What is admitted now was received last, or is no upload.
LEMMA QueuedKeeps ==
    ASSUME OrderInv, TypeOK', \A x \in Requests : UploadKept(x) \/ Received(x),
           \A d \in Device : \A x, y \in Requests : Before(ingestQ', d, x, y) =>
               \/ Before(ingestQ, d, x, y) /\ UploadKept(x) /\ UploadKept(y)
               \/ UploadKept(x) /\ Received(y)
               \/ req'[y].op # "ingest"
    PROVE  QueuedInOrder'
<1> SUFFICES ASSUME NEW d \in Device, NEW x \in Requests, NEW y \in Requests,
                    IngestOf(x, d)', IngestOf(y, d)', Before(ingestQ', d, x, y)
             PROVE  req'[x].recv < req'[y].recv
  BY DEF QueuedInOrder
<1>1. UploadKept(x) => IngestOf(x, d) /\ req'[x].recv = req[x].recv
  BY DEF IngestOf, UploadKept
<1>2. UploadKept(y) => IngestOf(y, d) /\ req'[y].recv = req[y].recv
  BY DEF IngestOf, UploadKept
<1>3. CASE UploadKept(x) /\ Received(y)
  <2>1. req[x].recv <= now
    BY <1>1, <1>3 DEF OrderInv, LaterThanLive, IngestOf
  <2>2. req[x].recv \in Nat /\ now \in Nat
    BY OrderTypes DEF OrderInv, LocksInv
  <2>3. now < now' /\ req'[y].recv = now'
    BY <1>3 DEF Received
  <2>4. now' \in Nat
    BY ClockType DEF TypeOK
  <2>5. QED
    BY <1>1, <1>3, <2>1, <2>2, <2>3, <2>4
<1>4. CASE Before(ingestQ, d, x, y) /\ UploadKept(x) /\ UploadKept(y)
  BY <1>1, <1>2, <1>4 DEF OrderInv, QueuedInOrder
<1>5. QED
  BY <1>3, <1>4 DEF IngestOf

LEMMA SubmitOrder ==
    ASSUME OrderInv, TypeOK', NEW r \in Requests, Submit(r)
    PROVE  (QueuedInOrder /\ LaterThanLive /\ MarkInv /\ LiveInv)'
<1>1. TypeOK /\ LocksInv
  BY DEF OrderInv, LocksInv
<1>2. /\ now \in Nat /\ now' = now + 1 /\ UNCHANGED <<live, sweep>> /\ req[r].pc = "idle"
  BY <1>1, OrderTypes DEF Submit, SubmitIngest, SubmitRemove, SubmitGroup, Receives, stores
<1>3. \A d \in Device : ~InQueue(ingestQ, d, r)
  BY <1>1, <1>2 DEF LocksInv, QueuesInv, RequestInv, Outside
<1>4. \A e \in Device : LiveKept(e)
  BY <1>2 DEF LiveKept
<1>5. now <= now' /\ MarksKept
  BY <1>1, <1>2, OrderTypes DEF MarksKept, OrderInv, MarkInv
<1>6. ASSUME NEW h, req' = [req EXCEPT ![r] = h], h.op = "ingest" => h.pc = "queued" /\ h.recv = now',
             (UNCHANGED ingestQ /\ h.op # "ingest") \/ \E d \in Device : ingestQ' = Admit(ingestQ, d, r)
      PROVE  (QueuedInOrder /\ LaterThanLive /\ MarkInv /\ LiveInv)'
  <2>1. req'[r] = h /\ \A x \in Requests \ {r} : req'[x] = req[x]
    BY <1>1, <1>6 DEF TypeOK
  <2>2. \A x \in Requests \ {r} : UploadKept(x)
    BY <2>1 DEF UploadKept
  <2>3. h.op = "ingest" => Received(r)
    BY <1>2, <1>6, <2>1 DEF Received
  <2>4. h.op # "ingest" => UploadKept(r)
    BY <2>1 DEF UploadKept
  <2>5. \A d \in Device : \A x, y \in Requests : Before(ingestQ', d, x, y) =>
            Before(ingestQ, d, x, y) \/ (y = r /\ InQueue(ingestQ, d, x))
    <3>1. ASSUME NEW d \in Device, ingestQ' = Admit(ingestQ, d, r) PROVE <2>5
      <4>1. ingestQ \in Queues /\ r \in Operators /\ \A e \in Device : Once(ingestQ[e])
        BY <1>1, ServiceTypes DEF LocksInv, QueuesInv, OnceInv
      <4>2. QED
        BY <1>3, <3>1, <4>1, AdmitFacts
    <3>2. CASE UNCHANGED ingestQ
      BY <3>2 DEF Before
    <3>3. QED
      BY <1>6, <3>1, <3>2
  <2>6. \A d \in Device : \A x, y : Before(ingestQ, d, x, y) => InQueue(ingestQ, d, x) /\ InQueue(ingestQ, d, y)
    BY DEF Before, InQueue
  <2>7. QueuedInOrder'
    BY <1>3, <2>1, <2>2, <2>3, <2>4, <2>5, <2>6, QueuedKeeps
  <2>8. QED
    BY <1>4, <1>5, <2>2, <2>3, <2>4, <2>7, LiveKeeps
<1>7. CASE UNCHANGED <<req, ingestQ>>
  <2>1. \A x \in Requests : UploadKept(x)
    BY <1>7 DEF UploadKept
  <2>2. QueuedInOrder'
    BY <1>7, <2>1, QueuedKeeps DEF Before
  <2>3. QED
    BY <1>4, <1>5, <2>1, <2>2, LiveKeeps
<1>8. ASSUME NEW d \in Device, NEW ts \in Timestamp, SubmitIngest(r, d, ts)
      PROVE  (QueuedInOrder /\ LaterThanLive /\ MarkInv /\ LiveInv)'
  <2> DEFINE h == [Idle EXCEPT !.op = "ingest", !.pc = "queued", !.dev = d, !.devs = {d}, !.ts = ts, !.recv = now']
  <2>1. h.pc = "queued" /\ h.recv = now'
    BY DEF Idle
  <2>2. \/ UNCHANGED <<req, ingestQ>>
        \/ ingestQ' = Admit(ingestQ, d, r) /\ req' = [req EXCEPT ![r] = h]
    BY <1>8 DEF SubmitIngest
  <2> HIDE DEF h
  <2>3. QED
    BY <1>6, <1>7, <2>1, <2>2
<1>9. ASSUME NEW d \in Device, SubmitRemove(r, d)
      PROVE  (QueuedInOrder /\ LaterThanLive /\ MarkInv /\ LiveInv)'
  <2> DEFINE h == [Idle EXCEPT !.op = "remove", !.pc = "queued", !.dev = d, !.devs = {d}]
  <2>1. h.op = "remove"
    BY DEF Idle
  <2>2. \/ UNCHANGED <<req, ingestQ>>
        \/ ingestQ' = Admit(ingestQ, d, r) /\ req' = [req EXCEPT ![r] = h]
    BY <1>9 DEF SubmitRemove
  <2> HIDE DEF h
  <2>3. QED
    BY <1>6, <1>7, <2>1, <2>2
<1>10. ASSUME NEW D, NEW g, SubmitGroup(r, D, g)
       PROVE  (QueuedInOrder /\ LaterThanLive /\ MarkInv /\ LiveInv)'
  <2> DEFINE h == [Idle EXCEPT !.op = "group", !.pc = "update", !.devs = D, !.todo = D, !.group = g]
  <2>1. h.op = "group"
    BY DEF Idle
  <2>2. UNCHANGED ingestQ /\ req' = [req EXCEPT ![r] = h]
    BY <1>10 DEF SubmitGroup
  <2> HIDE DEF h
  <2>3. QED
    BY <1>6, <2>1, <2>2
<1>11. QED
  BY <1>8, <1>9, <1>10 DEF Submit

\* A step that is not a handler's: no upload moves, or the process restarts.
LEMMA QuietOrder ==
    ASSUME OrderInv, TypeOK', UNCHANGED req \/ \A x \in Requests : req'[x] = Idle,
           \A d \in Device : \A x, y \in Requests : Before(ingestQ', d, x, y) => Before(ingestQ, d, x, y),
           \A e \in Device : LiveKept(e), now <= now'
    PROVE  QueuedInOrder' /\ LaterThanLive' /\ LiveInv' /\ (MarksKept => MarkInv')
<1>1. \A x \in Requests : UploadKept(x)
  <2>1. CASE UNCHANGED req
    BY <2>1 DEF UploadKept
  <2>2. CASE \A x \in Requests : req'[x] = Idle
    <3>1. Idle.op = "none"
      BY DEF Idle
    <3>2. QED
      BY <2>2, <3>1 DEF UploadKept
  <2>3. QED
    BY <2>1, <2>2
<1>2. QueuedInOrder'
  BY <1>1, QueuedKeeps
<1>3. QED
  BY <1>1, <1>2, LiveKeeps

\* MARK_OFFLINE writes the captured state back: it is the one that is there.
LEMMA MarkWrites ==
    ASSUME OrderInv, NEW d \in Device, sweep.pc[d] = "mark", MarkMatches(d), live' = MarkedOffline(d)
    PROVE  /\ live'[d].ts = live[d].ts /\ live'[d].lastSeen = live[d].lastSeen /\ live'[d].status = "offline"
           /\ \A e \in Device \ {d} : live'[e] = live[e]
           /\ \A e \in Device : LiveKept(e)
           /\ now - live[d].lastSeen >= HeartbeatTimeout
<1>1. TypeOK
  BY DEF OrderInv, LocksInv
<1>2. /\ live[d].ts = sweep.seen[d].ts /\ live[d].lastSeen = sweep.seen[d].lastSeen /\ live[d].ts # 0
      /\ sweep.at <= now /\ sweep.at - sweep.seen[d].lastSeen >= HeartbeatTimeout
  BY DEF OrderInv, MarkInv, MarkMatches
<1>3. sweep.seen[d] \in LiveStates /\ live \in [Device -> LiveStates]
  BY <1>1 DEF TypeOK
<1>4. live'[d] = [sweep.seen[d] EXCEPT !.status = "offline"] /\ \A e \in Device \ {d} : live'[e] = live[e]
  BY <1>3 DEF MarkedOffline
<1>5. live'[d].ts = live[d].ts /\ live'[d].lastSeen = live[d].lastSeen /\ live'[d].status = "offline"
  BY <1>2, <1>3, <1>4 DEF LiveStates
<1>6. \A e \in Device : LiveKept(e)
  BY <1>2, <1>4, <1>5 DEF LiveKept
<1>7. now - live[d].lastSeen >= HeartbeatTimeout
  BY <1>1, <1>2, OrderTypes, MetricsAssumption
<1>8. QED
  BY <1>4, <1>5, <1>6, <1>7

LEMMA SweepOrder ==
    ASSUME OrderInv, TypeOK', NEW d \in Device, SweepStep(d)
    PROVE  (QueuedInOrder /\ LaterThanLive /\ MarkInv /\ LiveInv)'
<1>1. TypeOK /\ LocksInv /\ now \in Nat /\ sweep \in SweepStates
  BY OrderTypes DEF OrderInv, LocksInv, TypeOK, SweepStates
<1>2. /\ ingestQ \in Queues /\ "sweep" \in Operators /\ "sweep" \notin Requests
      /\ \A e \in Device : Once(ingestQ[e])
  BY <1>1, ServiceTypes, MetricsAssumption DEF LocksInv, QueuesInv, OnceInv, Operators
<1>3. UNCHANGED <<req, now>>
  BY DEF SweepStep, MarkOffline, EnterSweep, NotifyOffline
<1>4. MarksKept
  <2>1. \/ \E pc \in {"none", "queued", "notify"} : sweep' = [sweep EXCEPT !.pc[d] = pc]
        \/ sweep' = [sweep EXCEPT !.pc[d] = "none", !.failed = TRUE]
    BY DEF SweepStep, MarkOffline, EnterSweep, NotifyOffline
  <2>2. \E pc \in {"none", "queued", "notify"} : sweep'.pc = [sweep.pc EXCEPT ![d] = pc] /\ sweep'.seen = sweep.seen /\ sweep'.at = sweep.at
    BY <1>1, <2>1 DEF SweepStates
  <2>3. sweep.pc \in [Device -> {"none", "mark", "queued", "notify"}]
    BY <1>1 DEF SweepStates
  <2>4. QED
    BY <1>3, <2>2, <2>3 DEF MarksKept, OrderInv, MarkInv
<1>5. \A e \in Device : LiveKept(e)
  <2>1. UNCHANGED live \/ (sweep.pc[d] = "mark" /\ MarkMatches(d) /\ live' = MarkedOffline(d))
    BY DEF SweepStep, MarkOffline, EnterSweep, NotifyOffline, stores
  <2>2. UNCHANGED live => \A e \in Device : LiveKept(e)
    BY DEF LiveKept
  <2>3. QED
    BY <2>1, <2>2, MarkWrites
<1>6. \A e \in Device : \A x, y \in Requests : Before(ingestQ', e, x, y) => Before(ingestQ, e, x, y)
  <2>1. CASE UNCHANGED ingestQ
    BY <2>1 DEF Before
  <2>2. CASE sweep.pc[d] = "mark" /\ ingestQ' = Admit(ingestQ, d, "sweep")
    <3>1. ~InQueue(ingestQ, d, "sweep")
      BY <1>1, <2>2 DEF LocksInv, QueuesInv, SweepInv
    <3>2. QED
      BY <1>2, <2>2, <3>1, AdmitFacts
  <2>3. CASE AtHead(ingestQ, d, "sweep") /\ ingestQ' = Popped(ingestQ, d)
    BY <1>2, <2>3, PopFacts
  <2>4. QED
    BY <2>1, <2>2, <2>3 DEF SweepStep, MarkOffline, EnterSweep, NotifyOffline, Popped
<1>7. QED
  BY <1>1, <1>3, <1>4, <1>5, <1>6, QuietOrder

\* The page holds devices that were silent for a timeout; an upload that is not
\* published yet was received later than the reading captured.
LEMMA ListOrder ==
    ASSUME OrderInv, TypeOK', ListExpired
    PROVE  (QueuedInOrder /\ LaterThanLive /\ MarkInv /\ LiveInv)'
<1>1. TypeOK /\ LocksInv /\ now \in Nat /\ sweep \in SweepStates /\ sweep.at <= now
  BY OrderTypes DEF OrderInv, LocksInv, TypeOK, SweepStates, MarkInv
<1>2. UNCHANGED <<req, now, ingestQ, live>>
  BY DEF ListExpired, stores
<1>3. /\ \A e \in Device : LiveKept(e)
      /\ \A e \in Device : \A x, y \in Requests : Before(ingestQ', e, x, y) => Before(ingestQ, e, x, y)
  BY <1>2 DEF LiveKept, Before
<1>4. MarksKept => (QueuedInOrder /\ LaterThanLive /\ MarkInv /\ LiveInv)'
  BY <1>1, <1>2, <1>3, QuietOrder
<1>5. ASSUME NEW f, sweep' = [NoSweep EXCEPT !.failed = f] PROVE MarksKept
  <2>1. sweep'.at = 0 /\ \A e \in Device : sweep'.pc[e] = "none"
    BY <1>5 DEF NoSweep
  <2>2. QED
    BY <1>1, <1>2, <2>1 DEF MarksKept
<1>6. ASSUME NEW page \in SUBSET Expired,
             sweep' = [sweep EXCEPT !.pc = [d \in Device |-> IF d \in page THEN "mark" ELSE "none"],
                                    !.seen = [d \in Device |-> IF d \in page THEN live[d] ELSE NoLive]]
      PROVE  MarkInv'
  <2>1. /\ sweep'.at = sweep.at
        /\ \A e \in Device : sweep'.pc[e] = "mark" => e \in page /\ sweep'.seen[e] = live[e]
    BY <1>1, <1>6 DEF SweepStates
  <2>2. ASSUME NEW e \in page
        PROVE  /\ live[e].ts # 0 /\ sweep.at - live[e].lastSeen >= HeartbeatTimeout
               /\ live[e].lastSeen <= live[e].lastSeen
               /\ \A x \in Requests : IngestOf(x, e) /\ req[x].pc # "emit" => live[e].lastSeen < req[x].recv
    <3>1. e \in Device /\ live[e].status = "online" /\ sweep.at - live[e].lastSeen >= HeartbeatTimeout
      BY DEF Expired
    <3>2. live[e].ts # 0
      BY <3>1 DEF OrderInv, LiveInv, NoLive
    <3>3. \A x \in Requests : IngestOf(x, e) /\ req[x].pc # "emit" => live[e].lastSeen < req[x].recv
      BY DEF OrderInv, LaterThanLive, IngestOf
    <3>4. QED
      BY <1>1, <3>1, <3>2, <3>3, OrderTypes
  <2>3. QED
    BY <1>1, <1>2, <2>1, <2>2 DEF MarkInv, IngestOf
<1>7. (QueuedInOrder /\ LaterThanLive /\ LiveInv)'
  BY <1>1, <1>2, <1>3, QuietOrder
<1>8. MarkInv'
  BY <1>4, <1>5, <1>6 DEF ListExpired
<1>9. QED
  BY <1>7, <1>8

LEMMA OtherOrder ==
    ASSUME OrderInv, TypeOK',
           \/ StartFlush \/ \E d \in Device : FlushStep(d)
           \/ StartSweep \/ Shutdown \/ Process \/ Restart \/ Tick \/ UNCHANGED vars
    PROVE  /\ (QueuedInOrder /\ LaterThanLive /\ MarkInv /\ LiveInv)'
           /\ UNCHANGED <<live, published>>
<1>1. TypeOK /\ now \in Nat /\ sweep \in SweepStates /\ sweep.at <= now
  BY OrderTypes DEF OrderInv, LocksInv, TypeOK, SweepStates, MarkInv
<1>2. UNCHANGED <<live, published>> /\ \A e \in Device : LiveKept(e)
  <2>1. UNCHANGED <<live, published>>
    BY DEF StartFlush, FlushStep, AdmitFlush, FlushMinute, FlushHourly, FlushStage, StartSweep,
           Shutdown, Process, HttpDrained, FlushDrained, SweepDrained, LastFlush, Stop, Restart, Tick,
           vars, stores, history
  <2>2. QED
    BY <2>1 DEF LiveKept
<1>3. CASE StartFlush \/ \E d \in Device : FlushStep(d)
  <2>1. UNCHANGED <<req, now, sweep, ingestQ>>
    BY <1>3 DEF StartFlush, FlushStep, AdmitFlush, FlushMinute, FlushHourly, FlushStage
  <2>2. MarksKept
    BY <1>1, <2>1 DEF MarksKept
  <2>3. QED
    BY <1>1, <1>2, <2>1, <2>2, QuietOrder DEF Before
<1>4. CASE StartSweep
  <2>1. UNCHANGED <<req, now, ingestQ>> /\ sweep' = [NoSweep EXCEPT !.running = TRUE, !.at = now]
    BY <1>4 DEF StartSweep
  <2>2. sweep'.at = now /\ \A e \in Device : sweep'.pc[e] = "none"
    BY <2>1 DEF NoSweep
  <2>3. MarksKept
    BY <1>1, <2>1, <2>2 DEF MarksKept
  <2>4. QED
    BY <1>1, <1>2, <2>1, <2>3, QuietOrder DEF Before
<1>5. CASE Restart
  <2>1. /\ \A r \in Requests : req'[r] = Idle
        /\ \A d \in Device : ingestQ'[d] = <<>>
        /\ UNCHANGED now /\ sweep' = NoSweep
    BY <1>5 DEF Restart
  <2>2. sweep'.at = 0 /\ \A e \in Device : sweep'.pc[e] = "none"
    BY <2>1 DEF NoSweep
  <2>3. MarksKept
    BY <1>1, <2>1, <2>2 DEF MarksKept
  <2>4. \A d \in Device : \A x, y \in Requests : ~Before(ingestQ', d, x, y)
    BY <2>1 DEF Before
  <2>5. QED
    BY <1>1, <1>2, <2>1, <2>3, <2>4, QuietOrder
<1>6. CASE Shutdown \/ Process \/ Tick \/ UNCHANGED vars
  <2>1. UNCHANGED <<req, sweep, ingestQ>> /\ (now' = now \/ now' = now + 1)
    BY <1>6 DEF Shutdown, Process, HttpDrained, FlushDrained, SweepDrained, LastFlush, Stop, Tick, vars, memory
  <2>2. now <= now'
    BY <1>1, <2>1
  <2>3. sweep.at <= now'
    BY <1>1, <2>1, OrderTypes
  <2>4. MarksKept
    BY <2>1, <2>3 DEF MarksKept
  <2>5. QED
    BY <1>1, <1>2, <2>1, <2>2, <2>4, QuietOrder DEF Before
<1>7. QED
  BY <1>3, <1>4, <1>5, <1>6

LEMMA OrderStep == OrderInv /\ [Next]_vars => OrderInv'
<1> SUFFICES ASSUME OrderInv, [Next]_vars PROVE OrderInv'
  OBVIOUS
<1>1. LocksInv' /\ TypeOK'
  BY LocksStep DEF OrderInv, LocksInv
<1>2. (QueuedInOrder /\ LaterThanLive /\ MarkInv /\ LiveInv)'
  BY <1>1, HandleOrder, SubmitOrder, SweepOrder, ListOrder, OtherOrder DEF Next
<1>3. QED
  BY <1>1, <1>2 DEF OrderInv

LEMMA OrderInit == Init => OrderInv
<1> SUFFICES ASSUME Init PROVE OrderInv
  OBVIOUS
<1>1. LocksInv
  <2>1. NothingQueued
    BY DEF Init, NothingQueued
  <2>2. QED
    BY <2>1, TypeInit, EmptyQueues DEF LocksInv
<1>2. \A r \in Requests : req[r].op = "none"
  BY DEF Init, Idle
<1>3. \A d \in Device : sweep.pc[d] = "none"
  BY DEF Init, NoSweep
<1>4. sweep.at = 0 /\ now = 0 /\ \A d \in Device : live[d] = NoLive /\ live[d].lastSeen = 0
  BY DEF Init, NoSweep, NoLive
<1>5. QED
  BY <1>1, <1>2, <1>3, <1>4 DEF OrderInv, QueuedInOrder, IngestOf, LaterThanLive, MarkInv, LiveInv

LEMMA OrderInvariant == Spec => []OrderInv
BY OrderInit, OrderStep, PTL DEF Spec

-----------------------------------------------------------------------------
(* What an agent is promised *)

TakenBy(d, r) ==
    /\ live' = [live EXCEPT ![d] = UpsertState(r)]
    /\ published' = [published EXCEPT ![d] = @ \cup {req[r].ts}]
    /\ req[r].ts \in Timestamp /\ live[d].ts < req[r].ts /\ live[d].lastSeen < req[r].recv

Forgotten(d) == live' = [live EXCEPT ![d] = NoLive] /\ UNCHANGED published

MarkedSilent(d) ==
    /\ live'[d].ts = live[d].ts /\ live'[d].lastSeen = live[d].lastSeen /\ live'[d].status = "offline"
    /\ \A e \in Device \ {d} : live'[e] = live[e]
    /\ now - live[d].lastSeen >= HeartbeatTimeout
    /\ UNCHANGED published

LEMMA LiveSteps ==
    ASSUME OrderInv, [Next]_vars
    PROVE  \/ UNCHANGED <<live, published>>
           \/ \E d \in Device : Forgotten(d) \/ MarkedSilent(d) \/ \E r \in Requests : TakenBy(d, r)
<1>1. TypeOK /\ LocksInv /\ TypeOK'
  BY TypeStep DEF OrderInv, LocksInv
<1>2. ASSUME NEW r \in Requests, Handle(r)
      PROVE  UNCHANGED <<live, published>> \/ \E d \in Device : Forgotten(d) \/ TakenBy(d, r)
  <2>1. Orderly(r) /\ req[r].dev \in Device
    BY <1>1, <1>2, HandleEffects, OrderTypes
  <2>2. CASE Takes(r)
    BY <2>1, <2>2, TakesStep DEF TakenBy, Takes
  <2>3. QED
    BY <2>1, <2>2 DEF Orderly, LiveChanges, Drops, Forgotten
<1>3. ASSUME NEW r \in Requests, Submit(r) PROVE UNCHANGED <<live, published>>
  BY <1>3 DEF Submit, SubmitIngest, SubmitRemove, SubmitGroup, stores, history
<1>4. ASSUME NEW d \in Device, SweepStep(d) PROVE UNCHANGED <<live, published>> \/ MarkedSilent(d)
  <2>1. \/ UNCHANGED live
        \/ sweep.pc[d] = "mark" /\ MarkMatches(d) /\ live' = MarkedOffline(d)
    BY <1>4 DEF SweepStep, MarkOffline, EnterSweep, NotifyOffline, stores
  <2>2. UNCHANGED published
    BY <1>4 DEF SweepStep, MarkOffline, EnterSweep, NotifyOffline, history
  <2>3. QED
    BY <2>1, <2>2, MarkWrites DEF MarkedSilent
<1>5. CASE ListExpired
  BY <1>5 DEF ListExpired, stores, history
<1>6. QED
  BY <1>1, <1>2, <1>3, <1>4, <1>5, OtherOrder DEF Next

LEMMA NoLiveFacts == NoLive.ts = 0 /\ NoLive.lastSeen = 0 /\ NoLive.status = "absent"
BY DEF NoLive

LEMMA UpsertFacts ==
    ASSUME NEW r
    PROVE  UpsertState(r).ts = req[r].ts /\ UpsertState(r).lastSeen = req[r].recv /\ UpsertState(r).status = "online"
BY DEF UpsertState

\* An upload that was queued before a newer one, a retried upload and the state
\* the sweep captured a while ago never replace the live reading of a device:
\* the queues hold uploads in the order of receivedAt, ReadPrevious compares
\* the timestamps under the locks, and MARK_OFFLINE compares lastSeenAt.
THEOREM LiveNeverGoesBackHolds == Spec => LiveNeverGoesBack
<1>1. ASSUME OrderInv, [Next]_vars
      PROVE  [\A d \in Device : live'[d].ts # 0 =>
                live'[d].ts >= live[d].ts /\ live'[d].lastSeen >= live[d].lastSeen]_live
  <2> SUFFICES ASSUME NEW e \in Device, live'[e].ts # 0, live' # live
               PROVE  live'[e].ts >= live[e].ts /\ live'[e].lastSeen >= live[e].lastSeen
    OBVIOUS
  <2>1. /\ live \in [Device -> LiveStates] /\ live[e].ts \in Nat /\ live[e].lastSeen \in Nat
        /\ \A r \in Requests : req[r].recv \in Nat /\ req[r].ts \in Nat
    BY <1>1, OrderTypes DEF OrderInv, LocksInv
  <2>2. PICK d \in Device : Forgotten(d) \/ MarkedSilent(d) \/ \E r \in Requests : TakenBy(d, r)
    BY <1>1, LiveSteps
  <2>3. CASE Forgotten(d)
    BY <2>1, <2>3, NoLiveFacts DEF Forgotten
  <2>4. CASE MarkedSilent(d)
    BY <2>1, <2>4 DEF MarkedSilent
  <2>5. ASSUME NEW r \in Requests, TakenBy(d, r)
        PROVE  live'[e].ts >= live[e].ts /\ live'[e].lastSeen >= live[e].lastSeen
    <3>1. CASE e # d
      BY <2>1, <2>5, <3>1 DEF TakenBy
    <3>2. CASE e = d
      <4>1. live'[e] = UpsertState(r)
        BY <2>1, <2>5, <3>2 DEF TakenBy
      <4>2. QED
        BY <2>1, <2>5, <3>2, <4>1, UpsertFacts DEF TakenBy
    <3>3. QED
      BY <3>1, <3>2
  <2>6. QED
    BY <2>2, <2>3, <2>4, <2>5
<1>2. QED
  BY <1>1, OrderInvariant, PTL DEF Spec, LiveNeverGoesBack

\* The sweep marks a device only when a whole HEARTBEAT_TIMEOUT_MS has passed
\* since its last accepted sample, and leaves its reading as it is: a sample
\* that arrived after the page was read changed lastSeenAt.
THEOREM NoFalseOfflineHolds == Spec => NoFalseOffline
<1>1. ASSUME OrderInv, [Next]_vars
      PROVE  [\A d \in Device : live[d].status = "online" /\ live'[d].status = "offline" =>
                /\ now - live[d].lastSeen >= HeartbeatTimeout
                /\ live'[d].ts = live[d].ts]_live
  <2> SUFFICES ASSUME NEW e \in Device, live[e].status = "online", live'[e].status = "offline"
               PROVE  now - live[e].lastSeen >= HeartbeatTimeout /\ live'[e].ts = live[e].ts
    OBVIOUS
  <2>1. live \in [Device -> LiveStates]
    BY <1>1, OrderTypes DEF OrderInv, LocksInv
  <2>2. PICK d \in Device : Forgotten(d) \/ MarkedSilent(d) \/ \E r \in Requests : TakenBy(d, r)
    BY <1>1, LiveSteps
  <2>3. CASE Forgotten(d)
    BY <2>1, <2>3, NoLiveFacts DEF Forgotten
  <2>4. CASE MarkedSilent(d)
    BY <2>1, <2>4 DEF MarkedSilent
  <2>5. ASSUME NEW r \in Requests, TakenBy(d, r) PROVE FALSE
    BY <2>1, <2>5, UpsertFacts DEF TakenBy
  <2>6. QED
    BY <2>2, <2>3, <2>4, <2>5
<1>2. QED
  BY <1>1, OrderInvariant, PTL DEF Spec, NoFalseOffline

\* Uploads, sweep and removal implement IngestContract: publishing a sample is
\* Take, marking a silent device is Expire, dropping its state is Forget, and
\* every other step of the service stutters.
THEOREM KeepsContractHolds == Spec => KeepsContract
<1> DEFINE latest == [d \in Device |-> live[d].ts]
           online == [d \in Device |-> live[d].status = "online"]
<1>1. Init => Promised!Start
  <2> SUFFICES ASSUME Init PROVE Promised!Start
    OBVIOUS
  <2>1. live = [d \in Device |-> NoLive] /\ published = [d \in Device |-> {}]
    BY DEF Init
  <2>2. latest = [d \in Device |-> 0]
    BY <2>1, NoLiveFacts
  <2>3. online = [d \in Device |-> FALSE]
    BY <2>1, NoLiveFacts
  <2>4. QED
    BY <2>1, <2>2, <2>3 DEF Promised!Start
<1>2. ASSUME OrderInv, [Next]_vars PROVE [Promised!Step]_(Promised!contractVars)
  <2>1. live \in [Device -> LiveStates] /\ \A d \in Device : live[d].ts \in Nat
    BY <1>2, OrderTypes DEF OrderInv, LocksInv
  <2>2. CASE UNCHANGED <<live, published>>
    <3>1. latest' = latest /\ online' = online
      BY <2>2
    <3>2. QED
      BY <2>2, <3>1 DEF Promised!contractVars
  <2>3. ASSUME NEW d \in Device, Forgotten(d) PROVE Promised!Step
    <3>1. \A e \in Device : live'[e] = IF e = d THEN NoLive ELSE live[e]
      BY <2>1, <2>3 DEF Forgotten
    <3>2. latest' = [latest EXCEPT ![d] = 0]
      BY <3>1, NoLiveFacts
    <3>3. online' = [online EXCEPT ![d] = FALSE]
      BY <3>1, NoLiveFacts
    <3>4. Promised!Forget(d)
      BY <2>3, <3>2, <3>3 DEF Promised!Forget, Forgotten
    <3>5. QED
      BY <3>4 DEF Promised!Step
  <2>4. ASSUME NEW d \in Device, MarkedSilent(d) PROVE Promised!Step \/ UNCHANGED Promised!contractVars
    <3>1. \A e \in Device : live'[e].ts = live[e].ts
      BY <2>4 DEF MarkedSilent
    <3>2. latest' = latest
      BY <3>1
    <3>3. online' = [online EXCEPT ![d] = FALSE]
      BY <2>4 DEF MarkedSilent
    <3>4. CASE online[d]
      <4>1. Promised!Expire(d)
        BY <2>4, <3>2, <3>3, <3>4 DEF Promised!Expire, MarkedSilent
      <4>2. QED
        BY <4>1 DEF Promised!Step
    <3>5. CASE ~online[d]
      <4>1. online' = online
        BY <3>3, <3>5
      <4>2. QED
        BY <2>4, <3>2, <4>1 DEF Promised!contractVars, MarkedSilent
    <3>6. QED
      BY <3>4, <3>5
  <2>5. ASSUME NEW d \in Device, NEW r \in Requests, TakenBy(d, r) PROVE Promised!Step
    <3>1. \A e \in Device : live'[e] = IF e = d THEN UpsertState(r) ELSE live[e]
      BY <2>1, <2>5 DEF TakenBy
    <3>2. latest' = [latest EXCEPT ![d] = req[r].ts]
      BY <3>1, UpsertFacts
    <3>3. online' = [online EXCEPT ![d] = TRUE]
      BY <3>1, UpsertFacts
    <3>4. /\ req[r].ts \in 1..MaxTimestamp /\ req[r].ts > latest[d]
          /\ published' = [published EXCEPT ![d] = @ \cup {req[r].ts}]
      BY <2>1, <2>5, MetricsAssumption DEF TakenBy, Timestamp
    <3>5. Promised!Take(d, req[r].ts)
      BY <3>2, <3>3, <3>4 DEF Promised!Take, Promised!CanTake
    <3>6. \E ts \in 1..MaxTimestamp : Promised!Take(d, ts)
      BY <3>4, <3>5 DEF Promised!Take, Promised!CanTake
    <3>7. QED
      BY <3>6 DEF Promised!Step
  <2>6. QED
    BY <1>2, <2>2, <2>3, <2>4, <2>5, LiveSteps
<1>3. QED
  BY <1>1, <1>2, OrderInvariant, PTL DEF Spec, KeepsContract, Promised!Contract

-----------------------------------------------------------------------------
(* A removed device is gone *)

LEMMA AppendNotEmpty ==
    ASSUME NEW s \in SeriesStates, NEW p \in Points, NEW maxP \in Nat \ {0}
    PROVE  AppendSeries(s, p, maxP).list # <<>>
<1> DEFINE NotEmpty == Seq(Points) \ {<<>>}
<1>1. ASSUME NEW l \in NotEmpty PROVE Trim(l, maxP) # <<>>
  <2>1. l \in Seq(Points) /\ Len(l) \in Nat /\ Len(l) > 0
    OBVIOUS
  <2>2. CASE Len(l) > maxP
    <3>1. Len(SubSeq(l, Len(l) - maxP + 1, Len(l))) = maxP
      BY <2>1, <2>2
    <3>2. QED
      BY <2>1, <2>2, <3>1 DEF Trim
  <2>3. QED
    BY <2>1, <2>2 DEF Trim
<1>2. s.list \in Seq(Points)
  BY DEF SeriesStates
<1>3. ASSUME s.list # <<>>, NEW i PROVE [s.list EXCEPT ![i] = p] \in NotEmpty
  <2>1. Len([s.list EXCEPT ![i] = p]) = Len(s.list) /\ [s.list EXCEPT ![i] = p] \in Seq(Points)
    BY <1>2, ReplaceType
  <2>2. QED
    BY <1>2, <1>3, <2>1
<1>4. Append(s.list, p) \in NotEmpty /\ <<p>> \in NotEmpty
  BY <1>2
<1> HIDE DEF NotEmpty
<1>5. QED
  BY <1>1, <1>3, <1>4 DEF AppendSeries, ReplaceOrAppend

\* The data of e stays, or what was cleared stays so.
DataKept(e) ==
    /\ acc[e] = NoAccs => acc'[e] = NoAccs
    /\ live[e] = NoLive => live'[e] = NoLive
    /\ series'[e] = series[e]
    /\ registry'[e].status = registry[e].status
    /\ missed[e] = TRUE => missed'[e] = TRUE

\* Every handler that relies on what it wrote for e was already at that step.
StepsKept(e) ==
    \A x \in Requests :
        /\ req'[x].dev = e /\ req'[x].pc \in Removing \cup Accepting =>
              req[x].dev = e /\ req'[x].pc = req[x].pc
        /\ RemovalOf(e, x, Removing) => RemovalOf(e, x, Removing)'

LEMMA RemovalStays ==
    ASSUME TypeOK, TypeOK', NEW e \in Device, RemovalInv(e), DataKept(e), StepsKept(e)
    PROVE  RemovalInv(e)'
<1>1. NothingLeft(e) => NothingLeft(e)'
  BY DEF NothingLeft, DataKept
<1>2. missed'[e] = FALSE => missed[e] = FALSE
  BY DEF DataKept, TypeOK
<1>3. \A w \in Window : series'[e][w].list = <<>> => series'[e][w] = EmptySeries
  BY DEF RemovalInv, DataKept
<1>4. registry'[e].status = "closed" /\ missed'[e] = FALSE =>
          NothingLeft(e)' \/ \E r \in Requests : RemovalOf(e, r, Removing)'
  BY <1>1, <1>2 DEF RemovalInv, DataKept, StepsKept
<1>5. registry'[e].status = "absent" => NothingLeft(e)'
  BY <1>1 DEF RemovalInv, DataKept
<1>6. ASSUME NEW x \in Requests, req'[x].dev = e
      PROVE  /\ req'[x].pc \in {"remove", "clear"} => acc'[e] = NoAccs
             /\ req'[x].pc = "clear" => live'[e] = NoLive
             /\ req'[x].pc \in Removing => registry'[e].status = "closed"
             /\ req'[x].pc \in Accepting => registry'[e].status = "open"
  BY <1>6 DEF RemovalInv, DataKept, StepsKept, Removing
<1>7. QED
  BY <1>3, <1>4, <1>5, <1>6 DEF RemovalInv

\* A handler that runs its body for d is the only one that does.
LEMMA Alone ==
    ASSUME LocksInv, NEW r \in Requests, NEW d \in Device, AtHead(deviceQ, d, r),
           NEW x \in Requests \ {r}, req[x].dev = d
    PROVE  req[x].pc \in {"idle", "update", "queued"}
<1>1. ingestQ \in Queues /\ deviceQ \in Queues /\ req[x].pc \in Steps
  BY ServiceTypes DEF LocksInv, TypeOK, Handlers
<1>2. AtHead(ingestQ, d, r)
  BY <1>1, HeadFacts DEF LocksInv, QueuesInv, RequestInv
<1>3. ~InQueue(deviceQ, d, x)
  <2>1. ~AtHead(ingestQ, d, x)
    BY <1>1, <1>2, HeadFacts
  <2>2. QED
    BY <2>1 DEF LocksInv, QueuesInv, RequestInv
<1>4. req[x].pc \in Outside \/ req[x].pc = "queued"
  BY <1>3 DEF LocksInv, QueuesInv, RequestInv
<1>5. QED
  BY <1>4 DEF Outside

\* What the body of r for its device d has to leave behind.
RemovalLeft(d, r) ==
    /\ \A w \in Window : series'[d][w].list = <<>> => series'[d][w] = EmptySeries
    /\ registry'[d].status = "closed" /\ missed'[d] = FALSE => NothingLeft(d)' \/ RemovalOf(d, r, Removing)'
    /\ registry'[d].status = "absent" => NothingLeft(d)'
    /\ req'[r].pc \in {"remove", "clear"} => acc'[d] = NoAccs
    /\ req'[r].pc = "clear" => live'[d] = NoLive
    /\ req'[r].pc \in Removing => registry'[d].status = "closed"
    /\ req'[r].pc \in Accepting => registry'[d].status = "open"

LEMMA BodyRemoval ==
    ASSUME GoneInv, TypeOK', NEW r \in Requests, NEW d \in Device, req[r].dev = d,
           AtHead(deviceQ, d, r), BodyMoves(r),
           \A e \in Device \ {d} : DataKept(e), RemovalLeft(d, r)
    PROVE  \A e \in Device : RemovalInv(e)'
<1>1. LocksInv /\ TypeOK
  BY DEF GoneInv, OrderInv, LocksInv
<1>2. /\ \A x \in Requests \ {r} : req'[x] = req[x]
      /\ req'[r] = Idle \/ SameRequest(req'[r], req[r])
  BY <1>1, BodyOrder
<1>3. Idle.pc = "idle" /\ "idle" \notin Removing \cup Accepting
  BY DEF Idle, Removing, Accepting, IngestSteps
<1>4. ASSUME NEW e \in Device \ {d} PROVE RemovalInv(e)'
  <2>1. StepsKept(e)
    BY <1>2, <1>3 DEF StepsKept, RemovalOf, SameRequest
  <2>2. QED
    BY <1>1, <2>1, RemovalStays DEF GoneInv
<1>5. ASSUME NEW x \in Requests \ {r}, req'[x].dev = d PROVE req'[x].pc \notin Removing \cup Accepting
  BY <1>1, <1>2, <1>5, Alone DEF Removing, Accepting, IngestSteps
<1>6. RemovalInv(d)'
  <2>1. ASSUME NEW x \in Requests, req'[x].dev = d
        PROVE  /\ req'[x].pc \in {"remove", "clear"} => acc'[d] = NoAccs
               /\ req'[x].pc = "clear" => live'[d] = NoLive
               /\ req'[x].pc \in Removing => registry'[d].status = "closed"
               /\ req'[x].pc \in Accepting => registry'[d].status = "open"
    <3>1. CASE x = r
      BY <3>1 DEF RemovalLeft
    <3>2. CASE x # r
      BY <1>5, <2>1, <3>2 DEF Removing
    <3>3. QED
      BY <3>1, <3>2
  <2>2. registry'[d].status = "closed" /\ missed'[d] = FALSE =>
            NothingLeft(d)' \/ \E x \in Requests : RemovalOf(d, x, Removing)'
    BY DEF RemovalLeft
  <2>3. QED
    BY <2>1, <2>2 DEF RemovalLeft, RemovalInv
<1>7. QED
  BY <1>4, <1>6

\* A closed device that the body of r works on has nothing left, or r removes it.
LEMMA ClosedFacts ==
    ASSUME GoneInv, NEW r \in Requests, NEW d \in Device, req[r].dev = d, AtHead(deviceQ, d, r),
           registry[d].status = "closed", missed[d] = FALSE
    PROVE  NothingLeft(d) \/ RemovalOf(d, r, Removing)
<1>1. LocksInv
  BY DEF GoneInv, OrderInv
<1>2. \A x \in Requests \ {r} : ~RemovalOf(d, x, Removing)
  BY <1>1, Alone DEF RemovalOf, Removing
<1>3. QED
  BY <1>1, <1>2 DEF GoneInv, RemovalInv

\* A step that fails without an effect leaves a closed device as it was.
LEMMA NoEffect ==
    ASSUME GoneInv, NEW r \in Requests, NEW d \in Device, req[r].dev = d, AtHead(deviceQ, d, r),
           req[r].pc \notin Removing, req'[r] = Idle, UNCHANGED <<registry, live, series, acc, missed>>
    PROVE  RemovalLeft(d, r)
<1>1. RemovalInv(d) /\ Idle.pc = "idle" /\ "idle" \notin Removing \cup Accepting
  BY DEF GoneInv, Idle, Removing, Accepting, IngestSteps
<1>2. registry[d].status = "closed" /\ missed[d] = FALSE => NothingLeft(d)
  BY ClosedFacts DEF RemovalOf
<1>3. NothingLeft(d) => NothingLeft(d)'
  BY DEF NothingLeft
<1>4. registry'[d].status = "absent" => NothingLeft(d)'
  BY <1>1, <1>3 DEF RemovalInv
<1>5. \A w \in Window : series'[d][w].list = <<>> => series'[d][w] = EmptySeries
  BY <1>1 DEF RemovalInv
<1>6. QED
  BY <1>1, <1>2, <1>3, <1>4, <1>5 DEF RemovalLeft, Removing

LEMMA AppendRemoval ==
    ASSUME GoneInv, NEW r \in Requests, NEW d \in Device, req[r].dev = d, AppendRaw(r)
    PROVE  \A e \in Device : \A w \in Window : series'[e][w].list = <<>> => series'[e][w] = EmptySeries
<1>1. TypeOK /\ \A e \in Device : RemovalInv(e)
  BY DEF GoneInv, OrderInv, LocksInv
<1>2. req[r].pc = "append"
  BY DEF AppendRaw, Runs, FailsWith
<1>3. req[r].ts \in Timestamp
  BY <1>1, <1>2, ServiceTypes DEF CarriesSample, IngestSteps
<1>4. Point(req[r].ts) \in Points
  BY <1>3 DEF Point, Points
<1>5. PICK W \in SUBSET Window : series' = Appended(d, req[r].ts, W)
  BY Zenon DEF AppendRaw
<1>6. series \in [Device -> [Window -> SeriesStates]] /\ \A w \in Window : MaxPoints(w) \in Nat \ {0}
  BY <1>1, MetricsAssumption DEF TypeOK, MaxPoints
<1>7. \A w \in Window : series'[d][w] =
          IF w \in W THEN AppendSeries(series[d][w], Point(req[r].ts), MaxPoints(w)) ELSE series[d][w]
  BY <1>5, <1>6 DEF Appended
<1>8. \A e \in Device \ {d} : series'[e] = series[e]
  BY <1>5, <1>6 DEF Appended
<1>9. ASSUME NEW w \in Window, series'[d][w].list = <<>> PROVE series'[d][w] = EmptySeries
  <2>1. CASE w \in W
    <3>1. series[d][w] \in SeriesStates
      BY <1>6
    <3>2. QED
      BY <1>4, <1>6, <1>7, <1>9, <2>1, <3>1, AppendNotEmpty
  <2>2. CASE w \notin W
    BY <1>1, <1>7, <1>9, <2>2 DEF RemovalInv
  <2>3. QED
    BY <2>1, <2>2
<1>10. QED
  BY <1>1, <1>8, <1>9 DEF RemovalInv

\* The body of r touches nothing of the device e.
Untouched(e) ==
    /\ registry'[e] = registry[e] /\ live'[e] = live[e] /\ acc'[e] = acc[e]
    /\ series'[e] = series[e] /\ missed'[e] = missed[e]

LEMMA IngestTouches ==
    ASSUME TypeOK, NEW r \in Requests, NEW d \in Device, req[r].dev = d, Ingest(r)
    PROVE  /\ \A e \in Device \ {d} : Untouched(e)
           /\ \/ UNCHANGED registry
              \/ Register(r) /\ registry'[d].status = "open"
           /\ UNCHANGED series \/ AppendRaw(r)
           /\ Register(r) => UNCHANGED <<live, series, acc, missed>>
<1>1. /\ registry \in [Device -> Records] /\ live \in [Device -> LiveStates]
      /\ series \in [Device -> [Window -> SeriesStates]] /\ acc \in [Device -> [Kind -> Accs]]
      /\ missed \in [Device -> BOOLEAN]
  BY DEF TypeOK
<1>2. CASE Register(r)
  <2>1. registry' = registry \/ registry' = [registry EXCEPT ![d] = OpenRecord(d)]
    BY <1>2 DEF Register
  <2>2. UNCHANGED <<live, series, acc, missed>>
    BY <1>2 DEF Register, history
  <2>3. OpenRecord(d).status = "open"
    BY DEF OpenRecord
  <2>4. QED
    BY <1>1, <1>2, <2>1, <2>2, <2>3 DEF Untouched
<1>3. CASE ReadPrevious(r)
  <2>1. UNCHANGED <<registry, live, series, missed>> /\ (acc' = acc \/ acc' = [acc EXCEPT ![d] = NoAccs])
    BY <1>3 DEF ReadPrevious, stores
  <2>2. ~Register(r) \/ UNCHANGED <<live, series, acc, missed>>
    BY DEF Register, history
  <2>3. QED
    BY <1>1, <2>1, <2>2 DEF Untouched
<1>4. CASE AppendRaw(r)
  <2>1. UNCHANGED <<registry, live, acc, missed>> /\ \E W \in SUBSET Window : series' = Appended(d, req[r].ts, W)
    BY Zenon, <1>4 DEF AppendRaw, history
  <2>2. \A e \in Device \ {d} : series'[e] = series[e]
    BY <1>1, <2>1 DEF Appended
  <2>3. ~Register(r) \/ UNCHANGED <<live, series, acc, missed>>
    BY DEF Register, history
  <2>4. QED
    BY <1>4, <2>1, <2>2, <2>3 DEF Untouched
<1>5. CASE AddMinuteAggregate(r) \/ AddHourlyAggregate(r)
  <2>1. ASSUME NEW k, NEW next, Accumulate(r, k, next)
        PROVE  UNCHANGED <<registry, live, series, missed>> /\ \A e \in Device \ {d} : acc'[e] = acc[e]
    <3>1. /\ UNCHANGED <<registry, live, series, missed>>
          /\ acc' = [acc EXCEPT ![d][k].samples = AddSample(acc[d][k].samples, req[r].ts, MaxSamples(k)),
                                ![d][k].dirty = TRUE]
      BY <2>1 DEF Accumulate, stores
    <3>2. QED
      BY <1>1, <3>1
  <2>2. ASSUME NEW k, NEW next, RollOver(r, k, next)
        PROVE  UNCHANGED <<registry, live, series, missed>> /\ \A e \in Device \ {d} : acc'[e] = acc[e]
    <3>1. /\ UNCHANGED <<registry, live, series, missed>>
          /\ acc' = acc \/ acc' = [acc EXCEPT ![d][k] = Opened(BucketOf(k, req[r].ts), req[r].ts)]
      BY <2>2 DEF RollOver
    <3>2. QED
      BY <1>1, <3>1
  <2>3. ~Register(r) \/ UNCHANGED <<live, series, acc, missed>>
    BY DEF Register, history
  <2>4. QED
    BY <1>5, <2>1, <2>2, <2>3 DEF Untouched, AddMinuteAggregate, AddHourlyAggregate
<1>6. CASE Upsert(r)
  <2>1. /\ UNCHANGED <<registry, series, acc>>
        /\ live' = live \/ \E s : live' = [live EXCEPT ![d] = s]
        /\ missed' = missed \/ missed' = [missed EXCEPT ![d] = TRUE]
    BY <1>6 DEF Upsert
  <2>2. ~Register(r) \/ UNCHANGED <<live, series, acc, missed>>
    BY DEF Register, history
  <2>3. QED
    BY <1>1, <2>1, <2>2 DEF Untouched
<1>7. CASE EmitAccepted(r)
  <2>1. UNCHANGED <<registry, live, series, acc, missed>>
    BY <1>7 DEF EmitAccepted, stores, history
  <2>2. QED
    BY <2>1 DEF Untouched
<1>8. QED
  BY <1>2, <1>3, <1>4, <1>5, <1>6, <1>7 DEF Ingest

\* An upload works on a device that is open.
LEMMA IngestRemoval ==
    ASSUME GoneInv, TypeOK', NEW r \in Requests, Ingest(r)
    PROVE  \A e \in Device : RemovalInv(e)'
<1>1. TypeOK /\ LocksInv /\ req \in [Requests -> Handlers]
  BY DEF GoneInv, OrderInv, LocksInv, TypeOK
<1>2. PICK d \in Device : req[r].dev = d
  BY <1>1, OrderTypes
<1>3. AtHead(deviceQ, d, r) /\ BodyMoves(r)
  BY <1>1, <1>2, IngestMoves
<1>4. RemovalInv(d) /\ \A e \in Device : \A w \in Window : series[e][w].list = <<>> => series[e][w] = EmptySeries
  BY DEF GoneInv, RemovalInv
<1>5. req[r].pc \in IngestSteps /\ (Register(r) => req[r].pc = "register") /\ (req[r].pc = "register" => Register(r))
  BY DEF Ingest, Register, ReadPrevious, AppendRaw, AddMinuteAggregate, AddHourlyAggregate, Accumulate,
         RollOver, Upsert, EmitAccepted, FailsWith, Runs, IngestSteps
<1>6. (req'[r] = Idle \/ req'[r].pc \in IngestSteps) /\ Idle.pc = "idle"
  <2>1. Idle.pc = "idle"
    BY DEF Idle
  <2>2. CASE Release(r)
    BY <1>1, <2>1, <2>2, ReleaseOrder
  <2>3. CASE ~Release(r)
    <3>1. PICK h : /\ req' = [req EXCEPT ![r] = h]
                   /\ SameRequest(h, req[r])
                   /\ \/ h.pc = req[r].pc
                      \/ req[r].pc \in IngestSteps /\ h.pc \in IngestSteps
                      \/ req[r].pc \in RemoveSteps /\ h.pc \in RemoveSteps
                   /\ UNCHANGED <<ingestQ, deviceQ>>
      BY <1>3, <2>3 DEF BodyMoves
    <3>2. h.pc \in IngestSteps
      BY <1>5, <3>1 DEF RemoveSteps, IngestSteps
    <3>3. QED
      BY <1>1, <2>1, <3>1, <3>2
  <2>4. QED
    BY <2>2, <2>3
<1>7. \A e \in Device \ {d} : Untouched(e)
  BY <1>1, <1>2, IngestTouches
<1>8. \A e \in Device \ {d} : DataKept(e)
  BY <1>7 DEF DataKept, Untouched
<1>9. RemovalLeft(d, r)
  <2>1. CASE registry'[d].status = "open"
    <3>1. \A w \in Window : series'[d][w].list = <<>> => series'[d][w] = EmptySeries
      BY <1>1, <1>2, <1>4, IngestTouches, AppendRemoval
    <3>2. QED
      BY <1>6, <2>1, <3>1 DEF RemovalLeft, Removing, IngestSteps
  <2>2. CASE registry'[d].status # "open"
    <3>1. UNCHANGED registry
      BY <1>1, <1>2, <2>2, IngestTouches
    <3>2. req[r].pc = "register"
      BY <1>2, <1>4, <1>5, <2>2, <3>1 DEF RemovalInv, Accepting
    <3>3. req'[r] = Idle
      <4>1. Release(r) \/ registry'[d] = OpenRecord(d)
        BY <1>1, <1>2, <1>5, <3>2 DEF Register, FailsWith, TypeOK
      <4>2. QED
        BY <1>1, <2>2, <4>1, ReleaseOrder DEF OpenRecord
    <3>4. UNCHANGED <<live, series, acc, missed>>
      BY <1>1, <1>2, <1>5, <3>2, IngestTouches
    <3>5. QED
      BY <1>2, <1>3, <3>1, <3>2, <3>3, <3>4, NoEffect DEF Removing
  <2>3. QED
    BY <2>1, <2>2
<1>10. QED
  BY <1>2, <1>3, <1>8, <1>9, BodyRemoval

\* A removal closes the device first, then clears what is left of it.
LEMMA RemoveRemoval ==
    ASSUME GoneInv, TypeOK', NEW r \in Requests, Remove(r)
    PROVE  \A e \in Device : RemovalInv(e)'
<1>1. TypeOK /\ LocksInv /\ req \in [Requests -> Handlers]
  BY DEF GoneInv, OrderInv, LocksInv, TypeOK
<1>2. PICK d \in Device : req[r].dev = d
  BY <1>1, OrderTypes
<1>3. AtHead(deviceQ, d, r) /\ BodyMoves(r)
  BY <1>1, <1>2, RemoveMoves
<1>4. /\ registry \in [Device -> Records] /\ live \in [Device -> LiveStates]
      /\ series \in [Device -> [Window -> SeriesStates]] /\ acc \in [Device -> [Kind -> Accs]]
      /\ missed \in [Device -> BOOLEAN] /\ missed' \in [Device -> BOOLEAN]
  BY <1>1 DEF TypeOK
<1>5. RemovalInv(d) /\ \A w \in Window : series[d][w].list = <<>> => series[d][w] = EmptySeries
  BY DEF GoneInv, RemovalInv
<1>6. Closed(d).status = "closed" /\ Idle.pc = "idle"
  BY DEF Closed, Idle
<1>7. SUFFICES (\A e \in Device \ {d} : Untouched(e)) /\ RemovalLeft(d, r)
  <2>1. \A e \in Device \ {d} : DataKept(e)
    BY <1>7 DEF DataKept, Untouched
  <2>2. QED
    BY <1>2, <1>3, <1>7, <2>1, BodyRemoval
\* A failure after an effect is remembered.
<1>8. ASSUME missed'[d] = TRUE, registry'[d].status = "closed", req'[r] = Idle,
             \A w \in Window : series'[d][w].list = <<>> => series'[d][w] = EmptySeries
      PROVE  RemovalLeft(d, r)
  BY <1>6, <1>8 DEF RemovalLeft, Removing, Accepting, IngestSteps
<1>9. ASSUME req[r].pc \in RemoveSteps, req'[r].pc \in Removing, req'[r] = Idle \/ SameRequest(req'[r], req[r])
      PROVE  RemovalOf(d, r, Removing)'
  <2>1. req[r].op = "remove"
    BY <1>1, <1>9 DEF LocksInv, QueuesInv, KindInv
  <2>2. SameRequest(req'[r], req[r])
    BY <1>6, <1>9 DEF Removing
  <2>3. QED
    BY <1>2, <1>9, <2>1, <2>2 DEF RemovalOf, SameRequest
<1>10. req'[r] = Idle \/ SameRequest(req'[r], req[r])
  BY <1>1, <1>3, BodyOrder
<1>11. CASE DeleteDevice(r)
  <2>1. /\ Runs(r, "delete") /\ UNCHANGED <<live, series, acc>>
        /\ \/ GoTo(r, "state") /\ registry' = [registry EXCEPT ![d] = Closed(d)] /\ missed' = missed
           \/ Release(r) /\ UNCHANGED <<registry, missed>>
           \/ Release(r) /\ registry' = [registry EXCEPT ![d] = Closed(d)] /\ missed' = [missed EXCEPT ![d] = TRUE]
    BY <1>2, <1>11 DEF DeleteDevice, FailsWith
  <2>2. \A e \in Device \ {d} : Untouched(e)
    BY <1>4, <2>1 DEF Untouched
  <2>3. CASE GoTo(r, "state") /\ registry' = [registry EXCEPT ![d] = Closed(d)]
    <3>1. req'[r].pc = "state" /\ registry'[d].status = "closed"
      BY <1>1, <1>4, <1>6, <2>3, GoToPc
    <3>2. RemovalOf(d, r, Removing)'
      BY <1>9, <1>10, <2>1, <3>1 DEF Runs, RemoveSteps, Removing
    <3>3. QED
      BY <1>5, <2>1, <2>2, <3>1, <3>2 DEF RemovalLeft, Removing, Accepting, IngestSteps
  <2>4. CASE Release(r) /\ UNCHANGED <<registry, missed>>
    <3>1. req'[r] = Idle /\ req[r].pc = "delete"
      BY <1>1, <2>1, <2>4, ReleaseOrder DEF Runs
    <3>2. QED
      BY <1>2, <1>3, <2>1, <2>2, <2>4, <3>1, NoEffect DEF Removing
  <2>5. CASE Release(r) /\ registry' = [registry EXCEPT ![d] = Closed(d)] /\ missed' = [missed EXCEPT ![d] = TRUE]
    <3>1. req'[r] = Idle
      BY <1>1, <2>5, ReleaseOrder
    <3>2. QED
      BY <1>4, <1>5, <1>6, <1>8, <2>1, <2>2, <2>5, <3>1
  <2>6. QED
    BY <2>1, <2>2, <2>3, <2>4, <2>5
<1>12. ASSUME req[r].pc \in Removing, UNCHANGED registry, missed' = [missed EXCEPT ![d] = TRUE], Release(r),
              series' \in {series, [series EXCEPT ![d] = [w \in Window |-> EmptySeries]]}
       PROVE  RemovalLeft(d, r)
  <2>1. req'[r] = Idle
    BY <1>1, <1>12, ReleaseOrder
  <2>2. registry'[d].status = "closed" /\ missed'[d] = TRUE
    BY <1>2, <1>4, <1>5, <1>12 DEF RemovalInv
  <2>3. \A w \in Window : series'[d][w].list = <<>> => series'[d][w] = EmptySeries
    BY <1>4, <1>5, <1>12
  <2>4. QED
    BY <1>8, <2>1, <2>2, <2>3
<1>13. CASE ForgetAccumulators(r)
  <2>1. /\ Runs(r, "state") /\ UNCHANGED <<registry, live, series>>
        /\ \/ /\ req' = [req EXCEPT ![r].pc = "remove", ![r].seen[d] = live[d]]
              /\ acc' = [acc EXCEPT ![d] = NoAccs] /\ missed' = missed
           \/ Release(r) /\ missed' = [missed EXCEPT ![d] = TRUE] /\ UNCHANGED acc
    BY <1>2, <1>13 DEF ForgetAccumulators, FailsWith, stores
  <2>2. (\A e \in Device \ {d} : Untouched(e)) /\ req[r].pc = "state"
    BY <1>4, <2>1 DEF Untouched, Runs
  <2>3. CASE /\ req' = [req EXCEPT ![r].pc = "remove", ![r].seen[d] = live[d]]
             /\ acc' = [acc EXCEPT ![d] = NoAccs]
    <3>1. req'[r] = [req[r] EXCEPT !.pc = "remove", !.seen[d] = live[d]]
      BY <1>1, <2>3
    <3>2. req'[r].pc = "remove" /\ registry'[d].status = "closed" /\ acc'[d] = NoAccs
      BY <1>1, <1>2, <1>4, <1>5, <2>1, <2>2, <2>3, <3>1 DEF RemovalInv, Removing, Handlers
    <3>3. RemovalOf(d, r, Removing)'
      BY <1>9, <1>10, <2>2, <3>2 DEF RemoveSteps, Removing
    <3>4. QED
      BY <1>5, <2>1, <2>2, <3>2, <3>3 DEF RemovalLeft, Removing, Accepting, IngestSteps
  <2>4. CASE Release(r) /\ missed' = [missed EXCEPT ![d] = TRUE]
    BY <1>12, <2>1, <2>2, <2>4 DEF Removing
  <2>5. QED
    BY <2>1, <2>2, <2>3, <2>4
<1>14. CASE RemoveState(r)
  <2>1. /\ Runs(r, "remove") /\ UNCHANGED <<registry, series, acc>>
        /\ \/ GoTo(r, "clear") /\ live' = [live EXCEPT ![d] = NoLive] /\ missed' = missed
           \/ /\ Release(r) /\ missed' = [missed EXCEPT ![d] = TRUE]
              /\ live' \in {live, [live EXCEPT ![d] = NoLive]}
    BY <1>2, <1>14 DEF RemoveState, FailsWith
  <2>2. (\A e \in Device \ {d} : Untouched(e)) /\ req[r].pc = "remove"
    BY <1>4, <2>1 DEF Untouched, Runs
  <2>3. CASE GoTo(r, "clear") /\ live' = [live EXCEPT ![d] = NoLive]
    <3>1. req'[r].pc = "clear"
      BY <1>1, <2>3, GoToPc
    <3>2. registry'[d].status = "closed" /\ acc'[d] = NoAccs /\ live'[d] = NoLive
      BY <1>2, <1>4, <1>5, <2>1, <2>2, <2>3 DEF RemovalInv, Removing
    <3>3. RemovalOf(d, r, Removing)'
      BY <1>9, <1>10, <2>2, <3>1 DEF RemoveSteps, Removing
    <3>4. QED
      BY <1>5, <2>1, <2>2, <3>1, <3>2, <3>3 DEF RemovalLeft, Removing, Accepting, IngestSteps
  <2>4. CASE Release(r) /\ missed' = [missed EXCEPT ![d] = TRUE]
    BY <1>12, <2>1, <2>2, <2>4 DEF Removing
  <2>5. QED
    BY <2>1, <2>2, <2>3, <2>4
<1>15. CASE ClearSeries(r)
  <2>1. /\ Runs(r, "clear") /\ UNCHANGED <<registry, live, acc>> /\ Release(r)
        /\ \/ series' = [series EXCEPT ![d] = [w \in Window |-> EmptySeries]] /\ missed' = missed
           \/ /\ missed' = [missed EXCEPT ![d] = TRUE]
              /\ series' \in {series, [series EXCEPT ![d] = [w \in Window |-> EmptySeries]]}
    BY <1>2, <1>15 DEF ClearSeries, FailsWith
  <2>2. (\A e \in Device \ {d} : Untouched(e)) /\ req[r].pc = "clear"
    BY <1>4, <2>1 DEF Untouched, Runs
  <2>3. CASE series' = [series EXCEPT ![d] = [w \in Window |-> EmptySeries]]
    <3>1. req'[r] = Idle
      BY <1>1, <2>1, ReleaseOrder
    <3>2. registry'[d].status = "closed" /\ acc'[d] = NoAccs /\ live'[d] = NoLive
      BY <1>2, <1>5, <2>1, <2>2 DEF RemovalInv, Removing
    <3>3. \A w \in Window : series'[d][w] = EmptySeries
      BY <1>4, <2>3
    <3>4. NothingLeft(d)'
      BY <3>2, <3>3 DEF NothingLeft
    <3>5. QED
      BY <1>6, <2>2, <3>1, <3>2, <3>3, <3>4 DEF RemovalLeft, Removing, Accepting, IngestSteps
  <2>4. CASE missed' = [missed EXCEPT ![d] = TRUE]
    BY <1>12, <2>1, <2>2, <2>4 DEF Removing
  <2>5. QED
    BY <2>1, <2>2, <2>3, <2>4
<1>16. QED
  BY <1>11, <1>13, <1>14, <1>15 DEF Remove

\* Waiting for a queue or notifying consoles leaves the data of every device.
LEMMA WaitingRemoval ==
    ASSUME GoneInv, TypeOK', NEW r \in Requests, req[r].pc \notin Removing,
           req'[r].pc \notin Removing \cup Accepting, \A x \in Requests \ {r} : req'[x] = req[x],
           UNCHANGED <<live, series, acc>>,
           \A e \in Device : registry'[e].status = registry[e].status,
           \A e \in Device : missed[e] = TRUE => missed'[e] = TRUE
    PROVE  \A e \in Device : RemovalInv(e)'
<1> SUFFICES ASSUME NEW e \in Device PROVE RemovalInv(e)'
  OBVIOUS
<1>1. TypeOK /\ RemovalInv(e) /\ DataKept(e)
  BY DEF GoneInv, OrderInv, LocksInv, DataKept
<1>2. StepsKept(e)
  BY DEF StepsKept, RemovalOf
<1>3. QED
  BY <1>1, <1>2, RemovalStays

LEMMA HandleRemoval ==
    ASSUME GoneInv, TypeOK', NEW r \in Requests, Handle(r)
    PROVE  \A e \in Device : RemovalInv(e)'
<1>1. TypeOK /\ LocksInv /\ req \in [Requests -> Handlers] /\ req[r] \in Handlers
  BY ServiceTypes DEF GoneInv, OrderInv, LocksInv, TypeOK
<1>2. registry \in [Device -> Records] /\ missed \in [Device -> BOOLEAN]
  BY <1>1 DEF TypeOK
<1>3. Idle.pc = "idle"
  BY DEF Idle
<1>4. ASSUME req[r].pc \in {"queued", "locked", "update", "notify"},
             req'[r].pc \in {"idle", "queued", "locked", "update", "notify", "register", "delete"},
             \A x \in Requests \ {r} : req'[x] = req[x],
             UNCHANGED <<live, series, acc>>,
             \A e \in Device : registry'[e].status = registry[e].status,
             \A e \in Device : missed[e] = TRUE => missed'[e] = TRUE
      PROVE  \A e \in Device : RemovalInv(e)'
  BY <1>4, WaitingRemoval DEF Removing, Accepting, IngestSteps
<1>5. CASE EnterDeviceQueue(r)
  <2>1. /\ req[r].pc = "queued" /\ UNCHANGED <<registry, live, series, acc>>
        /\ \A e \in Device : missed[e] = TRUE => missed'[e] = TRUE
        /\ \/ Release(r)
           \/ GoTo(r, IF Unlocked(r) = {} THEN FirstStep(req[r].op) ELSE "locked")
    BY <1>2, <1>5 DEF EnterDeviceQueue, stores
  <2>2. FirstStep(req[r].op) \in {"register", "delete", "notify"}
    BY DEF FirstStep
  <2>3. CASE Release(r)
    BY <1>1, <1>3, <1>4, <2>1, <2>3, ReleaseOrder
  <2>4. CASE GoTo(r, IF Unlocked(r) = {} THEN FirstStep(req[r].op) ELSE "locked")
    <3>1. /\ req'[r].pc \in {"register", "delete", "notify", "locked"}
          /\ \A x \in Requests \ {r} : req'[x] = req[x]
      BY <1>1, <2>2, <2>4, GoToPc DEF GoTo
    <3>2. QED
      BY <1>4, <2>1, <3>1
  <2>5. QED
    BY <2>1, <2>3, <2>4
<1>6. CASE AcquireNext(r)
  <2>1. /\ req[r].pc = "locked" /\ UNCHANGED <<registry, live, series, acc>>
        /\ \A e \in Device : missed[e] = TRUE => missed'[e] = TRUE
        /\ \/ Release(r)
           \/ \E next \in Device : req' = [req EXCEPT ![r].pc = "queued", ![r].dev = next]
    BY <1>2, <1>6 DEF AcquireNext, Runs, stores
  <2>2. CASE Release(r)
    BY <1>1, <1>3, <1>4, <2>1, <2>2, ReleaseOrder
  <2>3. ASSUME NEW next \in Device, req' = [req EXCEPT ![r].pc = "queued", ![r].dev = next]
        PROVE  \A e \in Device : RemovalInv(e)'
    <3>1. req'[r].pc = "queued" /\ \A x \in Requests \ {r} : req'[x] = req[x]
      BY <1>1, <2>3 DEF Handlers
    <3>2. QED
      BY <1>4, <2>1, <3>1
  <2>4. QED
    BY <2>1, <2>2, <2>3
<1>7. CASE UpdateGroup(r)
  <2>1. /\ req[r].pc = "update" /\ UNCHANGED <<live, series, acc>>
        /\ \A e \in Device : missed[e] = TRUE => missed'[e] = TRUE
        /\ registry' = registry \/ registry' = Regrouped(req[r].devs, req[r].group)
        /\ \/ req' = [req EXCEPT ![r] = Idle]
           \/ \E first \in Device : req' = [req EXCEPT ![r].pc = "queued", ![r].dev = first]
    BY <1>2, <1>7 DEF UpdateGroup
  <2>2. \A e \in Device : registry'[e].status = registry[e].status
    BY <1>2, <2>1 DEF Regrouped, Records
  <2>3. CASE req' = [req EXCEPT ![r] = Idle]
    BY <1>1, <1>3, <1>4, <2>1, <2>2, <2>3
  <2>4. ASSUME NEW first \in Device, req' = [req EXCEPT ![r].pc = "queued", ![r].dev = first]
        PROVE  \A e \in Device : RemovalInv(e)'
    <3>1. req'[r].pc = "queued" /\ \A x \in Requests \ {r} : req'[x] = req[x]
      BY <1>1, <2>4 DEF Handlers
    <3>2. QED
      BY <1>4, <2>1, <2>2, <3>1
  <2>5. QED
    BY <2>1, <2>3, <2>4
<1>8. ASSUME NEW d \in Device, NEW part, NotifyGroup(r, d, part) PROVE \A e \in Device : RemovalInv(e)'
  <2>1. /\ req[r].pc = "notify" /\ UNCHANGED <<registry, live, series, acc>>
        /\ missed' = missed \/ missed' = [missed EXCEPT ![d] = TRUE]
    BY <1>8 DEF NotifyGroup, Runs, stores
  <2>2. \A e \in Device : missed[e] = TRUE => missed'[e] = TRUE
    BY <1>2, <2>1
  <2>3. /\ req'[r] = Idle \/ req'[r].pc = req[r].pc
        /\ \A x \in Requests \ {r} : req'[x] = req[x]
    <3>1. BodyMoves(r)
      BY <1>1, <1>8, NotifyMoves
    <3>2. CASE Release(r)
      BY <1>1, <3>2, ReleaseOrder
    <3>3. CASE ~Release(r)
      <4>1. PICK h : /\ req' = [req EXCEPT ![r] = h]
                     /\ SameRequest(h, req[r])
                     /\ \/ h.pc = req[r].pc
                        \/ req[r].pc \in IngestSteps /\ h.pc \in IngestSteps
                        \/ req[r].pc \in RemoveSteps /\ h.pc \in RemoveSteps
                     /\ UNCHANGED <<ingestQ, deviceQ>>
        BY <3>1, <3>3 DEF BodyMoves
      <4>2. h.pc = req[r].pc
        BY <2>1, <4>1 DEF IngestSteps, RemoveSteps
      <4>3. QED
        BY <1>1, <4>1, <4>2
    <3>4. QED
      BY <3>2, <3>3
  <2>4. QED
    BY <1>3, <1>4, <2>1, <2>2, <2>3
<1>9. QED
  BY <1>5, <1>6, <1>7, <1>8, IngestRemoval, RemoveRemoval DEF Handle, Regroup

LEMMA SubmitRemoval ==
    ASSUME GoneInv, TypeOK', NEW r \in Requests, Submit(r)
    PROVE  \A e \in Device : RemovalInv(e)'
<1>1. TypeOK /\ req \in [Requests -> Handlers]
  BY DEF GoneInv, OrderInv, LocksInv, TypeOK
<1>2. req[r].pc = "idle" /\ UNCHANGED <<registry, live, series, acc, missed>>
  BY DEF Submit, SubmitIngest, SubmitRemove, SubmitGroup, Receives, stores, history
<1>3. \/ UNCHANGED req
      \/ \E h : h.pc \in {"queued", "update"} /\ req' = [req EXCEPT ![r] = h]
  <2>1. ASSUME NEW d, NEW ts, SubmitIngest(r, d, ts)
        PROVE  UNCHANGED req \/ \E h : h.pc \in {"queued", "update"} /\ req' = [req EXCEPT ![r] = h]
    <3> DEFINE h == [Idle EXCEPT !.op = "ingest", !.pc = "queued", !.dev = d, !.devs = {d}, !.ts = ts, !.recv = now']
    <3>1. h.pc = "queued"
      BY DEF Idle
    <3>2. UNCHANGED req \/ req' = [req EXCEPT ![r] = h]
      BY <2>1 DEF SubmitIngest
    <3> HIDE DEF h
    <3>3. QED
      BY <3>1, <3>2
  <2>2. ASSUME NEW d, SubmitRemove(r, d)
        PROVE  UNCHANGED req \/ \E h : h.pc \in {"queued", "update"} /\ req' = [req EXCEPT ![r] = h]
    <3> DEFINE h == [Idle EXCEPT !.op = "remove", !.pc = "queued", !.dev = d, !.devs = {d}]
    <3>1. h.pc = "queued"
      BY DEF Idle
    <3>2. UNCHANGED req \/ req' = [req EXCEPT ![r] = h]
      BY <2>2 DEF SubmitRemove
    <3> HIDE DEF h
    <3>3. QED
      BY <3>1, <3>2
  <2>3. ASSUME NEW D, NEW g, SubmitGroup(r, D, g)
        PROVE  UNCHANGED req \/ \E h : h.pc \in {"queued", "update"} /\ req' = [req EXCEPT ![r] = h]
    <3> DEFINE h == [Idle EXCEPT !.op = "group", !.pc = "update", !.devs = D, !.todo = D, !.group = g]
    <3>1. h.pc \in {"queued", "update"}
      BY DEF Idle
    <3>2. UNCHANGED req \/ req' = [req EXCEPT ![r] = h]
      BY <2>3 DEF SubmitGroup
    <3> HIDE DEF h
    <3>3. QED
      BY <3>1, <3>2
  <2>4. QED
    BY <2>1, <2>2, <2>3 DEF Submit
<1>4. req'[r].pc \in {"idle", "queued", "update"} /\ \A x \in Requests \ {r} : req'[x] = req[x]
  BY <1>1, <1>2, <1>3
<1>5. QED
  BY <1>2, <1>4, WaitingRemoval DEF Removing, Accepting, IngestSteps

\* A flush writes an accumulator back only if it holds samples, a sweep marks a
\* device only if it has live state.
LEMMA TimerRemoval ==
    ASSUME GoneInv, TypeOK', UNCHANGED <<req, registry>>,
           \A e \in Device : missed[e] = TRUE => missed'[e] = TRUE,
           \A e \in Device : DataKept(e)
    PROVE  \A e \in Device : RemovalInv(e)'
<1> SUFFICES ASSUME NEW e \in Device PROVE RemovalInv(e)'
  OBVIOUS
<1>1. TypeOK /\ RemovalInv(e) /\ DataKept(e)
  BY DEF GoneInv, OrderInv, LocksInv
<1>2. StepsKept(e)
  BY DEF StepsKept, RemovalOf
<1>3. QED
  BY <1>1, <1>2, RemovalStays

LEMMA FlushRemoval ==
    ASSUME GoneInv, TypeOK', NEW d \in Device, FlushStep(d)
    PROVE  \A e \in Device : RemovalInv(e)'
<1>1. acc \in [Device -> [Kind -> Accs]]
  BY DEF GoneInv, OrderInv, LocksInv, TypeOK
<1>2. UNCHANGED <<req, registry, live, series, missed>>
  BY DEF FlushStep, AdmitFlush, FlushMinute, FlushHourly, FlushStage, stores, history
<1>3. \/ UNCHANGED acc
      \/ \E k \in Kind : NeedsPersist(acc[d][k]) /\ acc' = [acc EXCEPT ![d][k].dirty = FALSE]
  BY DEF FlushStep, AdmitFlush, FlushMinute, FlushHourly, FlushStage, Kind
<1>4. ASSUME NEW e \in Device PROVE DataKept(e)
  <2>1. acc[e] = NoAccs => acc'[e] = NoAccs
    <3>1. CASE UNCHANGED acc
      BY <3>1
    <3>2. ASSUME NEW k \in Kind, NeedsPersist(acc[d][k]), acc' = [acc EXCEPT ![d][k].dirty = FALSE], acc[e] = NoAccs
          PROVE  acc'[e] = NoAccs
      <4>1. acc[d] # NoAccs
        BY <3>2 DEF NeedsPersist, NoAccs, NoAcc
      <4>2. QED
        BY <1>1, <3>2, <4>1
    <3>3. QED
      BY <1>3, <3>1, <3>2
  <2>2. QED
    BY <1>2, <2>1 DEF DataKept
<1>5. QED
  BY <1>2, <1>4, TimerRemoval

LEMMA SweepRemoval ==
    ASSUME GoneInv, TypeOK', NEW d \in Device, SweepStep(d)
    PROVE  \A e \in Device : RemovalInv(e)'
<1>1. live \in [Device -> LiveStates] /\ missed \in [Device -> BOOLEAN]
  BY DEF GoneInv, OrderInv, LocksInv, TypeOK
<1>2. /\ UNCHANGED <<req, registry, acc, series>>
      /\ missed' = missed \/ missed' = [missed EXCEPT ![d] = TRUE]
      /\ UNCHANGED live \/ (MarkMatches(d) /\ live' = MarkedOffline(d))
  BY DEF SweepStep, MarkOffline, EnterSweep, NotifyOffline, stores
<1>3. ASSUME NEW e \in Device, live[e] = NoLive PROVE live'[e] = NoLive
  <2>1. CASE MarkMatches(d) /\ live' = MarkedOffline(d)
    <3>1. d # e
      BY <1>3, <2>1, NoLiveFacts DEF MarkMatches
    <3>2. QED
      BY <1>1, <1>3, <2>1, <3>1 DEF MarkedOffline
  <2>2. QED
    BY <1>2, <1>3, <2>1
<1>4. \A e \in Device : missed[e] = TRUE => missed'[e] = TRUE
  BY <1>1, <1>2
<1>5. QED
  BY <1>2, <1>3, <1>4, TimerRemoval DEF DataKept

\* A restart loses the accumulators and the handlers, and finds the removals
\* that were cut short.
LEMMA RestartRemoval ==
    ASSUME GoneInv, Restart
    PROVE  \A e \in Device : RemovalInv(e)'
<1> SUFFICES ASSUME NEW e \in Device PROVE RemovalInv(e)'
  OBVIOUS
<1>1. /\ acc'[e] = NoAccs /\ missed'[e] = HalfRemoved(e) /\ UNCHANGED <<registry, live, series>>
      /\ \A r \in Requests : req'[r] = Idle
  BY DEF Restart, stores
<1>2. RemovalInv(e) /\ (live[e].ts = 0 => live[e] = NoLive)
  BY DEF GoneInv, OrderInv, LiveInv
<1>3. Idle.pc = "idle"
  BY DEF Idle
<1>4. \A w \in Window : series'[e][w].list = <<>> => series'[e][w] = EmptySeries
  BY <1>1, <1>2 DEF RemovalInv
<1>5. registry'[e].status = "closed" /\ missed'[e] = FALSE => NothingLeft(e)'
  BY <1>1, <1>2, <1>4 DEF HalfRemoved, NothingLeft
<1>6. registry'[e].status = "absent" => NothingLeft(e)'
  BY <1>1, <1>2 DEF RemovalInv, NothingLeft
<1>7. QED
  BY <1>1, <1>3, <1>4, <1>5, <1>6 DEF RemovalInv, Removing, Accepting, IngestSteps

LEMMA GoneStep == GoneInv /\ [Next]_vars => GoneInv'
<1> SUFFICES ASSUME GoneInv, [Next]_vars PROVE GoneInv'
  OBVIOUS
<1>1. OrderInv' /\ TypeOK'
  BY OrderStep DEF GoneInv, OrderInv, LocksInv
<1>2. ASSUME ListExpired \/ StartFlush \/ StartSweep \/ Shutdown \/ Process \/ Tick \/ UNCHANGED vars
      PROVE  \A e \in Device : RemovalInv(e)'
  <2>1. UNCHANGED <<req, registry, live, acc, series, missed>>
    BY <1>2 DEF ListExpired, StartFlush, StartSweep, Shutdown, Process, HttpDrained, FlushDrained,
                SweepDrained, LastFlush, Stop, Tick, vars, stores, memory, history
  <2>2. QED
    BY <1>1, <2>1, TimerRemoval DEF DataKept
<1>3. \A e \in Device : RemovalInv(e)'
  BY <1>1, <1>2, HandleRemoval, SubmitRemoval, FlushRemoval, SweepRemoval, RestartRemoval DEF Next
<1>4. QED
  BY <1>1, <1>3 DEF GoneInv

LEMMA GoneInit == Init => GoneInv
<1> SUFFICES ASSUME Init PROVE GoneInv
  OBVIOUS
<1>1. \A r \in Requests : req[r].pc = "idle"
  BY DEF Init, Idle
<1>2. ASSUME NEW d \in Device PROVE NothingLeft(d) /\ registry[d].status = "absent"
  BY DEF Init, NothingLeft, NoRecord
<1>3. ASSUME NEW d \in Device PROVE RemovalInv(d)
  BY <1>1, <1>2 DEF RemovalInv, NothingLeft, Removing, Accepting, IngestSteps
<1>4. QED
  BY <1>3, OrderInit DEF GoneInv

LEMMA GoneInvariant == Spec => []GoneInv
BY GoneInit, GoneStep, PTL DEF Spec

\* A removal that completed has cleared the live state, the series and the
\* accumulators of its device, and nothing in flight brings them back: not the
\* flush, whose captured device has no dirty accumulator left, not the sweep,
\* whose compare-and-set finds no live state, and not an upload, which works
\* under the same locks and registers the device again first.
THEOREM RemovedIsGoneHolds == Spec => []RemovedIsGone
<1>1. ASSUME GoneInv PROVE RemovedIsGone
  <2> SUFFICES ASSUME NEW d \in Device, registry[d].status = "closed", Quiescent(d), ~missed[d]
               PROVE  NothingLeft(d)
    BY DEF RemovedIsGone, NothingLeft
  <2>1. missed[d] = FALSE
    BY <1>1 DEF GoneInv, OrderInv, LocksInv, TypeOK
  <2>2. ASSUME NEW r \in Requests, RemovalOf(d, r, Removing) PROVE FALSE
    <3>1. req[r].pc # "idle" /\ req[r].devs = {d}
      BY <1>1, <2>2 DEF GoneInv, OrderInv, LocksInv, QueuesInv, KindInv, RemovalOf, Removing
    <3>2. QED
      BY <3>1 DEF Quiescent
  <2>3. QED
    BY <1>1, <2>1, <2>2 DEF GoneInv, RemovalInv
<1>2. QED
  BY <1>1, GoneInvariant, PTL

-----------------------------------------------------------------------------
(* What the consoles show *)

\* Nothing that a console's view of d depends on changes.
LEMMA ConsoleKept ==
    ASSUME NEW d \in Device, ConsoleInv(d), missed'[d] = FALSE => missed[d] = FALSE,
           registry'[d] = registry[d], live'[d] = live[d], view'[d] = view[d],
           AnnouncePending(d) => AnnouncePending(d)',
           missed'[d] = FALSE => \A r \in Requests : RoleKept(d, r)
    PROVE  ConsoleInv(d)'
<1> SUFFICES ASSUME missed'[d] = FALSE
             PROVE  /\ \A r \in Requests : NotifyOk(d, r)' /\ EmitOk(d, r)' /\ SeenOk(d, r)'
                    /\ Shown(d)' /\ Hidden(d)'
  BY DEF ConsoleInv
<1>1. /\ \A r \in Requests : NotifyOk(d, r) /\ EmitOk(d, r) /\ SeenOk(d, r)
      /\ Shown(d) /\ Hidden(d)
      /\ \A r \in Requests : RoleKept(d, r)
  BY DEF ConsoleInv
<1>2. ASSUME NEW g, GroupKnown(d, g) PROVE g = registry'[d].group \/ \E r \in Requests : GroupPending(d, r)'
  BY <1>1, <1>2 DEF GroupKnown, RoleKept
<1>3. ASSUME NEW r \in Requests PROVE NotifyOk(d, r)'
  <2> SUFFICES ASSUME req'[r].op = "group", d \in req'[r].todo, req'[r].half[d] \in {"live", "record"}
               PROVE  /\ req'[r].half[d] = "live" => ReadingKnown(d, req[r].seen[d])'
                      /\ req'[r].half[d] = "record" =>
                            req'[r].rec[d].status = registry'[d].status /\ GroupKnown(d, req[r].rec[d].group)'
    BY DEF NotifyOk
  <2>1. /\ req[r].op = "group" /\ d \in req[r].todo /\ req[r].half[d] = req'[r].half[d]
        /\ req[r].seen[d] = req'[r].seen[d] /\ req[r].rec[d] = req'[r].rec[d]
    BY <1>1 DEF RoleKept
  <2>2. req[r].half[d] = "live" => ReadingKnown(d, req[r].seen[d])
    BY <1>1, <2>1 DEF NotifyOk
  <2>3. req[r].half[d] = "record" => req[r].rec[d].status = registry[d].status /\ GroupKnown(d, req[r].rec[d].group)
    BY <1>1, <2>1 DEF NotifyOk
  <2>4. req'[r].half[d] = "live" => ReadingKnown(d, req[r].seen[d])'
    BY <2>1, <2>2 DEF ReadingKnown
  <2>5. req'[r].half[d] = "record" => GroupKnown(d, req[r].rec[d].group)'
    BY <1>2, <2>1, <2>3 DEF GroupKnown
  <2>6. QED
    BY <2>1, <2>3, <2>4, <2>5
<1>4. ASSUME NEW r \in Requests PROVE EmitOk(d, r)'
  <2> SUFFICES ASSUME req'[r].dev = d, req'[r].pc \in Accepting
               PROVE  /\ GroupKnown(d, req[r].rec[d].group)'
                      /\ req'[r].pc = "emit" => ReadingKnown(d, [ts |-> req[r].ts, status |-> "online"])'
    BY DEF EmitOk, Accepting, IngestSteps
  <2>1. /\ req[r].dev = d /\ req[r].pc \in Accepting /\ req[r].rec[d] = req'[r].rec[d]
        /\ req'[r].pc = "emit" => req[r].pc = "emit" /\ req[r].ts = req'[r].ts
    BY <1>1 DEF RoleKept
  <2>2. /\ GroupKnown(d, req[r].rec[d].group)
        /\ req'[r].pc = "emit" => ReadingKnown(d, [ts |-> req[r].ts, status |-> "online"])
    BY <1>1, <2>1 DEF EmitOk
  <2>3. GroupKnown(d, req[r].rec[d].group)'
    BY <1>2, <2>1, <2>2 DEF GroupKnown
  <2>4. QED
    BY <2>1, <2>2, <2>3 DEF ReadingKnown
<1>5. ASSUME NEW r \in Requests PROVE SeenOk(d, r)'
  BY <1>1 DEF SeenOk, RoleKept
<1>6. Shown(d)'
  <2> SUFFICES ASSUME registry'[d].status = "open", live'[d].ts # 0,
                      ~\E r \in Requests : EmitPending(d, r)'
               PROVE  view'[d].kind = "state" /\ ReadingKnown(d, view[d])' /\ GroupKnown(d, view[d].group)'
    BY DEF Shown
  <2>1. view[d].kind = "state" /\ ReadingKnown(d, view[d]) /\ GroupKnown(d, view[d].group)
    BY <1>1 DEF Shown, RoleKept
  <2>2. GroupKnown(d, view[d].group)'
    BY <1>2, <2>1 DEF GroupKnown
  <2>3. QED
    BY <2>1, <2>2 DEF ReadingKnown
<1>7. Hidden(d)'
  BY <1>1 DEF Hidden, RoleKept
<1>8. QED
  BY <1>3, <1>4, <1>5, <1>6, <1>7

\* Op holds the locks of d: no handler but it has begun its work for d.
LEMMA NoneAtWork ==
    ASSUME ViewInv, NEW d \in Device, NEW op, AtHead(ingestQ, d, op), NEW x \in Requests, x # op
    PROVE  /\ req[x].dev = d => req[x].pc \in {"idle", "update", "queued"}
           /\ req[x].op = "group" /\ d \in req[x].todo => req[x].half[d] = "none"
           /\ ~EmitPending(d, x) /\ ~GonePending(d, x)
<1>1. LocksInv /\ GroupShape(x) /\ ingestQ \in Queues /\ deviceQ \in Queues /\ req[x].pc \in Steps
  BY ServiceTypes DEF ViewInv, GoneInv, OrderInv, LocksInv, TypeOK, Handlers
<1>2. ~InQueue(deviceQ, d, x)
  <2>1. ~AtHead(ingestQ, d, x)
    BY <1>1, HeadFacts
  <2>2. QED
    BY <1>1, <2>1 DEF LocksInv, QueuesInv, RequestInv
<1>3. RequestInv(x)
  BY <1>1 DEF LocksInv, QueuesInv
<1>4. ASSUME req[x].dev = d PROVE req[x].pc \in {"idle", "update", "queued"}
  BY <1>2, <1>3, <1>4 DEF RequestInv, Outside
<1>5. ASSUME req[x].op = "group", d \in req[x].todo, req[x].half[d] # "none" PROVE FALSE
  <2>1. req[x].pc = "notify" /\ d \in req[x].devs
    BY <1>1, <1>5 DEF GroupShape
  <2>2. InQueue(ingestQ, d, x)
    BY <1>3, <2>1 DEF RequestInv, Outside
  <2>3. d # req[x].dev => InQueue(deviceQ, d, x)
    BY <1>1, <1>3, <2>1, <2>2, HeadFacts DEF RequestInv
  <2>4. d = req[x].dev => InQueue(deviceQ, d, x)
    BY <1>3, <2>1 DEF RequestInv, Outside
  <2>5. QED
    BY <1>2, <2>3, <2>4
<1>6. QED
  BY <1>4, <1>5 DEF EmitPending, GonePending, IngestOf, RemovalOf

\* The handler r works for d under its locks; the others wait.
Sole(d, r) == AtHead(deviceQ, d, r) /\ \A x \in Requests \ {r} : req'[x] = req[x]

LEMMA SoleFacts ==
    ASSUME ViewInv, NEW r \in Requests, NEW d \in Device, Sole(d, r), NEW x \in Requests \ {r}
    PROVE  /\ req[x].dev = d => req[x].pc \in {"idle", "update", "queued"}
           /\ req[x].op = "group" /\ d \in req[x].todo => req[x].half[d] = "none"
           /\ ~EmitPending(d, x) /\ ~GonePending(d, x)
           /\ GroupPending(d, x) => GroupPending(d, x)'
<1>1. AtHead(ingestQ, d, r)
  BY ServiceTypes, HeadFacts DEF Sole, ViewInv, GoneInv, OrderInv, LocksInv, QueuesInv, RequestInv
<1>2. /\ req[x].dev = d => req[x].pc \in {"idle", "update", "queued"}
      /\ req[x].op = "group" /\ d \in req[x].todo => req[x].half[d] = "none"
      /\ ~EmitPending(d, x) /\ ~GonePending(d, x)
  BY <1>1, NoneAtWork
<1>3. GroupPending(d, x) => GroupPending(d, x)'
  BY <1>2 DEF GroupPending, Sole
<1>4. QED
  BY <1>2, <1>3

\* So r alone has to leave a right view behind.
LEMMA SoleStep ==
    ASSUME ViewInv, NEW r \in Requests, NEW d \in Device, Sole(d, r),
           missed'[d] = FALSE =>
              NotifyOk(d, r)' /\ EmitOk(d, r)' /\ SeenOk(d, r)' /\ Shown(d)' /\ Hidden(d)'
    PROVE  ConsoleInv(d)'
<1> SUFFICES ASSUME missed'[d] = FALSE, NEW x \in Requests \ {r}
             PROVE  NotifyOk(d, x)' /\ EmitOk(d, x)' /\ SeenOk(d, x)'
  BY DEF ConsoleInv
<1>1. req'[x] = req[x]
  BY DEF Sole
<1>2. /\ req[x].dev = d => req[x].pc \in {"idle", "update", "queued"}
      /\ req[x].op = "group" /\ d \in req[x].todo => req[x].half[d] = "none"
  BY SoleFacts
<1>3. QED
  BY <1>1, <1>2 DEF NotifyOk, EmitOk, SeenOk, Accepting, IngestSteps

\* A group that was known, or will be announced by another handler, stays so.
LEMMA GroupStays ==
    ASSUME ViewInv, NEW r \in Requests, NEW d \in Device, Sole(d, r),
           registry'[d].group = registry[d].group,
           GroupPending(d, r) => GroupPending(d, r)',
           NEW g, GroupKnown(d, g)
    PROVE  g = registry'[d].group \/ \E x \in Requests : GroupPending(d, x)'
BY SoleFacts DEF GroupKnown

\* The view stays right when neither it nor the live state changes.
LEMMA ViewStays ==
    ASSUME ViewInv, NEW r \in Requests, NEW d \in Device, Sole(d, r),
           missed[d] = FALSE, ~EmitPending(d, r), ~GonePending(d, r),
           view'[d] = view[d], live'[d] = live[d], registry'[d].group = registry[d].group,
           registry'[d].status = "open" => registry[d].status = "open" \/ live[d].ts = 0,
           GroupPending(d, r) => GroupPending(d, r)',
           AnnouncePending(d) => AnnouncePending(d)'
    PROVE  Shown(d)' /\ Hidden(d)'
<1>1. Shown(d) /\ Hidden(d)
  BY DEF ViewInv, ConsoleInv
<1>2. \A x \in Requests : ~EmitPending(d, x) /\ ~GonePending(d, x)
  BY SoleFacts
<1>3. Shown(d)'
  <2> SUFFICES ASSUME registry'[d].status = "open", live'[d].ts # 0
               PROVE  view'[d].kind = "state" /\ ReadingKnown(d, view[d])' /\ GroupKnown(d, view[d].group)'
    BY DEF Shown
  <2>1. view[d].kind = "state" /\ ReadingKnown(d, view[d]) /\ GroupKnown(d, view[d].group)
    BY <1>1, <1>2 DEF Shown
  <2>2. GroupKnown(d, view[d].group)'
    BY <2>1, GroupStays DEF GroupKnown
  <2>3. QED
    BY <2>1, <2>2 DEF ReadingKnown
<1>4. Hidden(d)'
  BY <1>1, <1>2 DEF Hidden
<1>5. QED
  BY <1>3, <1>4

\* A handler that has ended has nothing left to do.
LEMMA IdleRole ==
    ASSUME NEW r, req'[r] = Idle, NEW d \in Device
    PROVE  NotifyOk(d, r)' /\ EmitOk(d, r)' /\ SeenOk(d, r)'
<1>1. Idle.op = "none" /\ Idle.pc = "idle"
  BY DEF Idle
<1>2. QED
  BY <1>1 DEF NotifyOk, EmitOk, SeenOk, Accepting, IngestSteps

\* An upload or a removal has nothing to do with the consoles of other devices.
LEMMA ElsewhereKept ==
    ASSUME ViewInv, NEW r \in Requests, NEW d \in Device, req[r].dev = d,
           req[r].op \in {"ingest", "remove"}, NEW e \in Device \ {d},
           req'[r] = Idle \/ SameRequest(req'[r], req[r]), \A x \in Requests \ {r} : req'[x] = req[x],
           missed'[e] = missed[e], registry'[e] = registry[e], live'[e] = live[e], view'[e] = view[e],
           UNCHANGED sweep
    PROVE  ConsoleInv(e)'
<1>1. AnnouncePending(e) => AnnouncePending(e)'
  BY DEF AnnouncePending, StillOffline
<1>2. Idle.op = "none" /\ Idle.pc = "idle"
  BY DEF Idle
<1>3. ~GroupPending(e, r) /\ ~EmitPending(e, r) /\ ~GonePending(e, r)
  BY DEF GroupPending, EmitPending, GonePending, IngestOf, RemovalOf
<1>4. req'[r].op # "group" /\ (req'[r].dev = e => req'[r].pc = "idle")
  BY <1>2 DEF SameRequest
<1>5. RoleKept(e, r)
  BY <1>3, <1>4 DEF RoleKept, Accepting, IngestSteps
<1>6. ASSUME NEW x \in Requests \ {r} PROVE RoleKept(e, x)
  BY DEF RoleKept, GroupPending, EmitPending, GonePending, IngestOf, RemovalOf
<1>7. ConsoleInv(e)
  BY DEF ViewInv
<1>8. QED
  BY <1>1, <1>5, <1>6, <1>7, ConsoleKept

\* The steps of an upload that leave live state and view alone.
LEMMA QuietUpload ==
    ASSUME ViewInv, NEW r \in Requests, NEW d \in Device, Sole(d, r), req[r].dev = d, req[r].op = "ingest",
           req[r].pc # "emit", missed[d] = FALSE,
           view'[d] = view[d], live'[d] = live[d], sweep' = sweep, registry'[d].group = registry[d].group,
           registry'[d].status = "open" => registry[d].status = "open" \/ live[d].ts = 0,
           \/ req'[r] = Idle
           \/ /\ req'[r].op = "ingest" /\ req'[r].dev = d /\ req'[r].pc \in Accepting \ {"emit"}
              /\ req'[r].rec[d].group = registry'[d].group
                 \/ (req[r].pc \in Accepting /\ req'[r].rec[d] = req[r].rec[d])
    PROVE  NotifyOk(d, r)' /\ EmitOk(d, r)' /\ SeenOk(d, r)' /\ Shown(d)' /\ Hidden(d)'
<1>1. ~EmitPending(d, r) /\ ~GonePending(d, r) /\ ~GroupPending(d, r)
  BY DEF EmitPending, GonePending, GroupPending, RemovalOf
<1>2. AnnouncePending(d) => AnnouncePending(d)'
  BY DEF AnnouncePending, StillOffline
<1>3. Shown(d)' /\ Hidden(d)'
  BY <1>1, <1>2, ViewStays
<1>4. CASE req'[r] = Idle
  BY <1>3, <1>4, IdleRole
<1>5. CASE /\ req'[r].op = "ingest" /\ req'[r].dev = d /\ req'[r].pc \in Accepting \ {"emit"}
           /\ req'[r].rec[d].group = registry'[d].group
              \/ (req[r].pc \in Accepting /\ req'[r].rec[d] = req[r].rec[d])
  <2>1. NotifyOk(d, r)' /\ SeenOk(d, r)'
    BY <1>5 DEF NotifyOk, SeenOk, Accepting, IngestSteps
  <2>2. GroupKnown(d, req[r].rec[d].group)'
    <3>1. CASE req'[r].rec[d].group = registry'[d].group
      BY <3>1 DEF GroupKnown
    <3>2. CASE req[r].pc \in Accepting /\ req'[r].rec[d] = req[r].rec[d]
      <4>1. GroupKnown(d, req[r].rec[d].group)
        BY <3>2 DEF ViewInv, ConsoleInv, EmitOk
      <4>2. QED
        BY <1>1, <3>2, <4>1, GroupStays DEF GroupKnown
    <3>3. QED
      BY <1>5, <3>1, <3>2
  <2>3. EmitOk(d, r)'
    BY <1>5, <2>2 DEF EmitOk
  <2>4. QED
    BY <1>3, <2>1, <2>3
<1>6. QED
  BY <1>4, <1>5

LEMMA IngestView ==
    ASSUME ViewInv, TypeOK', NEW r \in Requests, Ingest(r)
    PROVE  \A e \in Device : ConsoleInv(e)'
<1>1. GoneInv /\ LocksInv /\ TypeOK /\ req \in [Requests -> Handlers] /\ req[r] \in Handlers
  BY ServiceTypes DEF ViewInv, GoneInv, OrderInv, LocksInv, TypeOK
<1>2. PICK d \in Device : req[r].dev = d
  BY <1>1, OrderTypes
<1>3. /\ AtHead(deviceQ, d, r) /\ SameTimers /\ \A x \in Requests \ {r} : req'[x] = req[x]
      /\ req'[r] = Idle \/ SameRequest(req'[r], req[r])
  BY <1>1, <1>2, IngestMoves, BodyOrder
<1>4. Sole(d, r) /\ sweep' = sweep
  BY <1>3 DEF Sole, SameTimers
<1>5. req[r].op = "ingest" /\ req[r].pc \in IngestSteps
  <2>1. req[r].pc \in IngestSteps
    BY <1>1 DEF Ingest, Register, ReadPrevious, AppendRaw, AddMinuteAggregate, AddHourlyAggregate, Accumulate,
                RollOver, Upsert, EmitAccepted, FailsWith, Runs, IngestSteps
  <2>2. QED
    BY <1>1, <2>1 DEF LocksInv, QueuesInv, KindInv
<1>6. /\ view \in [Device -> Views] /\ registry \in [Device -> Records]
      /\ live \in [Device -> LiveStates] /\ missed \in [Device -> BOOLEAN]
  BY <1>1 DEF TypeOK
<1>7. ASSUME NEW e \in Device \ {d} PROVE ConsoleInv(e)'
  <2>1. Untouched(e)
    BY <1>1, <1>2, IngestTouches
  <2>2. view' = view \/ \E v : view' = [view EXCEPT ![d] = v]
    <3>1. CASE EmitAccepted(r)
      BY <1>2, <3>1 DEF EmitAccepted
    <3>2. CASE ~EmitAccepted(r)
      BY <3>2 DEF Ingest, Register, ReadPrevious, AppendRaw, AddMinuteAggregate, AddHourlyAggregate,
                  Accumulate, RollOver, Upsert
    <3>3. QED
      BY <3>1, <3>2
  <2>3. view'[e] = view[e]
    BY <1>6, <2>2
  <2>4. QED
    BY <1>2, <1>3, <1>4, <1>5, <2>1, <2>3, ElsewhereKept DEF Untouched
<1>8. SUFFICES ASSUME missed'[d] = FALSE
               PROVE  NotifyOk(d, r)' /\ EmitOk(d, r)' /\ SeenOk(d, r)' /\ Shown(d)' /\ Hidden(d)'
  BY <1>4, <1>7, SoleStep
<1>9. ConsoleInv(d) /\ RemovalInv(d)
  BY DEF ViewInv, GoneInv
<1>10. CASE Register(r)
  <2>1. /\ req[r].pc = "register" /\ missed' = missed /\ view' = view /\ live' = live
        /\ registry' \in {registry, [registry EXCEPT ![d] = OpenRecord(d)]}
        /\ \/ Release(r)
           \/ /\ registry' = [registry EXCEPT ![d] = OpenRecord(d)]
              /\ req' = [req EXCEPT ![r].pc = "previous", ![r].rec[d] = OpenRecord(d)]
    BY <1>2, <1>10 DEF Register, FailsWith, Runs, history
  <2>2. registry'[d].group = registry[d].group
    BY <1>6, <2>1 DEF OpenRecord
  <2>3. registry[d].status # "open" => live[d].ts = 0
    <3>1. ~RemovalOf(d, r, Removing)
      BY <1>5 DEF RemovalOf
    <3>2. missed[d] = FALSE
      BY <1>8, <2>1
    <3>3. registry[d].status = "closed" => NothingLeft(d)
      BY <1>1, <1>2, <1>3, <3>1, <3>2, ClosedFacts
    <3>4. registry[d].status \in {"absent", "open", "closed"}
      BY <1>6 DEF Records
    <3>5. QED
      BY <1>9, <3>3, <3>4, NoLiveFacts DEF RemovalInv, NothingLeft
  <2>4. CASE Release(r)
    <3>1. req'[r] = Idle
      BY <1>1, <2>4, ReleaseOrder
    <3>2. QED
      BY <1>2, <1>4, <1>5, <1>8, <2>1, <2>2, <2>3, <3>1, QuietUpload
  <2>5. CASE /\ registry' = [registry EXCEPT ![d] = OpenRecord(d)]
             /\ req' = [req EXCEPT ![r].pc = "previous", ![r].rec[d] = OpenRecord(d)]
    <3>1. req'[r] = [req[r] EXCEPT !.pc = "previous", !.rec[d] = OpenRecord(d)]
      BY <1>1, <2>5
    <3>2. /\ req'[r].op = "ingest" /\ req'[r].dev = d /\ req'[r].pc = "previous"
          /\ req'[r].rec[d] = OpenRecord(d)
      BY <1>1, <1>2, <1>5, <3>1 DEF Handlers
    <3>3. req'[r].rec[d].group = registry'[d].group /\ "previous" \in Accepting \ {"emit"}
      BY <2>2, <3>2 DEF OpenRecord, Accepting, IngestSteps
    <3>4. QED
      BY <1>2, <1>4, <1>5, <1>8, <2>1, <2>2, <2>3, <3>2, <3>3, QuietUpload
  <2>6. QED
    BY <2>1, <2>4, <2>5
<1>11. ASSUME NEW next \in Accepting \ {"emit"}, req[r].pc \in Accepting \ {"emit"},
              Release(r) \/ GoTo(r, next), UNCHANGED <<registry, live, view, missed>>
       PROVE  NotifyOk(d, r)' /\ EmitOk(d, r)' /\ SeenOk(d, r)' /\ Shown(d)' /\ Hidden(d)'
  <2>1. CASE Release(r)
    <3>1. req'[r] = Idle
      BY <1>1, <2>1, ReleaseOrder
    <3>2. QED
      BY <1>2, <1>4, <1>5, <1>8, <1>11, <3>1, QuietUpload
  <2>2. CASE GoTo(r, next)
    <3>1. req'[r] = [req[r] EXCEPT !.pc = next]
      BY <1>1, <2>2, GoToPc
    <3>2. /\ req'[r].op = "ingest" /\ req'[r].dev = d /\ req'[r].pc = next
          /\ req'[r].rec[d] = req[r].rec[d]
      BY <1>1, <1>2, <1>5, <3>1 DEF Handlers
    <3>3. QED
      BY <1>2, <1>4, <1>5, <1>8, <1>11, <3>2, QuietUpload
  <2>3. QED
    BY <1>11, <2>1, <2>2
<1>12. CASE ReadPrevious(r) \/ AppendRaw(r)
  BY <1>11, <1>12 DEF ReadPrevious, AppendRaw, FailsWith, Runs, stores, history, Accepting, IngestSteps
<1>13. CASE AddMinuteAggregate(r) \/ AddHourlyAggregate(r)
  BY <1>11, <1>13 DEF AddMinuteAggregate, AddHourlyAggregate, Accumulate, RollOver, FailsWith, Runs, stores,
                      Accepting, IngestSteps
<1>14. CASE Upsert(r)
  <2>1. /\ req[r].pc = "upsert" /\ UNCHANGED <<registry, view>> /\ req[r].ts \in Timestamp
        /\ \/ GoTo(r, "emit") /\ live' = [live EXCEPT ![d] = UpsertState(r)] /\ missed' = missed
           \/ Release(r) /\ UNCHANGED <<live, missed>>
           \/ missed' = [missed EXCEPT ![d] = TRUE]
    BY <1>1, <1>2, <1>5, <1>14, ServiceTypes DEF Upsert, FailsWith, Runs, UpsertState, CarriesSample
  <2>2. CASE Release(r) /\ UNCHANGED <<live, missed>>
    BY <1>11, <2>1, <2>2 DEF Accepting, IngestSteps
  <2>3. CASE missed' = [missed EXCEPT ![d] = TRUE]
    BY <1>6, <1>8, <2>3
  <2>4. CASE GoTo(r, "emit") /\ live' = [live EXCEPT ![d] = UpsertState(r)] /\ missed' = missed
    <3>1. req'[r] = [req[r] EXCEPT !.pc = "emit"]
      BY <1>1, <2>4, GoToPc
    <3>2. /\ req'[r].op = "ingest" /\ req'[r].dev = d /\ req'[r].pc = "emit"
          /\ req'[r].rec[d] = req[r].rec[d] /\ req'[r].ts = req[r].ts
      BY <1>1, <1>2, <1>5, <3>1 DEF Handlers
    <3>3. live'[d] = UpsertState(r) /\ live'[d].ts = req[r].ts /\ live'[d].status = "online" /\ live'[d].ts # 0
      BY <1>6, <2>1, <2>4 DEF UpsertState, Timestamp
    <3>4. GroupKnown(d, req[r].rec[d].group)
      BY <1>2, <1>8, <1>9, <2>1, <2>4 DEF ConsoleInv, EmitOk, Accepting, IngestSteps
    <3>5. ~GroupPending(d, r)
      BY <1>5 DEF GroupPending
    <3>6. GroupKnown(d, req[r].rec[d].group)'
      BY <1>4, <2>1, <3>2, <3>4, <3>5, GroupStays DEF GroupKnown
    <3>7. EmitOk(d, r)'
      BY <3>2, <3>3, <3>6 DEF EmitOk, ReadingKnown
    <3>8. NotifyOk(d, r)' /\ SeenOk(d, r)' /\ Hidden(d)'
      BY <3>2, <3>3 DEF NotifyOk, SeenOk, Hidden
    <3>9. Shown(d)'
      BY <3>2 DEF Shown, EmitPending, IngestOf
    <3>10. QED
      BY <3>7, <3>8, <3>9
  <2>5. QED
    BY <2>1, <2>2, <2>3, <2>4
<1>15. CASE EmitAccepted(r)
  <2>1. /\ req[r].pc = "emit" /\ UNCHANGED <<registry, live, missed>> /\ req[r].ts \in Timestamp
        /\ view' = [view EXCEPT ![d] = [kind |-> "state", ts |-> req[r].ts, status |-> "online",
                                        group |-> req[r].rec[d].group]]
        /\ Release(r)
    BY <1>1, <1>2, <1>5, <1>15, ServiceTypes DEF EmitAccepted, Runs, CarriesSample, stores, history
  <2>2. req'[r] = Idle
    BY <1>1, <2>1, ReleaseOrder
  <2>3. /\ view'[d].kind = "state" /\ view'[d].ts = req[r].ts /\ view'[d].status = "online"
        /\ view'[d].group = req[r].rec[d].group
    BY <1>6, <2>1
  <2>4. /\ GroupKnown(d, req[r].rec[d].group)
        /\ ReadingKnown(d, [ts |-> req[r].ts, status |-> "online"])
    BY <1>2, <1>8, <1>9, <2>1 DEF ConsoleInv, EmitOk, Accepting, IngestSteps
  <2>5. ~GroupPending(d, r)
    BY <1>5 DEF GroupPending
  <2>6. GroupKnown(d, view[d].group)'
    BY <1>4, <2>1, <2>3, <2>4, <2>5, GroupStays DEF GroupKnown
  <2>7. AnnouncePending(d) => AnnouncePending(d)'
    BY <1>4, <2>1 DEF AnnouncePending, StillOffline
  <2>8. ReadingKnown(d, view[d])' /\ live'[d].ts # 0
    BY <2>1, <2>3, <2>4, <2>7 DEF ReadingKnown, Timestamp
  <2>9. QED
    BY <2>2, <2>3, <2>6, <2>8, IdleRole DEF Shown, Hidden
<1>16. QED
  BY <1>10, <1>12, <1>13, <1>14, <1>15 DEF Ingest

\* A removal closes the device before it takes its reading back.
LEMMA RemoveView ==
    ASSUME ViewInv, TypeOK', NEW r \in Requests, Remove(r)
    PROVE  \A e \in Device : ConsoleInv(e)'
<1>1. GoneInv /\ LocksInv /\ TypeOK /\ req \in [Requests -> Handlers] /\ req[r] \in Handlers
  BY ServiceTypes DEF ViewInv, GoneInv, OrderInv, LocksInv, TypeOK
<1>2. PICK d \in Device : req[r].dev = d
  BY <1>1, OrderTypes
<1>3. /\ AtHead(deviceQ, d, r) /\ SameTimers /\ \A x \in Requests \ {r} : req'[x] = req[x]
      /\ req'[r] = Idle \/ SameRequest(req'[r], req[r])
  BY <1>1, <1>2, RemoveMoves, BodyOrder
<1>4. Sole(d, r) /\ sweep' = sweep
  BY <1>3 DEF Sole, SameTimers
<1>5. req[r].op = "remove" /\ ~GroupPending(d, r) /\ ~EmitPending(d, r)
  <2>1. req[r].pc \in RemoveSteps
    BY DEF Remove, DeleteDevice, ForgetAccumulators, RemoveState, ClearSeries, FailsWith, Runs, RemoveSteps
  <2>2. req[r].op = "remove"
    BY <1>1, <2>1 DEF LocksInv, QueuesInv, KindInv
  <2>3. QED
    BY <2>2 DEF GroupPending, EmitPending, IngestOf
<1>6. /\ view \in [Device -> Views] /\ registry \in [Device -> Records]
      /\ live \in [Device -> LiveStates] /\ missed \in [Device -> BOOLEAN]
  BY <1>1 DEF TypeOK
<1>7. ASSUME NEW e \in Device \ {d}
      PROVE  missed'[e] = missed[e] /\ registry'[e] = registry[e] /\ live'[e] = live[e] /\ view'[e] = view[e]
  <2>1. CASE DeleteDevice(r)
    BY <1>2, <1>6, <2>1 DEF DeleteDevice
  <2>2. CASE ForgetAccumulators(r)
    BY <1>2, <1>6, <2>2 DEF ForgetAccumulators, stores
  <2>3. CASE RemoveState(r)
    BY <1>2, <1>6, <2>3 DEF RemoveState
  <2>4. CASE ClearSeries(r)
    BY <1>2, <1>6, <2>4 DEF ClearSeries
  <2>5. QED
    BY <2>1, <2>2, <2>3, <2>4 DEF Remove
<1>8. \A e \in Device \ {d} : ConsoleInv(e)'
  BY <1>2, <1>3, <1>4, <1>5, <1>7, ElsewhereKept
<1>9. SUFFICES ASSUME missed'[d] = FALSE
               PROVE  NotifyOk(d, r)' /\ EmitOk(d, r)' /\ SeenOk(d, r)' /\ Shown(d)' /\ Hidden(d)'
  BY <1>4, <1>8, SoleStep
<1>10. ConsoleInv(d) /\ RemovalInv(d) /\ \A x \in Requests \ {r} : ~GonePending(d, x)
  BY <1>4, SoleFacts DEF ViewInv, GoneInv
\* The removal goes on while the view and the live state stay.
<1>11. ASSUME missed'[d] = missed[d], UNCHANGED <<live, view>>, req[r].pc # "clear",
              registry'[d].group = registry[d].group,
              registry'[d].status = "open" => registry[d].status = "open"
       PROVE  Shown(d)' /\ Hidden(d)'
  <2>1. ~GonePending(d, r)
    BY <1>11 DEF GonePending, RemovalOf
  <2>2. AnnouncePending(d) => AnnouncePending(d)'
    BY <1>4, <1>11 DEF AnnouncePending, StillOffline
  <2>3. QED
    BY <1>4, <1>5, <1>9, <1>11, <2>1, <2>2, ViewStays
\* Its own steps make no claim on the consoles but in "remove".
<1>12. ASSUME req'[r].op = "remove", req'[r].pc \in {"state", "remove", "clear"}
       PROVE  NotifyOk(d, r)' /\ EmitOk(d, r)'
  BY <1>12 DEF NotifyOk, EmitOk, Accepting, IngestSteps
<1>13. CASE DeleteDevice(r)
  <2>1. /\ req[r].pc = "delete" /\ UNCHANGED <<live, view>>
        /\ \/ GoTo(r, "state") /\ registry' = [registry EXCEPT ![d] = Closed(d)] /\ missed' = missed
           \/ Release(r) /\ UNCHANGED <<registry, missed>>
           \/ missed' = [missed EXCEPT ![d] = TRUE]
    BY <1>2, <1>13 DEF DeleteDevice, FailsWith, Runs
  <2>2. missed' = missed
    BY <1>6, <1>9, <2>1
  <2>3. CASE GoTo(r, "state") /\ registry' = [registry EXCEPT ![d] = Closed(d)]
    <3>1. registry'[d].group = registry[d].group /\ registry'[d].status = "closed"
      BY <1>6, <2>3 DEF Closed
    <3>2. req'[r] = [req[r] EXCEPT !.pc = "state"]
      BY <1>1, <2>3, GoToPc
    <3>3. req'[r].op = "remove" /\ req'[r].pc = "state"
      BY <1>1, <1>5, <3>2 DEF Handlers
    <3>4. QED
      BY <1>11, <1>12, <2>1, <2>2, <3>1, <3>3 DEF SeenOk
  <2>4. CASE Release(r) /\ UNCHANGED <<registry, missed>>
    <3>1. req'[r] = Idle
      BY <1>1, <2>4, ReleaseOrder
    <3>2. QED
      BY <1>11, <2>1, <2>4, <3>1, IdleRole
  <2>5. QED
    BY <1>6, <1>9, <2>1, <2>3, <2>4
<1>14. CASE ForgetAccumulators(r)
  <2>1. /\ req[r].pc = "state" /\ UNCHANGED <<registry, live, view>>
        /\ \/ req' = [req EXCEPT ![r].pc = "remove", ![r].seen[d] = live[d]] /\ missed' = missed
           \/ missed' = [missed EXCEPT ![d] = TRUE]
    BY <1>2, <1>14 DEF ForgetAccumulators, FailsWith, Runs, stores
  <2>2. req' = [req EXCEPT ![r].pc = "remove", ![r].seen[d] = live[d]] /\ missed' = missed
    BY <1>6, <1>9, <2>1
  <2>3. req'[r] = [req[r] EXCEPT !.pc = "remove", !.seen[d] = live[d]]
    BY <1>1, <2>2
  <2>4. req'[r].op = "remove" /\ req'[r].pc = "remove" /\ req'[r].seen[d] = live[d]
    BY <1>1, <1>5, <2>3 DEF Handlers
  <2>5. QED
    BY <1>11, <1>12, <2>1, <2>2, <2>4 DEF SeenOk
<1>15. CASE RemoveState(r)
  <2>1. /\ req[r].pc = "remove" /\ UNCHANGED <<registry, view>>
        /\ \/ GoTo(r, "clear") /\ live' = [live EXCEPT ![d] = NoLive] /\ missed' = missed
           \/ missed' = [missed EXCEPT ![d] = TRUE]
    BY <1>2, <1>15 DEF RemoveState, FailsWith, Runs
  <2>2. GoTo(r, "clear") /\ live' = [live EXCEPT ![d] = NoLive] /\ missed' = missed
    BY <1>6, <1>9, <2>1
  <2>3. req'[r] = [req[r] EXCEPT !.pc = "clear"]
    BY <1>1, <2>2, GoToPc
  <2>4. req'[r].op = "remove" /\ req'[r].dev = d /\ req'[r].pc = "clear" /\ req'[r].seen[d] = req[r].seen[d]
    BY <1>1, <1>2, <1>5, <2>3 DEF Handlers
  <2>5. live'[d].ts = 0
    BY <1>6, <2>2, NoLiveFacts
  <2>6. req[r].seen[d].ts # 0 \/ ~(view'[d].kind = "state" /\ view'[d].ts # 0)
    <3>1. req[r].seen[d].ts = 0 => live[d].ts = 0
      BY <1>2, <1>9, <1>10, <2>1, <2>2 DEF ConsoleInv, SeenOk
    <3>2. ~GonePending(d, r)
      BY <2>1 DEF GonePending, RemovalOf
    <3>3. QED
      BY <1>9, <1>10, <2>1, <2>2, <3>1, <3>2 DEF ConsoleInv, Hidden
  <2>7. Hidden(d)'
    BY <2>4, <2>6 DEF Hidden, GonePending, RemovalOf
  <2>8. QED
    BY <1>12, <2>4, <2>5, <2>7 DEF Shown, SeenOk
<1>16. CASE ClearSeries(r)
  <2>1. /\ req[r].pc = "clear" /\ UNCHANGED <<registry, live>> /\ Release(r)
        /\ \/ /\ view' = IF req[r].seen[d].ts = 0 THEN view
                         ELSE [view EXCEPT ![d] = [kind |-> "removed", ts |-> req[r].seen[d].ts,
                                                   status |-> "offline", group |-> NoGroup]]
              /\ missed' = missed
           \/ missed' = [missed EXCEPT ![d] = TRUE]
    BY <1>2, <1>16 DEF ClearSeries, FailsWith, Runs
  <2>2. req'[r] = Idle
    BY <1>1, <2>1, ReleaseOrder
  <2>3. registry'[d].status = "closed" /\ live[d].ts = 0 /\ missed' = missed
    BY <1>2, <1>6, <1>9, <1>10, <2>1, NoLiveFacts DEF RemovalInv, Removing
  <2>4. ~(view'[d].kind = "state" /\ view'[d].ts # 0)
    <3>1. CASE req[r].seen[d].ts = 0
      <4>1. ~GonePending(d, r)
        BY <3>1 DEF GonePending
      <4>2. view' = view
        BY <1>6, <1>9, <2>1, <3>1
      <4>3. QED
        BY <1>9, <1>10, <2>3, <4>1, <4>2 DEF ConsoleInv, Hidden
    <3>2. CASE req[r].seen[d].ts # 0
      <4>1. view'[d].kind = "removed"
        BY <1>6, <1>9, <2>1, <3>2
      <4>2. QED
        BY <4>1
    <3>3. QED
      BY <3>1, <3>2
  <2>5. QED
    BY <2>2, <2>3, <2>4, IdleRole DEF Shown, Hidden
<1>17. QED
  BY <1>13, <1>14, <1>15, <1>16 DEF Remove

\* A group update that notifies holds the locks of all its devices.
LEMMA NotifierHolds ==
    ASSUME ViewInv, NEW r \in Requests, Runs(r, "notify"), NEW d \in req[r].todo
    PROVE  d \in Device /\ AtHead(deviceQ, d, r) /\ req[r].op = "group"
<1>1. LocksInv /\ TypeOK /\ GroupShape(r) /\ deviceQ \in Queues /\ ingestQ \in Queues
  BY ServiceTypes DEF ViewInv, GoneInv, OrderInv, LocksInv
<1>2. RequestInv(r) /\ KindInv(r) /\ req[r] \in Handlers /\ req[r].pc = "notify"
  BY <1>1 DEF LocksInv, QueuesInv, TypeOK, Runs
<1>3. req[r].op = "group"
  BY <1>2 DEF KindInv, GroupSteps
<1>4. d \in req[r].devs /\ d \in Device
  BY <1>1, <1>2, <1>3 DEF GroupShape, Handlers
<1>5. InQueue(ingestQ, d, r)
  BY <1>2, <1>4 DEF RequestInv, Outside
<1>6. AtHead(deviceQ, d, r)
  BY <1>2, <1>4, <1>5 DEF RequestInv, Runs
<1>7. QED
  BY <1>3, <1>4, <1>6

\* The notification of d is over: r makes no more claim on d.
LEMMA SettleFacts ==
    ASSUME ViewInv, NEW r \in Requests, req[r].pc = "notify", NEW d \in req[r].todo, Settle(r, d)
    PROVE  /\ \A x \in Requests \ {r} : req'[x] = req[x]
           /\ \/ req'[r] = Idle /\ req[r].todo = {d}
              \/ /\ req'[r].op = req[r].op /\ req'[r].pc = "notify" /\ req'[r].todo = req[r].todo \ {d}
                 /\ req'[r].half = req[r].half /\ req'[r].seen = req[r].seen /\ req'[r].rec = req[r].rec
<1>1. LocksInv /\ req \in [Requests -> Handlers] /\ req[r] \in Handlers
  BY ServiceTypes DEF ViewInv, GoneInv, OrderInv, LocksInv, TypeOK
<1>2. CASE req[r].todo = {d}
  BY <1>1, <1>2, ReleaseOrder DEF Settle
<1>3. CASE req[r].todo # {d}
  <2>1. req' = [req EXCEPT ![r].todo = @ \ {d}]
    BY <1>3 DEF Settle
  <2>2. req'[r] = [req[r] EXCEPT !.todo = @ \ {d}] /\ \A x \in Requests \ {r} : req'[x] = req[x]
    BY <1>1, <2>1
  <2>3. QED
    BY <1>1, <2>2 DEF Handlers
<1>4. QED
  BY <1>2, <1>3

\* A group update reads a device in two halves and shows the console both.
LEMMA NotifyView ==
    ASSUME ViewInv, NEW r \in Requests, NEW d \in Device, NEW part \in {"live", "record"},
           NotifyGroup(r, d, part)
    PROVE  \A e \in Device : ConsoleInv(e)'
<1>1. /\ GoneInv /\ LocksInv /\ TypeOK /\ req \in [Requests -> Handlers] /\ req[r] \in Handlers
      /\ GroupShape(r)
  BY ServiceTypes DEF ViewInv, GoneInv, OrderInv, LocksInv, TypeOK
<1>2. /\ Runs(r, "notify") /\ req[r].pc = "notify" /\ d \in req[r].todo
      /\ UNCHANGED <<registry, live, sweep>>
      /\ req[r].half[d] \in {"none", "live", "record"} /\ req[r].half[d] # part
  BY <1>1 DEF NotifyGroup, Runs, stores, Handlers
<1>3. AtHead(deviceQ, d, r) /\ req[r].op = "group"
  BY <1>2, NotifierHolds
<1>4. /\ view \in [Device -> Views] /\ missed \in [Device -> BOOLEAN]
  BY <1>1 DEF TypeOK
<1>5. \A e \in Device : AnnouncePending(e) => AnnouncePending(e)'
  BY <1>2 DEF AnnouncePending, StillOffline
<1>6. Idle.op = "none" /\ Idle.pc = "idle"
  BY DEF Idle
<1> DEFINE state  == IF part = "live" THEN live[d] ELSE req[r].seen[d]
           record == IF part = "record" THEN registry[d] ELSE req[r].rec[d]
<1>7. \/ /\ req[r].half[d] = "none" /\ UNCHANGED <<view, missed>>
         /\ req' = [req EXCEPT ![r].half[d] = part, ![r].seen[d] = state, ![r].rec[d] = record]
      \/ /\ req[r].half[d] # "none" /\ missed' = missed /\ Settle(r, d)
         /\ view' = IF record.status = "open" THEN [view EXCEPT ![d] = StateView(state, record.group)] ELSE view
      \/ missed' = [missed EXCEPT ![d] = TRUE] /\ Settle(r, d) /\ UNCHANGED view
  BY Zenon DEF NotifyGroup
<1>8. CASE /\ req[r].half[d] = "none" /\ UNCHANGED <<view, missed>>
           /\ req' = [req EXCEPT ![r].half[d] = part, ![r].seen[d] = state, ![r].rec[d] = record]
  <2>1. /\ \A x \in Requests \ {r} : req'[x] = req[x]
        /\ req'[r] = [req[r] EXCEPT !.half[d] = part, !.seen[d] = state, !.rec[d] = record]
    BY <1>1, <1>8
  <2>2. /\ req'[r].op = "group" /\ req'[r].pc = "notify" /\ req'[r].todo = req[r].todo
        /\ req'[r].half[d] = part /\ req'[r].seen[d] = state /\ req'[r].rec[d] = record
        /\ \A e \in Device \ {d} : /\ req'[r].half[e] = req[r].half[e] /\ req'[r].seen[e] = req[r].seen[e]
                                   /\ req'[r].rec[e] = req[r].rec[e]
    BY <1>1, <1>2, <1>3, <2>1 DEF Handlers
  <2> HIDE DEF state, record
  <2>3. ASSUME NEW e \in Device \ {d} PROVE ConsoleInv(e)'
    <3>1. RoleKept(e, r)
      BY <1>2, <1>3, <2>2 DEF RoleKept, GroupPending, EmitPending, GonePending, IngestOf, RemovalOf, Accepting, IngestSteps
    <3>2. \A x \in Requests \ {r} : RoleKept(e, x)
      BY <1>2, <2>1 DEF RoleKept, GroupPending, EmitPending, GonePending, IngestOf, RemovalOf
    <3>3. ConsoleInv(e)
      BY DEF ViewInv
    <3>4. QED
      BY <1>2, <1>5, <1>8, <3>1, <3>2, <3>3, ConsoleKept
  <2>4. ASSUME missed'[d] = FALSE
        PROVE  NotifyOk(d, r)' /\ EmitOk(d, r)' /\ SeenOk(d, r)' /\ Shown(d)' /\ Hidden(d)'
    <3>1. part = "record" => record = registry[d]
      BY DEF record
    <3>2. part = "live" => state = live[d]
      BY DEF state
    <3>3. GroupPending(d, r)'
      BY <1>2, <2>2, <3>1 DEF GroupPending
    <3>4. Shown(d)' /\ Hidden(d)'
      <4>1. ~EmitPending(d, r) /\ ~GonePending(d, r)
        BY <1>2 DEF EmitPending, GonePending, RemovalOf
      <4>2. Sole(d, r) /\ missed[d] = FALSE
        BY <1>3, <1>8, <2>1, <2>4 DEF Sole
      <4>3. QED
        BY <1>2, <1>5, <1>8, <3>3, <4>1, <4>2, ViewStays
    <3>5. NotifyOk(d, r)'
      BY <1>2, <2>2, <3>1, <3>2 DEF NotifyOk, ReadingKnown, GroupKnown
    <3>6. QED
      BY <2>2, <3>4, <3>5 DEF EmitOk, SeenOk, Accepting, IngestSteps
  <2>5. Sole(d, r)
    BY <1>3, <2>1 DEF Sole
  <2>6. QED
    BY <2>3, <2>4, <2>5, SoleStep
<1>9. ASSUME Settle(r, d), \A e \in Device \ {d} : view'[e] = view[e] /\ missed'[e] = missed[e],
             missed'[d] = FALSE => Shown(d)' /\ Hidden(d)'
      PROVE  \A e \in Device : ConsoleInv(e)'
  <2>1. /\ \A x \in Requests \ {r} : req'[x] = req[x]
        /\ \/ req'[r] = Idle /\ req[r].todo = {d}
           \/ /\ req'[r].op = req[r].op /\ req'[r].pc = "notify" /\ req'[r].todo = req[r].todo \ {d}
              /\ req'[r].half = req[r].half /\ req'[r].seen = req[r].seen /\ req'[r].rec = req[r].rec
    BY <1>2, <1>9, SettleFacts
  <2>2. ASSUME NEW e \in Device \ {d} PROVE ConsoleInv(e)'
    <3>1. RoleKept(e, r)
      <4>1. ~EmitPending(e, r) /\ ~GonePending(e, r)
        BY <1>2 DEF EmitPending, GonePending, RemovalOf
      <4>2. GroupPending(e, r) => GroupPending(e, r)'
        BY <1>2, <2>1 DEF GroupPending
      <4>3. QED
        BY <1>6, <2>1, <4>1, <4>2 DEF RoleKept, Accepting, IngestSteps
    <3>2. \A x \in Requests \ {r} : RoleKept(e, x)
      BY <1>2, <2>1 DEF RoleKept, GroupPending, EmitPending, GonePending, IngestOf, RemovalOf
    <3>3. ConsoleInv(e)
      BY DEF ViewInv
    <3>4. QED
      BY <1>2, <1>5, <1>9, <3>1, <3>2, <3>3, ConsoleKept
  <2>3. Sole(d, r)
    BY <1>3, <2>1 DEF Sole
  <2>4. NotifyOk(d, r)' /\ EmitOk(d, r)' /\ SeenOk(d, r)'
    BY <1>6, <2>1 DEF NotifyOk, EmitOk, SeenOk, Accepting, IngestSteps
  <2>5. QED
    BY <1>9, <2>2, <2>3, <2>4, SoleStep
<1>10. CASE missed' = [missed EXCEPT ![d] = TRUE] /\ Settle(r, d) /\ UNCHANGED view
  BY <1>4, <1>9, <1>10
<1>11. CASE /\ req[r].half[d] # "none" /\ missed' = missed /\ Settle(r, d)
            /\ view' = IF record.status = "open" THEN [view EXCEPT ![d] = StateView(state, record.group)] ELSE view
  <2>1. \A e \in Device \ {d} : view'[e] = view[e]
    BY <1>4, <1>11
  <2>2. SUFFICES ASSUME missed'[d] = FALSE PROVE Shown(d)' /\ Hidden(d)'
    BY <1>9, <1>11, <2>1
  <2>3. \A x \in Requests \ {r} : req'[x] = req[x]
    BY <1>2, <1>11, SettleFacts
  <2>4. Sole(d, r)
    BY <1>3, <2>3 DEF Sole
  <2>5. NotifyOk(d, r) /\ Shown(d) /\ Hidden(d)
    BY <1>11, <2>2 DEF ViewInv, ConsoleInv
  <2>6. ReadingKnown(d, state)
    <3>1. CASE part = "live"
      BY <3>1 DEF ReadingKnown
    <3>2. CASE part # "live"
      <4>1. req[r].half[d] = "live" /\ state = req[r].seen[d]
        BY <1>2, <1>11, <3>2
      <4>2. QED
        BY <1>2, <1>3, <2>5, <4>1 DEF NotifyOk
    <3>3. QED
      BY <3>1, <3>2
  <2>7. record.status = registry[d].status /\ GroupKnown(d, record.group)
    <3>1. CASE part = "record"
      BY <3>1 DEF GroupKnown
    <3>2. CASE part # "record"
      <4>1. req[r].half[d] = "record" /\ record = req[r].rec[d]
        BY <1>2, <1>11, <3>2
      <4>2. QED
        BY <1>2, <1>3, <2>5, <4>1 DEF NotifyOk
    <3>3. QED
      BY <3>1, <3>2
\* Either r read the group that the device has, or another update is pending.
  <2>8. record.group = registry[d].group \/ \E x \in Requests \ {r} : GroupPending(d, x)
    <3>1. CASE part = "record"
      BY <3>1
    <3>2. CASE part # "record"
      <4>1. req[r].half[d] = "record" /\ record = req[r].rec[d]
        BY <1>2, <1>11, <3>2
      <4>2. GroupPending(d, r) => record.group = registry[d].group
        BY <4>1 DEF GroupPending
      <4>3. QED
        BY <2>7, <4>2 DEF GroupKnown
    <3>3. QED
      BY <3>1, <3>2
  <2>9. record.group = registry'[d].group \/ \E x \in Requests : GroupPending(d, x)'
    BY <1>2, <2>4, <2>8, SoleFacts
  <2>10. \A x \in Requests : ~EmitPending(d, x) /\ ~GonePending(d, x)
    <3>1. ~EmitPending(d, r) /\ ~GonePending(d, r)
      BY <1>2 DEF EmitPending, GonePending, RemovalOf
    <3>2. QED
      BY <2>4, <3>1, SoleFacts
  <2> HIDE DEF state, record
  <2>11. Shown(d)'
    <3> SUFFICES ASSUME registry'[d].status = "open", live'[d].ts # 0
                 PROVE  view'[d].kind = "state" /\ ReadingKnown(d, view[d])' /\ GroupKnown(d, view[d].group)'
      BY DEF Shown
    <3>1. view'[d] = StateView(state, record.group)
      BY <1>2, <1>4, <1>11, <2>7
    <3>2. /\ view'[d].kind = "state" /\ view'[d].ts = state.ts /\ view'[d].group = record.group
          /\ state.ts # 0 => view'[d].status = state.status
      BY <3>1 DEF StateView
    <3>3. ReadingKnown(d, view[d])'
      BY <1>2, <1>5, <2>6, <3>2 DEF ReadingKnown
    <3>4. QED
      BY <2>9, <3>2, <3>3 DEF GroupKnown
  <2>12. Hidden(d)'
    <3> SUFFICES ASSUME live'[d].ts = 0
                 PROVE  ~(view'[d].kind = "state" /\ view'[d].ts # 0)
      BY DEF Hidden
    <3>1. CASE record.status = "open"
      <4>1. view'[d].ts = state.ts
        BY <1>4, <1>11, <3>1 DEF StateView
      <4>2. QED
        BY <1>2, <2>6, <4>1 DEF ReadingKnown
    <3>2. CASE record.status # "open"
      BY <1>2, <1>11, <2>5, <2>10, <3>2 DEF Hidden
    <3>3. QED
      BY <3>1, <3>2
  <2>13. QED
    BY <2>11, <2>12
<1>12. QED
  BY <1>7, <1>8, <1>10, <1>11

\* A handler on its way through the queues changes no console; one that is
\* refused there has its group update missed by all its devices.
LEMMA WaitingView ==
    ASSUME ViewInv, NEW r \in Requests,
           req[r].pc \in {"idle", "queued", "locked"},
           \A x \in Requests \ {r} : req'[x] = req[x],
           UNCHANGED <<registry, live, view, sweep>>,
           \A d \in Device : missed[d] = TRUE => missed'[d] = TRUE,
           \/ /\ req'[r] = Idle
              /\ req[r].op = "group" => \A d \in req[r].devs : missed'[d] = TRUE
           \/ /\ req'[r].op = req[r].op /\ req'[r].todo = req[r].todo /\ req'[r].half = req[r].half
              /\ req'[r].pc \in {"queued", "locked", "register", "delete", "notify"}
           \/ /\ req[r].pc = "idle" /\ req'[r].pc \in {"idle", "queued", "update"}
              /\ \A d \in Device : req'[r].half[d] = "none"
    PROVE  \A e \in Device : ConsoleInv(e)'
<1> SUFFICES ASSUME NEW e \in Device PROVE ConsoleInv(e)'
  OBVIOUS
<1>1. ConsoleInv(e) /\ GroupShape(r) /\ LocksInv
  BY DEF ViewInv, GoneInv, OrderInv
<1>2. KindInv(r) /\ missed[e] \in BOOLEAN
  BY <1>1 DEF LocksInv, QueuesInv, TypeOK
<1>3. AnnouncePending(e) => AnnouncePending(e)'
  BY DEF AnnouncePending, StillOffline
<1>4. Idle.op = "none" /\ Idle.pc = "idle"
  BY DEF Idle
<1>5. \A x \in Requests \ {r} : RoleKept(e, x)
  BY DEF RoleKept, GroupPending, EmitPending, GonePending, IngestOf, RemovalOf
<1>6. ~EmitPending(e, r) /\ ~GonePending(e, r)
  BY DEF EmitPending, GonePending, RemovalOf
<1>7. ASSUME missed'[e] = FALSE PROVE RoleKept(e, r)
  <2>1. CASE req'[r] = Idle /\ (req[r].op = "group" => \A d \in req[r].devs : missed'[d] = TRUE)
    <3>1. ~GroupPending(e, r)
      BY <1>1, <1>7, <2>1 DEF GroupPending, GroupShape
    <3>2. QED
      BY <1>4, <1>6, <2>1, <3>1 DEF RoleKept, Accepting, IngestSteps
  <2>2. CASE /\ req'[r].op = req[r].op /\ req'[r].todo = req[r].todo /\ req'[r].half = req[r].half
             /\ req'[r].pc \in {"queued", "locked", "register", "delete", "notify"}
    <3>1. req[r].op = "group" => req[r].half[e] = "none"
      BY <1>1 DEF GroupShape
    <3>2. GroupPending(e, r) => GroupPending(e, r)'
      BY <2>2, <3>1 DEF GroupPending
    <3>3. QED
      BY <1>6, <2>2, <3>1, <3>2 DEF RoleKept, Accepting, IngestSteps
  <2>3. CASE /\ req[r].pc = "idle" /\ req'[r].pc \in {"idle", "queued", "update"}
             /\ \A d \in Device : req'[r].half[d] = "none"
    <3>1. ~GroupPending(e, r)
      BY <1>2, <2>3 DEF GroupPending, KindInv
    <3>2. QED
      BY <1>6, <2>3, <3>1 DEF RoleKept, Accepting, IngestSteps
  <2>4. QED
    BY <2>1, <2>2, <2>3
<1>8. missed'[e] = FALSE => missed[e] = FALSE
  BY <1>2
<1>9. CASE missed'[e] = FALSE
  <2>1. RoleKept(e, r)
    BY <1>7, <1>9
  <2>2. \A x \in Requests : RoleKept(e, x)
    BY <1>5, <2>1
  <2>3. registry'[e] = registry[e] /\ live'[e] = live[e] /\ view'[e] = view[e]
    OBVIOUS
  <2>4. QED
    BY <1>1, <1>3, <1>8, <2>2, <2>3, ConsoleKept
<1>10. QED
  BY <1>9 DEF ConsoleInv

LEMMA QueueView ==
    ASSUME ViewInv, NEW r \in Requests, EnterDeviceQueue(r) \/ AcquireNext(r)
    PROVE  \A e \in Device : ConsoleInv(e)'
<1>1. /\ LocksInv /\ req \in [Requests -> Handlers] /\ req[r] \in Handlers /\ req[r].devs \subseteq Device
      /\ missed \in [Device -> BOOLEAN]
  BY ServiceTypes DEF ViewInv, GoneInv, OrderInv, LocksInv, TypeOK
<1>2. CASE EnterDeviceQueue(r)
  <2>1. /\ req[r].pc = "queued" /\ UNCHANGED <<registry, live, view, sweep>>
        /\ \/ /\ Release(r)
              /\ missed' = [x \in Device |-> missed[x] \/ (req[r].op = "group" /\ x \in req[r].devs)]
           \/ /\ GoTo(r, IF Unlocked(r) = {} THEN FirstStep(req[r].op) ELSE "locked")
              /\ missed' = missed
    BY <1>2 DEF EnterDeviceQueue, stores
  <2>2. FirstStep(req[r].op) \in {"register", "delete", "notify"}
    BY DEF FirstStep
  <2>3. CASE /\ Release(r)
             /\ missed' = [x \in Device |-> missed[x] \/ (req[r].op = "group" /\ x \in req[r].devs)]
    <3>1. req'[r] = Idle /\ \A x \in Requests \ {r} : req'[x] = req[x]
      BY <1>1, <2>3, ReleaseOrder
    <3>2. \A d \in Device : missed[d] = TRUE => missed'[d] = TRUE
      BY <1>1, <2>3
    <3>3. req[r].op = "group" => \A d \in req[r].devs : missed'[d] = TRUE
      BY <1>1, <2>3
    <3>4. QED
      BY <2>1, <3>1, <3>2, <3>3, WaitingView
  <2>4. CASE /\ GoTo(r, IF Unlocked(r) = {} THEN FirstStep(req[r].op) ELSE "locked")
             /\ missed' = missed
    <3>1. PICK pc \in {"register", "delete", "notify", "locked"} : GoTo(r, pc)
      BY <2>2, <2>4
    <3>2. req'[r] = [req[r] EXCEPT !.pc = pc] /\ \A x \in Requests \ {r} : req'[x] = req[x]
      BY <1>1, <3>1 DEF GoTo
    <3>3. /\ req'[r].op = req[r].op /\ req'[r].todo = req[r].todo /\ req'[r].half = req[r].half
          /\ req'[r].pc = pc
      BY <1>1, <3>2 DEF Handlers
    <3>4. QED
      BY <2>1, <2>4, <3>2, <3>3, WaitingView
  <2>5. QED
    BY <2>1, <2>3, <2>4
<1>3. CASE AcquireNext(r)
  <2>1. /\ req[r].pc = "locked" /\ UNCHANGED <<registry, live, view, sweep>>
        /\ \/ Release(r) /\ missed' = [x \in Device |-> missed[x] \/ x \in req[r].devs]
           \/ \E next \in Device : req' = [req EXCEPT ![r].pc = "queued", ![r].dev = next] /\ missed' = missed
    BY <1>3 DEF AcquireNext, Runs, stores
  <2>2. CASE Release(r) /\ missed' = [x \in Device |-> missed[x] \/ x \in req[r].devs]
    <3>1. req'[r] = Idle /\ \A x \in Requests \ {r} : req'[x] = req[x]
      BY <1>1, <2>2, ReleaseOrder
    <3>2. \A d \in Device : missed[d] = TRUE => missed'[d] = TRUE
      BY <1>1, <2>2
    <3>3. \A d \in req[r].devs : missed'[d] = TRUE
      BY <1>1, <2>2
    <3>4. QED
      BY <2>1, <3>1, <3>2, <3>3, WaitingView
  <2>3. ASSUME NEW next \in Device, req' = [req EXCEPT ![r].pc = "queued", ![r].dev = next], missed' = missed
        PROVE  \A e \in Device : ConsoleInv(e)'
    <3>1. req'[r] = [req[r] EXCEPT !.pc = "queued", !.dev = next] /\ \A x \in Requests \ {r} : req'[x] = req[x]
      BY <1>1, <2>3
    <3>2. /\ req'[r].op = req[r].op /\ req'[r].todo = req[r].todo /\ req'[r].half = req[r].half
          /\ req'[r].pc = "queued"
      BY <1>1, <3>1 DEF Handlers
    <3>3. QED
      BY <2>1, <2>3, <3>1, <3>2, WaitingView
  <2>4. QED
    BY <2>1, <2>2, <2>3
<1>4. QED
  BY <1>2, <1>3

LEMMA SubmitView ==
    ASSUME ViewInv, NEW r \in Requests, Submit(r)
    PROVE  /\ \A e \in Device : ConsoleInv(e)'
           /\ \A x \in Requests : GroupShape(x)'
<1>1. LocksInv /\ req \in [Requests -> Handlers] /\ req[r] \in Handlers /\ \A x \in Requests : GroupShape(x)
  BY ServiceTypes DEF ViewInv, GoneInv, OrderInv, LocksInv, TypeOK
<1>2. req[r].pc = "idle" /\ UNCHANGED <<registry, live, view, missed, sweep>>
  BY DEF Submit, SubmitIngest, SubmitRemove, SubmitGroup, Receives, stores, history
<1>3. KindInv(r) /\ req[r].op = "none"
  BY <1>1, <1>2 DEF LocksInv, QueuesInv, KindInv
<1>4. Idle \in [op : {"none"}, pc : {"idle"}, dev : Device, devs : SUBSET Device, ts : {0}, recv : {0},
                group : {NoGroup}, rec : [Device -> Records], seen : [Device -> LiveStates], todo : SUBSET Device,
                half : [Device -> {"none"}]]
  <2>1. Idle \in Handlers
    BY IdleType
  <2>2. Idle.op = "none" /\ Idle.pc = "idle" /\ Idle.half = [d \in Device |-> "none"]
    BY DEF Idle
  <2>3. QED
    BY <2>1, <2>2 DEF Idle, Handlers
<1> DEFINE Fresh(h) == /\ h.pc \in {"queued", "update"} /\ \A d \in Device : h.half[d] = "none"
                       /\ h.op = "group" => h.todo = h.devs
<1>5. \/ UNCHANGED req
      \/ \E h : Fresh(h) /\ req' = [req EXCEPT ![r] = h]
  <2>1. ASSUME NEW d \in Device, NEW ts \in Timestamp, SubmitIngest(r, d, ts)
        PROVE  UNCHANGED req \/ \E h : Fresh(h) /\ req' = [req EXCEPT ![r] = h]
    <3> DEFINE h == [Idle EXCEPT !.op = "ingest", !.pc = "queued", !.dev = d, !.devs = {d}, !.ts = ts, !.recv = now']
    <3>1. Fresh(h)
      BY <1>4
    <3>2. UNCHANGED req \/ req' = [req EXCEPT ![r] = h]
      BY <2>1 DEF SubmitIngest
    <3> HIDE DEF h, Fresh
    <3>3. QED
      BY <3>1, <3>2
  <2>2. ASSUME NEW d \in Device, SubmitRemove(r, d)
        PROVE  UNCHANGED req \/ \E h : Fresh(h) /\ req' = [req EXCEPT ![r] = h]
    <3> DEFINE h == [Idle EXCEPT !.op = "remove", !.pc = "queued", !.dev = d, !.devs = {d}]
    <3>1. Fresh(h)
      BY <1>4
    <3>2. UNCHANGED req \/ req' = [req EXCEPT ![r] = h]
      BY <2>2 DEF SubmitRemove
    <3> HIDE DEF h, Fresh
    <3>3. QED
      BY <3>1, <3>2
  <2>3. ASSUME NEW D \in SUBSET Device, NEW g \in Groups \cup {NoGroup}, SubmitGroup(r, D, g)
        PROVE  UNCHANGED req \/ \E h : Fresh(h) /\ req' = [req EXCEPT ![r] = h]
    <3> DEFINE h == [Idle EXCEPT !.op = "group", !.pc = "update", !.devs = D, !.todo = D, !.group = g]
    <3>1. Fresh(h)
      BY <1>4
    <3>2. UNCHANGED req \/ req' = [req EXCEPT ![r] = h]
      BY <2>3 DEF SubmitGroup
    <3> HIDE DEF h, Fresh
    <3>3. QED
      BY <3>1, <3>2
  <2> HIDE DEF Fresh
  <2>4. QED
    BY <2>1, <2>2, <2>3 DEF Submit
<1>6. (UNCHANGED req \/ Fresh(req'[r])) /\ \A x \in Requests \ {r} : req'[x] = req[x]
  <2> HIDE DEF Fresh
  <2>1. QED
    BY <1>1, <1>5
<1>7. CASE UNCHANGED req
  <2>1. ASSUME NEW e \in Device PROVE ConsoleInv(e)'
    <3>1. AnnouncePending(e) => AnnouncePending(e)'
      BY <1>2 DEF AnnouncePending, StillOffline
    <3>2. \A x \in Requests : RoleKept(e, x)
      BY <1>2, <1>7 DEF RoleKept, GroupPending, EmitPending, GonePending, IngestOf, RemovalOf
    <3>3. ConsoleInv(e)
      BY DEF ViewInv
    <3>4. QED
      BY <1>2, <3>1, <3>2, <3>3, ConsoleKept
  <2>2. QED
    BY <1>1, <1>7, <2>1 DEF GroupShape
<1>8. CASE Fresh(req'[r])
  <2>1. \A e \in Device : ConsoleInv(e)'
    BY <1>2, <1>6, <1>8, WaitingView
  <2>2. \A x \in Requests : GroupShape(x)'
    BY <1>1, <1>6, <1>8 DEF GroupShape
  <2>3. QED
    BY <2>1, <2>2
<1>9. QED
  BY <1>6, <1>7, <1>8

\* The registry has the new group first; from then on the update itself is
\* what will correct every console, unless it is refused.
LEMMA UpdateGroupView ==
    ASSUME ViewInv, NEW r \in Requests, UpdateGroup(r)
    PROVE  \A e \in Device : ConsoleInv(e)'
<1> SUFFICES ASSUME NEW e \in Device PROVE ConsoleInv(e)'
  OBVIOUS
<1>1. /\ LocksInv /\ req \in [Requests -> Handlers] /\ req[r] \in Handlers /\ req[r].devs \subseteq Device
      /\ missed \in [Device -> BOOLEAN] /\ registry \in [Device -> Records]
      /\ \A x \in Requests : GroupShape(x)
  BY ServiceTypes DEF ViewInv, GoneInv, OrderInv, LocksInv, TypeOK
<1>2. /\ req[r].pc = "update" /\ UNCHANGED <<live, view, sweep>>
  BY DEF UpdateGroup
<1>3. req[r].op = "group" /\ req[r].todo = req[r].devs /\ \A d \in Device : req[r].half[d] = "none"
  <2>1. req[r].op = "group"
    BY <1>1, <1>2 DEF LocksInv, QueuesInv, KindInv, GroupSteps
  <2>2. QED
    BY <1>1, <1>2, <2>1 DEF GroupShape
<1>4. ConsoleInv(e) /\ (AnnouncePending(e) => AnnouncePending(e)')
  BY <1>2 DEF AnnouncePending, StillOffline, ViewInv
<1>5. /\ \/ registry' = registry
         \/ /\ registry' = Regrouped(req[r].devs, req[r].group)
            /\ \/ missed' = [d \in Device |-> missed[d] \/ d \in req[r].devs]
               \/ \E first \in Device : req' = [req EXCEPT ![r].pc = "queued", ![r].dev = first]
      /\ missed' = missed \/ missed' = [d \in Device |-> missed[d] \/ d \in req[r].devs]
      /\ \/ req' = [req EXCEPT ![r] = Idle]
         \/ \E first \in Device : req' = [req EXCEPT ![r].pc = "queued", ![r].dev = first]
  BY DEF UpdateGroup
<1>6. Idle.op = "none" /\ Idle.pc = "idle"
  BY DEF Idle
<1>7. ASSUME NEW first \in Device, req' = [req EXCEPT ![r].pc = "queued", ![r].dev = first]
      PROVE  /\ \A x \in Requests \ {r} : req'[x] = req[x]
             /\ req'[r].op = "group" /\ req'[r].todo = req[r].todo /\ req'[r].half = req[r].half
             /\ req'[r].pc = "queued"
  <2>1. /\ req'[r] = [req[r] EXCEPT !.pc = "queued", !.dev = first]
        /\ \A x \in Requests \ {r} : req'[x] = req[x]
    BY <1>1, <1>7
  <2>2. QED
    BY <1>1, <1>3, <2>1 DEF Handlers
<1>8. /\ \A x \in Requests \ {r} : req'[x] = req[x]
      /\ \/ req'[r] = Idle
         \/ /\ req'[r].op = "group" /\ req'[r].todo = req[r].todo /\ req'[r].half = req[r].half
            /\ req'[r].pc = "queued"
  BY <1>1, <1>5, <1>7
<1>9. missed'[e] = FALSE => missed[e] = FALSE
  BY <1>1, <1>5
<1>10. ~GroupPending(e, r) /\ ~EmitPending(e, r) /\ ~GonePending(e, r)
  BY <1>2 DEF GroupPending, EmitPending, GonePending, RemovalOf
\* The update itself makes no claim yet.
<1>11. NotifyOk(e, r)' /\ EmitOk(e, r)' /\ SeenOk(e, r)'
  BY <1>3, <1>6, <1>8 DEF NotifyOk, EmitOk, SeenOk, Accepting, IngestSteps
<1>12. CASE registry'[e] = registry[e]
  <2>1. RoleKept(e, r)
    BY <1>3, <1>6, <1>8, <1>10 DEF RoleKept, Accepting, IngestSteps
  <2>2. \A x \in Requests \ {r} : RoleKept(e, x)
    BY <1>8, <1>12 DEF RoleKept, GroupPending, EmitPending, GonePending, IngestOf, RemovalOf
  <2>3. QED
    BY <1>2, <1>4, <1>9, <1>12, <2>1, <2>2, ConsoleKept
<1>13. CASE registry'[e] # registry[e]
  <2>1. registry' = Regrouped(req[r].devs, req[r].group) /\ e \in req[r].devs
    BY <1>1, <1>5, <1>13 DEF Regrouped
  <2>2. registry'[e].status = registry[e].status
    BY <1>1, <2>1 DEF Regrouped, Records
  <2> SUFFICES ASSUME missed'[e] = FALSE
               PROVE  /\ \A x \in Requests : NotifyOk(e, x)' /\ EmitOk(e, x)' /\ SeenOk(e, x)'
                      /\ Shown(e)' /\ Hidden(e)'
    BY DEF ConsoleInv
  <2>3. \E first \in Device : req' = [req EXCEPT ![r].pc = "queued", ![r].dev = first]
    <3>1. missed' # [d \in Device |-> missed[d] \/ d \in req[r].devs]
      BY <2>1
    <3>2. registry' # registry
      BY <1>13
    <3>3. QED
      BY <1>5, <3>1, <3>2
  <2>4. GroupPending(e, r)'
    BY <1>3, <1>7, <2>1, <2>3 DEF GroupPending
  <2>5. \A g : g = registry'[e].group \/ \E x \in Requests : GroupPending(e, x)'
    BY <2>4
  <2>6. ASSUME NEW x \in Requests \ {r} PROVE NotifyOk(e, x)' /\ EmitOk(e, x)' /\ SeenOk(e, x)'
    <3>1. NotifyOk(e, x) /\ EmitOk(e, x) /\ SeenOk(e, x) /\ req'[x] = req[x]
      BY <1>4, <1>8, <1>9 DEF ConsoleInv
    <3>2. NotifyOk(e, x)'
      BY <1>2, <1>4, <2>2, <2>5, <3>1 DEF NotifyOk, ReadingKnown, GroupKnown
    <3>3. EmitOk(e, x)'
      BY <1>2, <1>4, <2>5, <3>1 DEF EmitOk, ReadingKnown, GroupKnown
    <3>4. SeenOk(e, x)'
      BY <1>2, <3>1 DEF SeenOk
    <3>5. QED
      BY <3>2, <3>3, <3>4
  <2>7. Shown(e) /\ Hidden(e)
    BY <1>4, <1>9 DEF ConsoleInv
  <2>8. \A x \in Requests : (EmitPending(e, x) => EmitPending(e, x)') /\ (GonePending(e, x) => GonePending(e, x)')
    BY <1>8, <1>10 DEF EmitPending, GonePending, IngestOf, RemovalOf
  <2>9. Shown(e)'
    BY <1>2, <1>4, <2>2, <2>5, <2>7, <2>8 DEF Shown, ReadingKnown, GroupKnown
  <2>10. Hidden(e)'
    BY <1>2, <2>7, <2>8 DEF Hidden
  <2>11. QED
    BY <1>11, <2>6, <2>9, <2>10
<1>14. QED
  BY <1>12, <1>13

\* The timers, the flush and the process change nothing a console shows.
LEMMA SilentView ==
    ASSUME ViewInv, NEW e \in Device, UNCHANGED req, registry'[e] = registry[e], live'[e] = live[e],
           view'[e] = view[e], missed'[e] = missed[e], AnnouncePending(e) => AnnouncePending(e)'
    PROVE  ConsoleInv(e)'
<1>1. \A x \in Requests : RoleKept(e, x)
  BY DEF RoleKept, GroupPending, EmitPending, GonePending, IngestOf, RemovalOf
<1>2. ConsoleInv(e)
  BY DEF ViewInv
<1>3. QED
  BY <1>1, <1>2, ConsoleKept

LEMMA MarkView ==
    ASSUME ViewInv, NEW d \in Device, MarkOffline(d)
    PROVE  ConsoleInv(d)'
<1>1. /\ OrderInv /\ LocksInv /\ live \in [Device -> LiveStates] /\ missed \in [Device -> BOOLEAN]
      /\ sweep \in SweepStates
  BY TimerTypes DEF ViewInv, GoneInv, OrderInv, LocksInv, TypeOK
<1>2. sweep.pc[d] = "mark" /\ UNCHANGED <<req, registry, view>>
  BY DEF MarkOffline
<1>3. ~AnnouncePending(d)
  BY <1>2 DEF AnnouncePending
<1>4. \/ UNCHANGED <<live, missed>>
      \/ missed' = [missed EXCEPT ![d] = TRUE]
      \/ /\ MarkMatches(d) /\ live' = MarkedOffline(d) /\ sweep' = [sweep EXCEPT !.pc[d] = "queued"]
         /\ missed' = missed
  BY DEF MarkOffline
<1>5. CASE UNCHANGED <<live, missed>>
  BY <1>2, <1>3, <1>5, SilentView
<1>6. CASE missed' = [missed EXCEPT ![d] = TRUE]
  BY <1>1, <1>6 DEF ConsoleInv
<1>7. CASE /\ MarkMatches(d) /\ live' = MarkedOffline(d) /\ sweep' = [sweep EXCEPT !.pc[d] = "queued"]
           /\ missed' = missed
  <2> SUFFICES ASSUME missed[d] = FALSE
               PROVE  /\ \A x \in Requests : NotifyOk(d, x)' /\ EmitOk(d, x)' /\ SeenOk(d, x)'
                      /\ Shown(d)' /\ Hidden(d)'
    BY <1>7 DEF ConsoleInv
  <2>1. /\ \A x \in Requests : NotifyOk(d, x) /\ EmitOk(d, x) /\ SeenOk(d, x)
        /\ Shown(d) /\ Hidden(d)
    BY DEF ViewInv, ConsoleInv
  <2>2. sweep.seen[d].ts = live[d].ts
    BY <1>1, <1>2, <1>7 DEF OrderInv, MarkInv, MarkMatches
  <2>3. live'[d] = [sweep.seen[d] EXCEPT !.status = "offline"] /\ sweep.seen[d] \in LiveStates
    BY <1>1, <1>7 DEF MarkedOffline, SweepStates
  <2>4. /\ live'[d].ts = live[d].ts /\ live'[d].status = "offline" /\ live'[d].lastSeen = sweep.seen[d].lastSeen
    BY <2>2, <2>3 DEF LiveStates
  <2>5. sweep'.pc[d] = "queued" /\ sweep'.seen[d] = sweep.seen[d]
    BY <1>1, <1>7 DEF SweepStates
  <2>6. AnnouncePending(d)'
    BY <2>4, <2>5 DEF AnnouncePending, StillOffline
  <2>7. ASSUME NEW x \in Requests
        PROVE  /\ GroupPending(d, x)' <=> GroupPending(d, x)
               /\ EmitPending(d, x)' <=> EmitPending(d, x)
               /\ GonePending(d, x)' <=> GonePending(d, x)
    BY <1>2 DEF GroupPending, EmitPending, GonePending, IngestOf, RemovalOf
  <2>8. ASSUME NEW x \in Requests PROVE NotifyOk(d, x)' /\ EmitOk(d, x)' /\ SeenOk(d, x)'
    <3>1. NotifyOk(d, x)'
      BY <1>2, <2>1, <2>4, <2>6, <2>7 DEF NotifyOk, ReadingKnown, GroupKnown
    <3>2. EmitOk(d, x)'
      BY <1>2, <2>1, <2>4, <2>6, <2>7 DEF EmitOk, ReadingKnown, GroupKnown
    <3>3. SeenOk(d, x)'
      BY <1>2, <2>1, <2>4 DEF SeenOk
    <3>4. QED
      BY <3>1, <3>2, <3>3
  <2>9. Shown(d)'
    BY <1>2, <2>1, <2>4, <2>6, <2>7 DEF Shown, ReadingKnown, GroupKnown
  <2>10. Hidden(d)'
    BY <1>2, <2>1, <2>4, <2>7 DEF Hidden
  <2>11. QED
    BY <2>8, <2>9, <2>10
<1>8. QED
  BY <1>4, <1>5, <1>6, <1>7

LEMMA AnnounceView ==
    ASSUME ViewInv, NEW d \in Device, NotifyOffline(d)
    PROVE  ConsoleInv(d)'
<1>1. /\ GoneInv /\ LocksInv /\ view \in [Device -> Views] /\ missed \in [Device -> BOOLEAN] /\ sweep \in SweepStates
  BY TimerTypes DEF ViewInv, GoneInv, OrderInv, LocksInv, TypeOK
<1>2. /\ sweep.pc[d] = "notify" /\ UNCHANGED <<req, registry, live>>
      /\ AtHead(ingestQ, d, "sweep")
      /\ \/ view' = Announced(d) /\ missed' = missed
         \/ missed' = [missed EXCEPT ![d] = TRUE]
  BY DEF NotifyOffline, stores
<1>3. SUFFICES ASSUME missed'[d] = FALSE
               PROVE  /\ \A x \in Requests : NotifyOk(d, x)' /\ EmitOk(d, x)' /\ SeenOk(d, x)'
                      /\ Shown(d)' /\ Hidden(d)'
  BY DEF ConsoleInv
<1>4. view' = Announced(d) /\ missed[d] = FALSE
  BY <1>1, <1>2, <1>3
<1>5. ASSUME NEW x \in Requests
      PROVE  /\ req[x].dev = d => req[x].pc \in {"idle", "update", "queued"}
             /\ req[x].op = "group" /\ d \in req[x].todo => req[x].half[d] = "none"
             /\ ~EmitPending(d, x) /\ ~GonePending(d, x)
  <2>1. x # "sweep"
    BY MetricsAssumption
  <2>2. QED
    BY <1>2, <2>1, NoneAtWork
<1>6. ASSUME NEW x \in Requests PROVE NotifyOk(d, x)' /\ EmitOk(d, x)' /\ SeenOk(d, x)'
  BY <1>2, <1>5 DEF NotifyOk, EmitOk, SeenOk, Accepting, IngestSteps
<1>7. Shown(d) /\ Hidden(d)
  BY <1>4 DEF ViewInv, ConsoleInv
<1>8. \A x \in Requests : GroupPending(d, x) => GroupPending(d, x)'
  BY <1>2 DEF GroupPending
<1>9. Shown(d)'
  <2> SUFFICES ASSUME registry'[d].status = "open", live'[d].ts # 0
               PROVE  view'[d].kind = "state" /\ ReadingKnown(d, view[d])' /\ GroupKnown(d, view[d].group)'
    BY DEF Shown
  <2>1. CASE StillOffline(d)
    <3>1. view'[d] = StateView(live[d], registry[d].group)
      BY <1>1, <1>2, <1>4, <2>1 DEF Announced, OpenGroup
    <3>2. QED
      BY <1>2, <3>1 DEF StateView, ReadingKnown, GroupKnown
  <2>2. CASE ~StillOffline(d)
    <3>1. view' = view /\ ~AnnouncePending(d)
      BY <1>4, <2>2 DEF Announced, AnnouncePending
    <3>2. view[d].kind = "state" /\ ReadingKnown(d, view[d]) /\ GroupKnown(d, view[d].group)
      BY <1>2, <1>5, <1>7 DEF Shown
    <3>3. QED
      BY <1>2, <1>8, <3>1, <3>2 DEF ReadingKnown, GroupKnown
  <2>3. QED
    BY <2>1, <2>2
<1>10. Hidden(d)'
  <2>1. live[d].ts = 0 => ~StillOffline(d)
    BY <1>1, NoLiveFacts DEF GoneInv, OrderInv, LiveInv, StillOffline
  <2>2. live[d].ts = 0 => view' = view
    BY <1>4, <2>1 DEF Announced
  <2>3. QED
    BY <1>2, <1>5, <1>7, <2>2 DEF Hidden
<1>11. QED
  BY <1>6, <1>9, <1>10

\* A sweep either announces what it marked, or the device is missed.
LEMMA SweepView ==
    ASSUME ViewInv, NEW d \in Device, SweepStep(d)
    PROVE  \A e \in Device : ConsoleInv(e)'
<1>1. /\ live \in [Device -> LiveStates] /\ missed \in [Device -> BOOLEAN] /\ view \in [Device -> Views]
      /\ sweep \in SweepStates
  BY TimerTypes DEF ViewInv, GoneInv, OrderInv, LocksInv, TypeOK
<1>2. /\ UNCHANGED <<req, registry>>
      /\ live' = live \/ live' = MarkedOffline(d)
      /\ view' = view \/ view' = Announced(d)
      /\ missed' = missed \/ missed' = [missed EXCEPT ![d] = TRUE]
      /\ \/ \E p : sweep' = [sweep EXCEPT !.pc[d] = p]
         \/ \E p : sweep' = [sweep EXCEPT !.pc[d] = p, !.failed = TRUE]
  <2>1. CASE MarkOffline(d)
    BY <2>1, Zenon DEF MarkOffline
  <2>2. CASE EnterSweep(d)
    BY <2>2, Zenon DEF EnterSweep, stores
  <2>3. CASE NotifyOffline(d)
    BY <2>3, Zenon DEF NotifyOffline, stores
  <2>4. QED
    BY <2>1, <2>2, <2>3 DEF SweepStep
<1>3. ASSUME NEW e \in Device \ {d} PROVE ConsoleInv(e)'
  <2>1. sweep'.pc[e] = sweep.pc[e] /\ sweep'.seen = sweep.seen
    <3>1. ASSUME NEW p, sweep' = [sweep EXCEPT !.pc[d] = p]
          PROVE  sweep'.pc[e] = sweep.pc[e] /\ sweep'.seen = sweep.seen
      BY <1>1, <3>1 DEF SweepStates
    <3>2. ASSUME NEW p, sweep' = [sweep EXCEPT !.pc[d] = p, !.failed = TRUE]
          PROVE  sweep'.pc[e] = sweep.pc[e] /\ sweep'.seen = sweep.seen
      BY <1>1, <3>2 DEF SweepStates
    <3>3. QED
      BY <1>2, <3>1, <3>2, Zenon
  <2>2. live'[e] = live[e] /\ view'[e] = view[e] /\ missed'[e] = missed[e]
    BY <1>1, <1>2 DEF MarkedOffline, Announced
  <2>3. AnnouncePending(e) => AnnouncePending(e)'
    BY <2>1, <2>2 DEF AnnouncePending, StillOffline
  <2>4. QED
    BY <1>2, <2>2, <2>3, SilentView
<1>4. ConsoleInv(d)'
  <2>1. CASE EnterSweep(d)
    <3>1. /\ sweep.pc[d] = "queued" /\ UNCHANGED <<live, view>>
          /\ \/ sweep' = [sweep EXCEPT !.pc[d] = "notify"] /\ missed' = missed
             \/ missed' = [missed EXCEPT ![d] = TRUE]
      BY <2>1 DEF EnterSweep, stores
    <3>2. CASE sweep' = [sweep EXCEPT !.pc[d] = "notify"] /\ missed' = missed
      <4>1. sweep'.pc[d] = "notify" /\ sweep'.seen = sweep.seen
        BY <1>1, <3>2 DEF SweepStates
      <4>2. AnnouncePending(d) => AnnouncePending(d)'
        BY <3>1, <4>1 DEF AnnouncePending, StillOffline
      <4>3. QED
        BY <1>2, <3>1, <3>2, <4>2, SilentView
    <3>3. CASE missed' = [missed EXCEPT ![d] = TRUE]
      BY <1>1, <3>3 DEF ConsoleInv
    <3>4. QED
      BY <3>1, <3>2, <3>3
  <2>2. QED
    BY <2>1, MarkView, AnnounceView DEF SweepStep
<1>5. QED
  BY <1>3, <1>4

\* A console that reconnects reads the stores.
LEMMA RestartView ==
    ASSUME ViewInv, Restart
    PROVE  /\ \A e \in Device : ConsoleInv(e)'
           /\ \A r \in Requests : GroupShape(r)'
<1>1. /\ UNCHANGED <<registry, live>> /\ view' = [d \in Device |-> Reloaded(d)]
      /\ req' = [r \in Requests |-> Idle]
  BY DEF Restart, stores
<1>2. \A r \in Requests : req'[r] = Idle
  BY <1>1
<1>3. Idle.op = "none"
  BY DEF Idle
<1>4. ASSUME NEW e \in Device PROVE ConsoleInv(e)'
  <2>1. \A r \in Requests : NotifyOk(e, r)' /\ EmitOk(e, r)' /\ SeenOk(e, r)'
    BY <1>2, IdleRole
  <2>2. view'[e] = IF registry[e].status = "open" THEN StateView(live[e], registry[e].group) ELSE NoView
    BY <1>1 DEF Reloaded
  <2>3. Shown(e)'
    BY <1>1, <2>2 DEF Shown, StateView, ReadingKnown, GroupKnown
  <2>4. Hidden(e)'
    BY <1>1, <2>2 DEF Hidden, StateView, NoView
  <2>5. QED
    BY <2>1, <2>3, <2>4 DEF ConsoleInv
<1>5. QED
  BY <1>2, <1>3, <1>4 DEF GroupShape

\* The steps of a handler keep the shape of a group update.
LEMMA ShapeStep ==
    ASSUME ViewInv, NEW r \in Requests, Handle(r)
    PROVE  \A x \in Requests : GroupShape(x)'
<1>1. /\ LocksInv /\ TypeOK /\ req \in [Requests -> Handlers] /\ req[r] \in Handlers
      /\ \A x \in Requests : GroupShape(x)
  BY ServiceTypes DEF ViewInv, GoneInv, OrderInv, LocksInv, TypeOK
<1>2. Idle.op = "none" /\ KindInv(r)
  BY <1>1 DEF Idle, LocksInv, QueuesInv
<1>3. SUFFICES /\ \A x \in Requests \ {r} : req'[x] = req[x]
               /\ \/ req'[r].op # "group"
                  \/ /\ req[r].op = "group" /\ req'[r].devs = req[r].devs /\ req'[r].todo \subseteq req[r].todo
                     /\ req'[r].pc \in {"queued", "locked", "notify"}
                     /\ req'[r].pc = "notify" \/ (req'[r].half = req[r].half /\ req[r].pc # "notify")
  <2>1. \A x \in Requests \ {r} : GroupShape(x)'
    BY <1>1, <1>3 DEF GroupShape
  <2>2. GroupShape(r)'
    BY <1>1, <1>3 DEF GroupShape
  <2>3. QED
    BY <2>1, <2>2
<1>4. CASE Ingest(r) \/ Remove(r)
  <2>1. /\ \A x \in Requests \ {r} : req'[x] = req[x]
        /\ req'[r] = Idle \/ SameRequest(req'[r], req[r])
    BY <1>1, <1>4, IngestMoves, RemoveMoves, BodyOrder
  <2>2. req[r].pc \in IngestSteps \cup RemoveSteps
    BY <1>4 DEF Ingest, Register, ReadPrevious, AppendRaw, AddMinuteAggregate, AddHourlyAggregate, Accumulate,
                RollOver, Upsert, EmitAccepted, Remove, DeleteDevice, ForgetAccumulators, RemoveState,
                ClearSeries, FailsWith, Runs, IngestSteps, RemoveSteps
  <2>3. req[r].op \in {"ingest", "remove"}
    BY <1>2, <2>2 DEF KindInv
  <2>4. QED
    BY <1>2, <2>1, <2>3 DEF SameRequest
<1>5. ASSUME NEW pc \in {"queued", "locked", "notify", "register", "delete"}, NEW d \in Device,
             req[r].pc \in {"queued", "locked", "update"},
             req' = [req EXCEPT ![r].pc = pc, ![r].dev = d] \/ req' = [req EXCEPT ![r].pc = pc],
             req[r].op = "group" => pc \in {"queued", "locked", "notify"}
      PROVE  /\ \A x \in Requests \ {r} : req'[x] = req[x]
             /\ \/ req'[r].op # "group"
                \/ /\ req[r].op = "group" /\ req'[r].devs = req[r].devs /\ req'[r].todo \subseteq req[r].todo
                   /\ req'[r].pc \in {"queued", "locked", "notify"}
                   /\ req'[r].pc = "notify" \/ (req'[r].half = req[r].half /\ req[r].pc # "notify")
  <2>1. /\ req'[r] \in {[req[r] EXCEPT !.pc = pc, !.dev = d], [req[r] EXCEPT !.pc = pc]}
        /\ \A x \in Requests \ {r} : req'[x] = req[x]
    BY <1>1, <1>5
  <2>2. /\ req'[r].op = req[r].op /\ req'[r].devs = req[r].devs /\ req'[r].todo = req[r].todo
        /\ req'[r].half = req[r].half /\ req'[r].pc = pc
    BY <1>1, <2>1 DEF Handlers
  <2>3. QED
    BY <1>5, <2>1, <2>2
<1>6. CASE Release(r)
  BY <1>1, <1>2, <1>6, ReleaseOrder
<1>7. CASE EnterDeviceQueue(r) /\ ~Release(r)
  <2>1. req[r].pc = "queued" /\ GoTo(r, IF Unlocked(r) = {} THEN FirstStep(req[r].op) ELSE "locked")
    BY <1>7 DEF EnterDeviceQueue
  <2>2. /\ FirstStep(req[r].op) \in {"register", "delete", "notify"}
        /\ req[r].op = "group" => FirstStep(req[r].op) = "notify"
    BY DEF FirstStep
  <2>3. PICK pc \in {"register", "delete", "notify", "locked"} :
            GoTo(r, pc) /\ (req[r].op = "group" => pc \in {"locked", "notify"})
    BY <2>1, <2>2
  <2>4. req' = [req EXCEPT ![r].pc = pc]
    BY <2>3 DEF GoTo
  <2>5. PICK d \in Device : TRUE
    BY MetricsAssumption
  <2>6. pc \in {"queued", "locked", "notify", "register", "delete"}
    BY <2>3
  <2>7. QED
    BY <1>5, <2>1, <2>3, <2>4, <2>5, <2>6
<1>8. CASE AcquireNext(r) /\ ~Release(r)
  <2>1. req[r].pc = "locked"
    BY <1>8 DEF AcquireNext, Runs
  <2>2. \E next \in Device : req' = [req EXCEPT ![r].pc = "queued", ![r].dev = next]
    BY <1>8, Zenon DEF AcquireNext
  <2>3. QED
    BY <1>5, <2>1, <2>2
<1>9. CASE UpdateGroup(r)
  <2>1. req[r].pc = "update"
    BY <1>9 DEF UpdateGroup
  <2>2. CASE req' = [req EXCEPT ![r] = Idle]
    BY <1>1, <1>2, <2>2
  <2>3. CASE req' # [req EXCEPT ![r] = Idle]
    <3>1. \E first \in Device : req' = [req EXCEPT ![r].pc = "queued", ![r].dev = first]
      BY <1>9, <2>3, Zenon DEF UpdateGroup
    <3>2. QED
      BY <1>5, <2>1, <3>1
  <2>4. QED
    BY <2>2, <2>3
<1>10. ASSUME NEW d \in Device, NEW part, NotifyGroup(r, d, part), ~Release(r)
       PROVE  /\ \A x \in Requests \ {r} : req'[x] = req[x]
              /\ \/ req'[r].op # "group"
                 \/ /\ req[r].op = "group" /\ req'[r].devs = req[r].devs /\ req'[r].todo \subseteq req[r].todo
                    /\ req'[r].pc \in {"queued", "locked", "notify"}
                    /\ req'[r].pc = "notify" \/ (req'[r].half = req[r].half /\ req[r].pc # "notify")
  <2>1. req[r].pc = "notify" /\ req[r].op = "group"
    BY <1>2, <1>10 DEF NotifyGroup, Runs, KindInv, GroupSteps
  <2>2. \/ req' = [req EXCEPT ![r].todo = @ \ {d}]
        \/ \E state, record :
              req' = [req EXCEPT ![r].half[d] = part, ![r].seen[d] = state, ![r].rec[d] = record]
    BY <1>10, Zenon DEF NotifyGroup, Settle
  <2>3. CASE req' = [req EXCEPT ![r].todo = @ \ {d}]
    <3>1. req'[r] = [req[r] EXCEPT !.todo = @ \ {d}] /\ \A x \in Requests \ {r} : req'[x] = req[x]
      BY <1>1, <2>3
    <3>2. QED
      BY <1>1, <2>1, <3>1 DEF Handlers
  <2>4. ASSUME NEW state, NEW record,
               req' = [req EXCEPT ![r].half[d] = part, ![r].seen[d] = state, ![r].rec[d] = record]
        PROVE  /\ \A x \in Requests \ {r} : req'[x] = req[x]
               /\ req'[r].devs = req[r].devs /\ req'[r].todo = req[r].todo /\ req'[r].pc = req[r].pc
    <3>1. /\ req'[r] = [req[r] EXCEPT !.half[d] = part, !.seen[d] = state, !.rec[d] = record]
          /\ \A x \in Requests \ {r} : req'[x] = req[x]
      BY <1>1, <2>4
    <3>2. QED
      BY <1>1, <3>1 DEF Handlers
  <2>5. ASSUME NEW state, NEW record,
               req' = [req EXCEPT ![r].half[d] = part, ![r].seen[d] = state, ![r].rec[d] = record]
        PROVE  req'[r].pc = "notify" /\ req'[r].todo \subseteq req[r].todo
    BY <2>1, <2>4, <2>5
  <2>6. CASE \E state, record :
              req' = [req EXCEPT ![r].half[d] = part, ![r].seen[d] = state, ![r].rec[d] = record]
    <3>0. PICK state, record :
              req' = [req EXCEPT ![r].half[d] = part, ![r].seen[d] = state, ![r].rec[d] = record]
      BY <2>6
    <3>1. /\ \A x \in Requests \ {r} : req'[x] = req[x]
          /\ req'[r].devs = req[r].devs
          /\ req'[r].pc = "notify" /\ req'[r].todo \subseteq req[r].todo
      BY <2>4, <2>5, <3>0
    <3>2. QED
      BY <2>1, <3>1
  <2>7. QED
    BY <2>2, <2>3, <2>6
<1>11. QED
  BY <1>4, <1>6, <1>7, <1>8, <1>9, <1>10 DEF Handle, Regroup

LEMMA ViewStep == ViewInv /\ [Next]_vars => ViewInv'
<1> SUFFICES ASSUME ViewInv, [Next]_vars PROVE ViewInv'
  OBVIOUS
<1>1. GoneInv' /\ TypeOK'
  BY GoneStep DEF ViewInv, GoneInv, OrderInv, LocksInv
<1>2. SUFFICES (\A e \in Device : ConsoleInv(e)') /\ (\A r \in Requests : GroupShape(r)')
  BY <1>1 DEF ViewInv
<1>3. UNCHANGED req => \A r \in Requests : GroupShape(r)'
  BY DEF ViewInv, GroupShape
<1>4. ASSUME NEW r \in Requests, Handle(r)
      PROVE  (\A e \in Device : ConsoleInv(e)') /\ (\A x \in Requests : GroupShape(x)')
  BY <1>1, <1>4, ShapeStep, QueueView, IngestView, RemoveView, UpdateGroupView, NotifyView DEF Handle, Regroup
<1>5. ASSUME NEW d \in Device, SweepStep(d)
      PROVE  (\A e \in Device : ConsoleInv(e)') /\ (\A x \in Requests : GroupShape(x)')
  <2>1. UNCHANGED req
    BY <1>5 DEF SweepStep, MarkOffline, EnterSweep, NotifyOffline
  <2>2. QED
    BY <1>3, <1>5, <2>1, SweepView
<1>6. CASE StartSweep \/ ListExpired
  <2>1. UNCHANGED <<req, registry, live, view, missed>>
    BY <1>6 DEF StartSweep, ListExpired, stores, history
  <2>2. \A d \in Device : sweep.pc[d] = "none"
    BY <1>6 DEF StartSweep, ListExpired, SweepIdle, ViewInv, GoneInv, OrderInv, LocksInv, QueuesInv, SweepInv,
                TypeOK
  <2>3. \A d \in Device : ~AnnouncePending(d)
    BY <2>2 DEF AnnouncePending
  <2>4. QED
    BY <1>3, <2>1, <2>3, SilentView
<1>7. CASE StartFlush \/ (\E d \in Device : FlushStep(d)) \/ Shutdown \/ Process \/ Tick \/ UNCHANGED vars
  <2>1. UNCHANGED <<req, registry, live, view, missed, sweep>>
    BY <1>7 DEF StartFlush, FlushStep, AdmitFlush, FlushMinute, FlushHourly, FlushStage, Shutdown, Process,
                HttpDrained, FlushDrained, SweepDrained, LastFlush, Stop, Tick, vars, stores, memory, history
  <2>2. \A d \in Device : AnnouncePending(d) => AnnouncePending(d)'
    BY <2>1 DEF AnnouncePending, StillOffline
  <2>3. QED
    BY <1>3, <2>1, <2>2, SilentView
<1>8. QED
  BY <1>4, <1>5, <1>6, <1>7, SubmitView, RestartView DEF Next

LEMMA ViewInit == Init => ViewInv
<1> SUFFICES ASSUME Init PROVE ViewInv
  OBVIOUS
<1>1. /\ \A r \in Requests : req[r] = Idle
      /\ \A d \in Device : view[d] = NoView /\ registry[d] = NoRecord
  BY DEF Init
<1>2. /\ Idle.op = "none" /\ Idle.pc = "idle" /\ NoView.kind = "none" /\ NoRecord.status = "absent"
  BY DEF Idle, NoView, NoRecord
<1>3. \A d \in Device : ConsoleInv(d)
  BY <1>1, <1>2 DEF ConsoleInv, NotifyOk, EmitOk, SeenOk, Shown, Hidden, Accepting, IngestSteps
<1>4. QED
  BY <1>1, <1>2, <1>3, GoneInit DEF ViewInv, GroupShape

LEMMA ViewInvariant == Spec => []ViewInv
BY ViewInit, ViewStep, PTL DEF Spec

\* Once nothing is in flight for a device, the last event a console received
\* about it is right: whatever changed the reading, the status or the group
\* after the event was read is itself about to announce the change, or a
\* failure lost its event.
THEOREM ViewAgreesHolds == Spec => []ViewAgrees
<1>1. ASSUME ViewInv PROVE ViewAgrees
  <2> SUFFICES ASSUME NEW d \in Device, Quiescent(d), ~missed[d]
               PROVE  /\ registry[d].status = "open" /\ live[d].ts # 0
                           => view[d] = StateView(live[d], registry[d].group)
                      /\ registry[d].status = "closed" => ~(view[d].kind = "state" /\ view[d].ts # 0)
    BY DEF ViewAgrees
  <2>1. /\ GoneInv /\ TypeOK /\ ConsoleInv(d) /\ missed[d] = FALSE /\ view[d] \in Views
    BY <1>1 DEF ViewInv, GoneInv, OrderInv, LocksInv, TypeOK
  <2>2. ASSUME NEW r \in Requests
        PROVE  /\ ~GroupPending(d, r) /\ ~EmitPending(d, r) /\ ~GonePending(d, r)
               /\ ~RemovalOf(d, r, Removing)
    <3>1. GroupShape(r) /\ KindInv(r)
      BY <1>1 DEF ViewInv, GoneInv, OrderInv, LocksInv, QueuesInv
    <3>2. req[r].pc = "idle" \/ d \notin req[r].devs
      BY DEF Quiescent
    <3>3. CASE req[r].pc = "idle"
      BY <3>1, <3>3 DEF KindInv, GroupPending, EmitPending, GonePending, IngestOf, RemovalOf
    <3>4. CASE d \notin req[r].devs
      BY <3>1, <3>4 DEF GroupShape, KindInv, GroupPending, EmitPending, GonePending, IngestOf, RemovalOf
    <3>5. QED
      BY <3>2, <3>3, <3>4
  <2>3. ~AnnouncePending(d)
    BY DEF Quiescent, AnnouncePending
  <2>4. ASSUME registry[d].status = "open", live[d].ts # 0
        PROVE  view[d] = StateView(live[d], registry[d].group)
    <3>1. /\ view[d].kind = "state" /\ view[d].ts = live[d].ts /\ view[d].status = live[d].status
          /\ view[d].group = registry[d].group
      BY <2>1, <2>2, <2>3, <2>4 DEF ConsoleInv, Shown, ReadingKnown, GroupKnown
    <3>2. QED
      BY <2>1, <2>4, <3>1 DEF StateView, Views
  <2>5. ASSUME registry[d].status = "closed" PROVE ~(view[d].kind = "state" /\ view[d].ts # 0)
    <3>1. live[d].ts = 0
      BY <2>1, <2>2, <2>5, NoLiveFacts DEF GoneInv, RemovalInv, NothingLeft
    <3>2. QED
      BY <2>1, <2>2, <3>1 DEF ConsoleInv, Hidden
  <2>6. QED
    BY <2>4, <2>5
<1>2. QED
  BY <1>1, ViewInvariant, PTL

=============================================================================
