--------------------------- MODULE HistoryProofs ---------------------------
(***************************************************************************)
(* Machine-checked theorems about the write batcher and the cached reads   *)
(* of the history, for any callers, readers, devices, windows and limits.  *)
(***************************************************************************)
EXTENDS WriteBatcher, CachedHistory, TLAPS, FiniteSetTheorems, FunctionTheorems, SequenceTheorems, WellFoundedInduction

\* The rows of a table that are not written yet, in the order they will be.
Line(k) == batch[k] \o buffers[k]

Distinct(s) == \A i, j \in 1..Len(s) : s[i] = s[j] => i = j

Waiting(k) == {c \in Callers : inserts[c].state = "waiting" /\ inserts[c].kind = k}

\* The rows of a table are those of the callers that wait for it, once each.
LinesMatch == \A k \in Kinds : Distinct(Line(k)) /\ Rows(Line(k)) = Waiting(k)

\* Only a drain that runs has a statement in flight.
BatchHasDrain == \A k \in Kinds : drains[k] # "querying" => batch[k] = <<>>

\* From the flush on no timer is armed, and a drain that runs is awaited.
FlushTracks ==
    /\ flushing # "no" => timer = FALSE /\ \A k \in Kinds \ awaited : drains[k] = "none"
    /\ flushing = "done" => awaited = {} /\ \A k \in Kinds : buffers[k] = <<>>

BatcherInv ==
    BatcherTypeOK /\ RowsCovered /\ BatchHasDrain /\ LinesMatch /\ ResolvedIsStored /\ FlushTracks

-----------------------------------------------------------------------------
(* What the cached reads keep                                              *)

Keys == Devices \X Windows \X Nat
EpochEntries == [device : Devices, epoch : Nat]
Entries == [key : Keys, value : Nat, expires : Nat]
Stages == Running \cup {"waiting", "joined"}
Reads ==
    [state : Stages, device : Devices, window : Windows, key : Keys, value : Nat, leader : Readers,
     floor : Nat, gone : BOOLEAN, clear : BOOLEAN]

HistoryTypes ==
    /\ rows \in [Devices -> Nat] /\ published \in [Devices -> Nat] /\ insertNo \in Nat
    /\ writers \in [Writers -> {NoWrite} \cup [state : {"insert", "clear"}, device : Devices]]
    /\ epochs \in Seq(EpochEntries)
    /\ l1 \in Seq(Entries) /\ l2 \in SUBSET Entries
    /\ readers \in [Readers -> {NoRead} \cup Reads]
    /\ waiting \in Seq(Readers) /\ active \in Nat
    /\ time \in Nat /\ blurUntil \in Nat /\ emptied \in SUBSET Devices

\* The Map of epochs has one entry of a device at most.
OneOfDevice(s) == \A i, j \in 1..Len(s) : s[i].device = s[j].device => i = j

EpochsDistinct == OneOfDevice(epochs)

\* What is acknowledged is stored; a device is without rows until the next insert.
Stored ==
    /\ \A d \in Devices : published[d] <= rows[d] /\ rows[d] <= insertNo
    /\ \A d \in emptied : rows[d] = 0

\* A value under a key is no older than the writes that were acknowledged when
\* the epoch of the key began, which every read with that key must see.
Fresh(value, key) ==
    /\ key[3] <= epoch(key[1])
    /\ key[3] = epoch(key[1]) => value >= published[key[1]] /\ (key[1] \in emptied => value = 0)
    /\ \A q \in Readers :
          readers[q].state = "shared" /\ readers[q].key = key =>
              value >= readers[q].floor /\ (readers[q].gone => value = 0)

\* An entry is fresh, or an earlier process has left it and it dies in time.
CachesFresh ==
    /\ \A i \in 1..Len(l1) : l1[i].expires <= blurUntil \/ Fresh(l1[i].value, l1[i].key)
    /\ \A e \in l2 : /\ e.expires + TTL <= blurUntil \/ Fresh(e.value, e.key)
                     /\ e.expires <= time + TTL

\* What a read has in hand.
ReadFits(r) ==
    /\ r.floor <= published[r.device]
    /\ r.gone => rows[r.device] = 0
    /\ r.clear => time >= blurUntil
    /\ r.state \in {"shared", "query", "read"} => r.key[1] = r.device /\ r.key[3] <= epoch(r.device)
    /\ r.state = "read" => Fresh(r.value, r.key)
    /\ r.state = "read" \/ (r.state = "publish" /\ r.clear) => r.value >= r.floor /\ (r.gone => r.value = 0)

ReadsOk == \A q \in Readers : readers[q].state # "none" => ReadFits(readers[q])

\* The operations that wait for a slot, each once.
QueueOk == Distinct(waiting) /\ \A i \in 1..Len(waiting) : readers[waiting[i]].state = "waiting"

HistoryInv ==
    HistoryTypes /\ EpochsDistinct /\ Stored /\ CachesFresh /\ ReadsOk /\ QueueOk /\ WorkConserving

-----------------------------------------------------------------------------
(* The write batcher: a statement takes rows from the front of the buffer  *)

\* A set of natural numbers has a least element, and a bounded one a greatest.
LEMMA NatMin ==
    ASSUME NEW T \in SUBSET Nat, T # {}
    PROVE  \E m \in T : \A n \in T : m <= n
<1> DEFINE R == OpToRel(<, Nat)
<1>1. IsWellFoundedOn(R, Nat)
  BY NatLessThanWellFounded
<1>2. \A x, y \in Nat : <<y, x>> \in R <=> y < x
  BY DEF OpToRel
<1> HIDE DEF R
<1>3. PICK m \in T : \A y \in T : ~(<<y, m>> \in R)
  BY <1>1, WFMin, Zenon
<1>4. ASSUME NEW y \in T PROVE m <= y
  <2>1. m \in Nat /\ y \in Nat /\ ~(y < m)
    BY <1>2, <1>3
  <2>2. QED
    BY <2>1
<1>5. QED
  BY <1>3, <1>4

LEMMA NatMax ==
    ASSUME NEW bound \in Nat, NEW T \in SUBSET (0..bound), T # {}
    PROVE  \E m \in T : \A n \in T : n <= m
<1> DEFINE D == {bound - x : x \in T}
<1>1. D \in SUBSET Nat /\ D # {}
  <2>1. \A x \in T : bound - x \in Nat
    OBVIOUS
  <2>2. QED
    BY <2>1, Zenon
<1>2. PICK m \in D : \A n \in D : m <= n
  BY <1>1, NatMin
<1>3. PICK x \in T : m = bound - x
  BY <1>2
<1>4. \A y \in T : bound - x <= bound - y
  BY <1>2, <1>3
<1>5. \A y \in T : y <= x
  BY <1>4
<1>6. QED
  BY <1>5

\* The loop stops somewhere in the buffer, and takes a row of one that has any.
LEMMA SizeOfBatch ==
    ASSUME NEW buffer \in Seq(Callers)
    PROVE  BatchSize(buffer) \in 0..Len(buffer) /\ (BatchSize(buffer) = 0 => buffer = <<>>)
<1> DEFINE Stops(n) == n = Len(buffer) \/ n >= MaxRows \/ n * RowBytes >= MaxBytes
           Ends == {n \in 0..Len(buffer) : Stops(n)}
<1>1. Len(buffer) \in Nat /\ Ends \in SUBSET Nat /\ Len(buffer) \in Ends
  OBVIOUS
<1>2. PICK n \in Ends : \A m \in Ends : n <= m
  BY <1>1, NatMin
<1>3. ASSUME NEW m \in 0..(n - 1) PROVE m < MaxRows /\ m * RowBytes < MaxBytes
  <2>1. m \in 0..Len(buffer) /\ ~(n <= m)
    BY <1>1, <1>2
  <2>2. ~Stops(m)
    BY <1>2, <2>1
  <2>3. m \in Nat /\ m * RowBytes \in Nat /\ MaxRows \in Nat /\ MaxBytes \in Nat
    BY <2>1, BatcherAssumption
  <2>4. QED
    BY <2>2, <2>3
<1>4. \E x \in 0..Len(buffer) :
        /\ \A m \in 0..(x - 1) : m < MaxRows /\ m * RowBytes < MaxBytes
        /\ x = Len(buffer) \/ x >= MaxRows \/ x * RowBytes >= MaxBytes
  BY <1>2, <1>3
<1>5. /\ BatchSize(buffer) \in 0..Len(buffer)
      /\ \/ BatchSize(buffer) = Len(buffer) \/ BatchSize(buffer) >= MaxRows
         \/ BatchSize(buffer) * RowBytes >= MaxBytes
  BY <1>4 DEF BatchSize
<1>6. BatchSize(buffer) = 0 => Len(buffer) = 0
  BY <1>5, BatcherAssumption
<1>7. QED
  BY <1>5, <1>6, EmptySeq

\* A turn of the loop loses no row and keeps their order.
LEMMA TurnSplits ==
    ASSUME NEW k, NEW buffer \in Seq(Callers)
    PROVE  LET turn == LoopTurn(k, buffer)
           IN  /\ turn.batch \in Seq(Callers) /\ turn.buffer \in Seq(Callers)
               /\ turn.batch \o turn.buffer = buffer
               /\ turn.drain = IF buffer = <<>> THEN "ended" ELSE "querying"
               /\ buffer = <<>> => turn.batch = <<>> /\ turn.buffer = <<>>
<1> DEFINE n == BatchSize(buffer)
<1>1. n \in 0..Len(buffer) /\ (n = 0 => buffer = <<>>) /\ Len(buffer) \in Nat
  BY SizeOfBatch
<1>2. buffer = <<>> => n = 0
  BY <1>1, EmptySeq
<1> HIDE DEF n
<1>3. SubSeq(buffer, 1, n) \in Seq(Callers) /\ SubSeq(buffer, n + 1, Len(buffer)) \in Seq(Callers)
  BY <1>1, SubSeqProperties
<1>4. SubSeq(buffer, 1, n) \o SubSeq(buffer, n + 1, Len(buffer)) = buffer
  <2>1. 1 \in 1..(Len(buffer) + 1) /\ n \in (1 - 1)..Len(buffer) /\ Len(buffer) \in n..Len(buffer)
    BY <1>1
  <2>2. SubSeq(buffer, 1, n) \o SubSeq(buffer, n + 1, Len(buffer)) = SubSeq(buffer, 1, Len(buffer))
    BY <2>1, ConcatAdjacentSubSeq, Zenon
  <2>3. QED
    BY <2>2, SubSeqFull, Zenon
<1>5. buffer = <<>> => SubSeq(buffer, 1, n) = <<>> /\ SubSeq(buffer, n + 1, Len(buffer)) = <<>>
  BY <1>1, <1>2, <1>3, <1>4, ConcatEqualIffEmpty
<1>6. LoopTurn(k, buffer) = [buffer |-> SubSeq(buffer, n + 1, Len(buffer)), batch |-> SubSeq(buffer, 1, n),
                             drain |-> IF n = 0 THEN "ended" ELSE "querying"]
  BY DEF LoopTurn, n
<1>7. /\ LoopTurn(k, buffer).buffer = SubSeq(buffer, n + 1, Len(buffer))
      /\ LoopTurn(k, buffer).batch = SubSeq(buffer, 1, n)
      /\ LoopTurn(k, buffer).drain = IF buffer = <<>> THEN "ended" ELSE "querying"
  BY <1>1, <1>2, <1>6
<1>8. QED
  BY <1>3, <1>4, <1>5, <1>7, Zenon

\* drain(kind) keeps every row, and leaves rows behind only for a drain that
\* runs, or for one that has ended and whose marker is not reset yet.
LEMMA DrainKeeps ==
    ASSUME BatcherTypeOK, BatchHasDrain, NEW k \in Kinds, NEW buffer \in Seq(Callers)
    PROVE  LET after == Drain(k, buffer)
           IN  /\ after.batch \in Seq(Callers) /\ after.buffer \in Seq(Callers)
               /\ after.drain \in {"querying", "ended"}
               /\ after.batch \o after.buffer = batch[k] \o buffer
               /\ after.drain # "querying" => after.batch = <<>>
               /\ drains[k] # "ended" /\ after.drain # "querying" => after.buffer = <<>>
<1>1. batch[k] \in Seq(Callers) /\ drains[k] \in {"none", "querying", "ended"}
  BY DEF BatcherTypeOK
<1>2. CASE drains[k] # "none"
  <2>1. /\ Drain(k, buffer).buffer = buffer /\ Drain(k, buffer).batch = batch[k]
        /\ Drain(k, buffer).drain = drains[k]
    BY <1>2 DEF Drain
  <2>2. drains[k] # "querying" => batch[k] = <<>>
    BY DEF BatchHasDrain
  <2>3. QED
    BY <1>1, <1>2, <2>1, <2>2, Zenon
<1>3. CASE drains[k] = "none"
  <2>1. Drain(k, buffer) = LoopTurn(k, buffer) /\ batch[k] = <<>>
    BY <1>3 DEF Drain, BatchHasDrain
  <2>2. batch[k] \o buffer = buffer
    BY <2>1, ConcatEmptySeq
  <2>3. /\ LoopTurn(k, buffer).batch \in Seq(Callers) /\ LoopTurn(k, buffer).buffer \in Seq(Callers)
        /\ LoopTurn(k, buffer).batch \o LoopTurn(k, buffer).buffer = buffer
        /\ LoopTurn(k, buffer).drain = IF buffer = <<>> THEN "ended" ELSE "querying"
        /\ buffer = <<>> => LoopTurn(k, buffer).batch = <<>> /\ LoopTurn(k, buffer).buffer = <<>>
    BY TurnSplits
  <2>4. CASE buffer = <<>>
    <3>1. LoopTurn(k, buffer).drain = "ended"
      BY <2>3, <2>4
    <3>2. QED
      BY <2>1, <2>2, <2>3, <2>4, <3>1, Zenon
  <2>5. CASE buffer # <<>>
    <3>1. LoopTurn(k, buffer).drain = "querying"
      BY <2>3, <2>5
    <3>2. QED
      BY <2>1, <2>2, <2>3, <3>1, Zenon
  <2>6. QED
    BY <2>4, <2>5
<1>4. QED
  BY <1>2, <1>3

-----------------------------------------------------------------------------
(* Lines of distinct callers                                               *)

LEMMA AppendDistinct ==
    ASSUME NEW s \in Seq(Callers), NEW c \in Callers, Distinct(s), c \notin Rows(s)
    PROVE  Distinct(Append(s, c)) /\ Rows(Append(s, c)) = Rows(s) \cup {c}
<1> DEFINE t == Append(s, c)
<1>1. /\ t \in Seq(Callers) /\ Len(s) \in Nat /\ Len(t) = Len(s) + 1
      /\ DOMAIN s = 1..Len(s) /\ DOMAIN t = 1..Len(t)
      /\ \A i \in 1..Len(s) : t[i] = s[i]
      /\ t[Len(s) + 1] = c
  BY AppendProperties, LenProperties
<1> HIDE DEF t
<1>2. \A i \in 1..Len(s) : s[i] # c
  BY <1>1 DEF Rows
<1>3. \A i \in 1..Len(t) : i \in 1..Len(s) \/ i = Len(s) + 1
  BY <1>1
<1>4. Distinct(t)
  BY <1>1, <1>2, <1>3 DEF Distinct
<1>5. Rows(t) = Rows(s) \cup {c}
  <2>1. \A i \in 1..Len(s) : i \in 1..Len(t)
    BY <1>1
  <2>2. Len(s) + 1 \in 1..Len(t)
    BY <1>1
  <2>3. Rows(t) \subseteq Rows(s) \cup {c}
    BY <1>1, <1>3 DEF Rows
  <2>4. Rows(s) \cup {c} \subseteq Rows(t)
    BY <1>1, <2>1, <2>2 DEF Rows
  <2>5. QED
    BY <2>3, <2>4
<1>6. QED
  BY <1>4, <1>5 DEF t

LEMMA SuffixDistinct ==
    ASSUME NEW s \in Seq(Callers), NEW t \in Seq(Callers), Distinct(s \o t)
    PROVE  Distinct(t) /\ Rows(t) = Rows(s \o t) \ Rows(s)
<1> DEFINE u == s \o t
<1>1. /\ u \in Seq(Callers) /\ Len(s) \in Nat /\ Len(t) \in Nat /\ Len(u) = Len(s) + Len(t)
      /\ DOMAIN s = 1..Len(s) /\ DOMAIN t = 1..Len(t) /\ DOMAIN u = 1..Len(u)
      /\ \A i \in 1..(Len(s) + Len(t)) : u[i] = IF i <= Len(s) THEN s[i] ELSE t[i - Len(s)]
  BY ConcatProperties, LenProperties
<1>2. Distinct(u)
  OBVIOUS
<1> HIDE DEF u
<1>3. \A i \in 1..Len(s) : i \in 1..Len(u) /\ u[i] = s[i]
  BY <1>1
<1>4. \A i \in 1..Len(t) : i + Len(s) \in 1..Len(u) /\ u[i + Len(s)] = t[i]
  <2> TAKE i \in 1..Len(t)
  <2>1. /\ i + Len(s) \in 1..(Len(s) + Len(t)) /\ ~(i + Len(s) <= Len(s))
        /\ (i + Len(s)) - Len(s) = i
    BY <1>1
  <2>2. u[i + Len(s)] = t[(i + Len(s)) - Len(s)]
    BY <1>1, <2>1
  <2>3. QED
    BY <1>1, <2>1, <2>2
<1>5. \A i \in 1..Len(u) : i \in 1..Len(s) \/ \E j \in 1..Len(t) : i = j + Len(s)
  <2>1. \A i \in 1..Len(u) : i \in 1..Len(s) \/ i - Len(s) \in 1..Len(t)
    BY <1>1
  <2>2. \A i \in 1..Len(u) : i = (i - Len(s)) + Len(s)
    BY <1>1
  <2>3. QED
    BY <2>1, <2>2
<1>6. Distinct(t)
  <2> SUFFICES ASSUME NEW i \in 1..Len(t), NEW j \in 1..Len(t), t[i] = t[j] PROVE i = j
    BY DEF Distinct
  <2>1. i + Len(s) = j + Len(s)
    BY <1>2, <1>4 DEF Distinct
  <2>2. QED
    BY <1>1, <2>1
<1>7. \A i \in 1..Len(t), j \in 1..Len(s) : t[i] # s[j]
  <2> SUFFICES ASSUME NEW i \in 1..Len(t), NEW j \in 1..Len(s), t[i] = s[j] PROVE FALSE
    OBVIOUS
  <2>1. i + Len(s) = j
    BY <1>2, <1>3, <1>4 DEF Distinct
  <2>2. QED
    BY <1>1, <2>1
<1>8. Rows(t) \subseteq Rows(u) \ Rows(s)
  BY <1>1, <1>4, <1>7 DEF Rows
<1>9. Rows(u) \ Rows(s) \subseteq Rows(t)
  <2> SUFFICES ASSUME NEW i \in 1..Len(u), u[i] \notin Rows(s) PROVE u[i] \in Rows(t)
    BY <1>1 DEF Rows
  <2>1. i \notin 1..Len(s)
    BY <1>1, <1>3 DEF Rows
  <2>2. PICK j \in 1..Len(t) : i = j + Len(s)
    BY <1>5, <2>1
  <2>3. QED
    BY <1>1, <1>4, <2>2 DEF Rows
<1>10. QED
  BY <1>6, <1>8, <1>9 DEF u

\* In a line of distinct callers one occurs once or not at all.
LEMMA OccursOnce ==
    ASSUME NEW s \in Seq(Callers), NEW c, Distinct(s)
    PROVE  Cardinality({i \in DOMAIN s : s[i] = c}) = IF c \in Rows(s) THEN 1 ELSE 0
<1> DEFINE C == {i \in DOMAIN s : s[i] = c}
<1>1. DOMAIN s = 1..Len(s)
  BY LenProperties
<1>2. CASE c \in Rows(s)
  <2>1. PICK i \in DOMAIN s : s[i] = c
    BY <1>2 DEF Rows
  <2>2. C = {i}
    BY <1>1, <2>1 DEF Distinct
  <2>3. QED
    BY <1>2, <2>2, FS_Singleton
<1>3. CASE c \notin Rows(s)
  <2>1. C = {}
    BY <1>3 DEF Rows
  <2>2. QED
    BY <1>3, <2>1, FS_EmptySet
<1>4. QED
  BY <1>2, <1>3

\* The upsert stores the largest of the counts, and never a smaller one.
LEMMA UpsertKeepsLargest ==
    ASSUME BatcherTypeOK, NEW k \in Kinds
    PROVE  /\ Upserted(k) \in 0..MaxCount
           /\ Upserted(k) >= stored[k]
           /\ \A c \in Rows(batch[k]) : Upserted(k) >= inserts[c].count
<1> DEFINE counts == {inserts[c].count : c \in Rows(batch[k])} \cup {stored[k]}
<1>1. batch[k] \in Seq(Callers) /\ stored[k] \in 0..MaxCount /\ MaxCount \in Nat
  BY BatcherAssumption DEF BatcherTypeOK
<1>2. Rows(batch[k]) \subseteq Callers
  BY <1>1, LenProperties DEF Rows
<1>3. \A c \in Callers : inserts[c].count \in 0..MaxCount
  BY DEF BatcherTypeOK
<1>4. counts \in SUBSET (0..MaxCount) /\ counts # {}
  BY <1>1, <1>2, <1>3
<1>5. Upserted(k) = CHOOSE n \in counts : \A m \in counts : m <= n
  BY DEF Upserted
<1>6. stored[k] \in counts /\ \A c \in Rows(batch[k]) : inserts[c].count \in counts
  OBVIOUS
<1> HIDE DEF counts
<1>7. \E n \in counts : \A m \in counts : m <= n
  BY <1>1, <1>4, NatMax
<1>8. Upserted(k) \in counts /\ \A m \in counts : m <= Upserted(k)
  BY <1>5, <1>7
<1>9. \A m \in counts : m \in 0..MaxCount
  BY <1>4
<1>10. QED
  BY <1>1, <1>6, <1>8, <1>9

-----------------------------------------------------------------------------
(* The steps of the batcher                                                *)

LEMMA BatcherInitInv == BatcherInit => BatcherInv
<1> SUFFICES ASSUME BatcherInit PROVE BatcherInv
  OBVIOUS
<1>1. <<>> \in Seq(Callers) /\ <<>> \o <<>> = <<>> /\ Len(<<>>) = 0
  BY EmptySeq, ConcatEmptySeq
<1>2. BatcherTypeOK
  <2>1. [k \in Kinds |-> <<>>] \in [Kinds -> Seq(Callers)]
    BY <1>1
  <2>2. /\ NoInsert \in [state : {"none", "waiting", "resolved", "rejected"}, kind : Kinds, count : 0..MaxCount]
        /\ 0 \in 0..MaxCount /\ 0 \in 0..MaxRejects
    BY BatcherAssumption DEF NoInsert, Kinds
  <2>3. QED
    BY <2>1, <2>2 DEF BatcherInit, BatcherTypeOK
<1>3. RowsCovered /\ BatchHasDrain /\ ResolvedIsStored /\ FlushTracks
  BY DEF BatcherInit, RowsCovered, BatchHasDrain, ResolvedIsStored, FlushTracks, NoInsert
<1>4. ASSUME NEW k \in Kinds PROVE Distinct(Line(k)) /\ Rows(Line(k)) = Waiting(k)
  <2>1. Line(k) = <<>>
    BY <1>1 DEF BatcherInit, Line
  <2>2. Distinct(<<>>) /\ Rows(<<>>) = {}
    BY <1>1 DEF Distinct, Rows
  <2>3. Waiting(k) = {}
    BY DEF BatcherInit, Waiting, NoInsert
  <2>4. QED
    BY <2>1, <2>2, <2>3
<1>5. QED
  BY <1>2, <1>3, <1>4 DEF BatcherInv, LinesMatch

\* A row joins the line of its table.
LEMMA EnqueueStep ==
    ASSUME BatcherInv, NEW c \in Callers, NEW k \in Kinds, NEW n \in 1..MaxCount, EnqueueRow(c, k, n)
    PROVE  BatcherInv'
<1> DEFINE buffer == Append(buffers[k], c)
           after == IF Full(buffer) THEN Drain(k, buffer)
                    ELSE [buffer |-> buffer, batch |-> batch[k], drain |-> drains[k]]
<1>1. /\ BatcherTypeOK /\ RowsCovered /\ BatchHasDrain /\ LinesMatch /\ ResolvedIsStored /\ FlushTracks
      /\ buffers[k] \in Seq(Callers) /\ batch[k] \in Seq(Callers) /\ MaxCount \in Nat
      /\ drains[k] \in {"none", "querying", "ended"}
  BY BatcherAssumption DEF BatcherInv, BatcherTypeOK
<1>2. /\ flushing = "no" /\ inserts[c].state # "waiting"
      /\ inserts' = [inserts EXCEPT ![c] = [state |-> "waiting", kind |-> k, count |-> n]]
      /\ buffers' = [buffers EXCEPT ![k] = after.buffer]
      /\ batch' = [batch EXCEPT ![k] = after.batch]
      /\ drains' = [drains EXCEPT ![k] = after.drain]
      /\ timer' = (timer \/ ~Full(buffer))
      /\ UNCHANGED <<stored, flushing, awaited, rejects>>
  BY DEF EnqueueRow
<1>3. buffer \in Seq(Callers) /\ buffer # <<>>
  BY <1>1, AppendProperties
<1>4. /\ after.batch \in Seq(Callers) /\ after.buffer \in Seq(Callers)
      /\ after.drain \in {"none", "querying", "ended"}
      /\ after.batch \o after.buffer = batch[k] \o buffer
      /\ after.drain # "querying" => after.batch = <<>>
      /\ Full(buffer) /\ after.drain # "querying" => drains[k] = "ended" \/ after.buffer = <<>>
  <2>1. CASE Full(buffer)
    <3>1. after = Drain(k, buffer)
      BY <2>1
    <3>2. QED
      BY <1>1, <1>3, <3>1, DrainKeeps, Zenon
  <2>2. CASE ~Full(buffer)
    <3>1. after.buffer = buffer /\ after.batch = batch[k] /\ after.drain = drains[k]
      BY <2>2
    <3>2. drains[k] # "querying" => batch[k] = <<>>
      BY <1>1 DEF BatchHasDrain
    <3>3. QED
      BY <1>1, <1>3, <2>2, <3>1, <3>2, Zenon
  <2>3. QED
    BY <2>1, <2>2
<1>5. batch[k] \o buffer = Append(Line(k), c)
  <2>1. <<c>> \in Seq(Callers)
    OBVIOUS
  <2>2. Append(buffers[k], c) = buffers[k] \o <<c>> /\ Append(Line(k), c) = Line(k) \o <<c>>
    BY <1>1, ConcatProperties, AppendIsConcat DEF Line
  <2>3. (batch[k] \o buffers[k]) \o <<c>> = batch[k] \o (buffers[k] \o <<c>>)
    <3>1. \A s, t, u \in Seq(Callers) : (s \o t) \o u = s \o (t \o u)
      <4> TAKE s, t, u \in Seq(Callers)
      <4> QED
        BY ConcatAssociative, SMT
    <3>2. QED
      BY <1>1, <2>1, <3>1, Zenon
  <2>4. QED
    BY <2>2, <2>3 DEF Line
<1>6. Full(buffer) => buffers[k] # <<>>
  <2>1. buffers[k] = <<>> => Len(buffer) = 1
    BY <1>1, AppendProperties, EmptySeq
  <2>2. Len(buffer) = 1 => ~Full(buffer)
    BY BatcherAssumption DEF Full, bufferBytes
  <2>3. QED
    BY <2>1, <2>2
<1> HIDE DEF after, buffer
<1>7. BatcherTypeOK'
  <2>1. /\ buffers' \in [Kinds -> Seq(Callers)] /\ batch' \in [Kinds -> Seq(Callers)]
        /\ drains' \in [Kinds -> {"none", "querying", "ended"}]
    BY <1>1, <1>2, <1>4 DEF BatcherTypeOK
  <2>2. inserts' \in [Callers -> [state : {"none", "waiting", "resolved", "rejected"},
                                  kind : Kinds, count : 0..MaxCount]]
    BY <1>1, <1>2 DEF BatcherTypeOK
  <2>3. timer' \in BOOLEAN
    BY <1>2, Zenon
  <2>4. QED
    BY <1>1, <1>2, <2>1, <2>2, <2>3 DEF BatcherTypeOK
<1>8. /\ buffers'[k] = after.buffer /\ batch'[k] = after.batch /\ drains'[k] = after.drain
      /\ \A j \in Kinds \ {k} : buffers'[j] = buffers[j] /\ batch'[j] = batch[j] /\ drains'[j] = drains[j]
  BY <1>1, <1>2 DEF BatcherTypeOK
<1>9. timer => timer' = TRUE
  BY <1>2, Zenon
<1>10. RowsCovered'
  <2>1. ASSUME NEW j \in Kinds \ {k}, buffers'[j] # <<>>
        PROVE  timer' \/ drains'[j] = "querying" \/ flushing' = "waiting"
    BY <1>1, <1>2, <1>8, <1>9, <2>1 DEF RowsCovered
  <2>2. ASSUME buffers'[k] # <<>> PROVE timer' \/ drains'[k] = "querying"
    <3>1. CASE ~Full(buffer)
      BY <1>2, <3>1, Zenon
    <3>2. CASE Full(buffer)
      <4>1. CASE drains[k] = "ended"
        BY <1>1, <1>2, <1>6, <1>9, <3>2, <4>1 DEF RowsCovered
      <4>2. CASE drains[k] # "ended"
        BY <1>4, <1>8, <2>2, <3>2, <4>2
      <4>3. QED
        BY <4>1, <4>2
    <3>3. QED
      BY <3>1, <3>2
  <2>3. QED
    BY <2>1, <2>2 DEF RowsCovered
<1>11. BatchHasDrain'
  BY <1>1, <1>4, <1>8 DEF BatchHasDrain
<1>12. LinesMatch'
  <2>1. ASSUME NEW j \in Kinds \ {k} PROVE Distinct(Line(j))' /\ Rows(Line(j))' = Waiting(j)'
    <3>1. Line(j)' = Line(j)
      BY <1>8 DEF Line
    <3>2. Waiting(j)' = Waiting(j)
      BY <1>1, <1>2 DEF Waiting, BatcherTypeOK
    <3>3. QED
      BY <1>1, <3>1, <3>2 DEF LinesMatch, Distinct, Rows
  <2>2. Line(k)' = Append(Line(k), c)
    BY <1>4, <1>5, <1>8 DEF Line
  <2>3. Waiting(k)' = Waiting(k) \cup {c} /\ c \notin Waiting(k)
    BY <1>1, <1>2 DEF Waiting, BatcherTypeOK
  <2>4. Line(k) \in Seq(Callers) /\ Distinct(Line(k)) /\ Rows(Line(k)) = Waiting(k)
    BY <1>1, ConcatProperties DEF Line, LinesMatch
  <2>5. Distinct(Append(Line(k), c)) /\ Rows(Append(Line(k), c)) = Rows(Line(k)) \cup {c}
    BY <2>3, <2>4, AppendDistinct
  <2>6. Distinct(Line(k))' /\ Rows(Line(k))' = Waiting(k)'
    BY <2>2, <2>3, <2>4, <2>5 DEF Distinct, Rows
  <2>7. QED
    BY <2>1, <2>6 DEF LinesMatch
<1>13. ResolvedIsStored'
  <2>1. inserts'[c].state = "waiting" /\ \A x \in Callers \ {c} : inserts'[x] = inserts[x]
    BY <1>1, <1>2 DEF BatcherTypeOK
  <2>2. QED
    BY <1>1, <1>2, <2>1 DEF ResolvedIsStored
<1>14. FlushTracks'
  BY <1>1, <1>2 DEF FlushTracks
<1>15. QED
  BY <1>7, <1>10, <1>11, <1>12, <1>13, <1>14 DEF BatcherInv

\* Every table whose marker is not set starts a loop, and no row moves.
LEMMA DrainAllKeeps ==
    ASSUME BatcherInv, DrainAll
    PROVE  /\ buffers' \in [Kinds -> Seq(Callers)] /\ batch' \in [Kinds -> Seq(Callers)]
           /\ drains' \in [Kinds -> {"none", "querying", "ended"}]
           /\ \A k \in Kinds :
                 /\ Line(k)' = Line(k)
                 /\ drains'[k] # "querying" => batch'[k] = <<>>
                 /\ drains[k] # "ended" /\ buffers'[k] # <<>> => drains'[k] = "querying"
<1>1. BatcherTypeOK /\ BatchHasDrain
  BY DEF BatcherInv
<1>2. \A k \in Kinds : /\ buffers'[k] = Drain(k, buffers[k]).buffer
                       /\ batch'[k] = Drain(k, buffers[k]).batch
                       /\ drains'[k] = Drain(k, buffers[k]).drain
  BY DEF DrainAll
<1>3. ASSUME NEW k \in Kinds
      PROVE  LET after == Drain(k, buffers[k])
             IN  /\ after.batch \in Seq(Callers) /\ after.buffer \in Seq(Callers)
                 /\ after.drain \in {"querying", "ended"}
                 /\ after.batch \o after.buffer = batch[k] \o buffers[k]
                 /\ after.drain # "querying" => after.batch = <<>>
                 /\ drains[k] # "ended" /\ after.drain # "querying" => after.buffer = <<>>
  <2>1. buffers[k] \in Seq(Callers)
    BY <1>1 DEF BatcherTypeOK
  <2>2. QED
    BY <1>1, <2>1, DrainKeeps, Zenon
<1>4. ASSUME NEW k \in Kinds
      PROVE  /\ buffers'[k] \in Seq(Callers) /\ batch'[k] \in Seq(Callers)
             /\ drains'[k] \in {"querying", "ended"}
             /\ batch'[k] \o buffers'[k] = batch[k] \o buffers[k]
             /\ drains'[k] # "querying" => batch'[k] = <<>>
             /\ drains[k] # "ended" /\ drains'[k] # "querying" => buffers'[k] = <<>>
  BY <1>2, <1>3, Zenon
<1>5. /\ buffers' = [k \in Kinds |-> buffers'[k]] /\ batch' = [k \in Kinds |-> batch'[k]]
      /\ drains' = [k \in Kinds |-> drains'[k]]
  BY DEF DrainAll
<1>6. /\ buffers' \in [Kinds -> Seq(Callers)] /\ batch' \in [Kinds -> Seq(Callers)]
      /\ drains' \in [Kinds -> {"none", "querying", "ended"}]
  BY <1>4, <1>5
<1>7. QED
  BY <1>4, <1>6 DEF Line

\* A timer or a flush that drains every table.
LEMMA DrainAllStep ==
    ASSUME BatcherInv, DrainAll, UNCHANGED <<inserts, stored, rejects>>, timer' = FALSE,
           \/ flushing = "no" /\ flushing' = "no" /\ ~InMicrotasks /\ UNCHANGED awaited
           \/ flushing' = "waiting" /\ awaited' = Kinds
    PROVE  BatcherInv'
<1>1. /\ BatcherTypeOK /\ LinesMatch /\ ResolvedIsStored
      /\ buffers' \in [Kinds -> Seq(Callers)] /\ batch' \in [Kinds -> Seq(Callers)]
      /\ drains' \in [Kinds -> {"none", "querying", "ended"}]
      /\ \A k \in Kinds :
            /\ Line(k)' = Line(k)
            /\ drains'[k] # "querying" => batch'[k] = <<>>
            /\ drains[k] # "ended" /\ buffers'[k] # <<>> => drains'[k] = "querying"
  BY DrainAllKeeps DEF BatcherInv
<1>2. BatcherTypeOK'
  BY <1>1 DEF BatcherTypeOK
<1>3. RowsCovered'
  BY <1>1 DEF RowsCovered, InMicrotasks
<1>4. BatchHasDrain'
  BY <1>1 DEF BatchHasDrain
<1>5. LinesMatch'
  <2>1. ASSUME NEW k \in Kinds PROVE Distinct(Line(k))' /\ Rows(Line(k))' = Waiting(k)'
    <3>1. Line(k)' = Line(k) /\ Waiting(k)' = Waiting(k)
      BY <1>1 DEF Waiting
    <3>2. QED
      BY <1>1, <3>1 DEF LinesMatch, Distinct, Rows
  <2>2. QED
    BY <2>1 DEF LinesMatch
<1>6. ResolvedIsStored'
  BY <1>1 DEF ResolvedIsStored
<1>7. FlushTracks'
  BY DEF FlushTracks
<1>8. QED
  BY <1>2, <1>3, <1>4, <1>5, <1>6, <1>7 DEF BatcherInv

\* The statement of a table ends: its callers learn the outcome, and the loop
\* goes on with what has come since.
LEMMA SettleStep ==
    ASSUME BatcherInv, NEW k \in Kinds, NEW outcome \in {"resolved", "rejected"}, Settle(k, outcome),
           \/ stored' = [stored EXCEPT ![k] = Upserted(k)]
           \/ stored' = stored /\ outcome = "rejected",
           rejects' \in 0..MaxRejects
    PROVE  BatcherInv'
<1> DEFINE turn == LoopTurn(k, buffers[k])
<1>1. /\ BatcherTypeOK /\ RowsCovered /\ BatchHasDrain /\ LinesMatch /\ ResolvedIsStored /\ FlushTracks
      /\ buffers[k] \in Seq(Callers) /\ batch[k] \in Seq(Callers)
  BY DEF BatcherInv, BatcherTypeOK
<1>2. /\ drains[k] = "querying"
      /\ inserts' = [c \in Callers |->
                       IF c \in Rows(batch[k]) THEN [inserts[c] EXCEPT !.state = outcome] ELSE inserts[c]]
      /\ buffers' = [buffers EXCEPT ![k] = turn.buffer]
      /\ batch' = [batch EXCEPT ![k] = turn.batch]
      /\ drains' = [drains EXCEPT ![k] = turn.drain]
      /\ UNCHANGED <<timer, flushing, awaited>>
  BY DEF Settle
<1>3. /\ turn.batch \in Seq(Callers) /\ turn.buffer \in Seq(Callers)
      /\ turn.batch \o turn.buffer = buffers[k]
      /\ turn.drain = IF buffers[k] = <<>> THEN "ended" ELSE "querying"
      /\ buffers[k] = <<>> => turn.batch = <<>> /\ turn.buffer = <<>>
  BY <1>1, TurnSplits
<1> HIDE DEF turn
<1>4. /\ buffers'[k] = turn.buffer /\ batch'[k] = turn.batch /\ drains'[k] = turn.drain
      /\ \A j \in Kinds \ {k} : buffers'[j] = buffers[j] /\ batch'[j] = batch[j] /\ drains'[j] = drains[j]
  BY <1>1, <1>2 DEF BatcherTypeOK
<1>5. ASSUME NEW c \in Callers
      PROVE  inserts'[c] = IF c \in Rows(batch[k]) THEN [inserts[c] EXCEPT !.state = outcome] ELSE inserts[c]
  BY <1>2
<1>6. \A c \in Callers : /\ inserts'[c].kind = inserts[c].kind /\ inserts'[c].count = inserts[c].count
                         /\ inserts'[c].state = IF c \in Rows(batch[k]) THEN outcome ELSE inserts[c].state
  BY <1>1, <1>5 DEF BatcherTypeOK
<1>7. /\ stored' \in [Kinds -> 0..MaxCount]
      /\ \A j \in Kinds : stored'[j] >= stored[j]
      /\ outcome = "resolved" => \A c \in Rows(batch[k]) : stored'[k] >= inserts[c].count
  <2>1. /\ Upserted(k) \in 0..MaxCount /\ Upserted(k) >= stored[k]
        /\ \A c \in Rows(batch[k]) : Upserted(k) >= inserts[c].count
    BY <1>1, UpsertKeepsLargest
  <2>2. stored \in [Kinds -> 0..MaxCount] /\ MaxCount \in Nat
    BY <1>1, BatcherAssumption DEF BatcherTypeOK
  <2>3. QED
    BY <2>1, <2>2
<1>8. BatcherTypeOK'
  <2>1. /\ buffers' \in [Kinds -> Seq(Callers)] /\ batch' \in [Kinds -> Seq(Callers)]
        /\ drains' \in [Kinds -> {"none", "querying", "ended"}]
    BY <1>1, <1>2, <1>3 DEF BatcherTypeOK
  <2>2. inserts' \in [Callers -> [state : {"none", "waiting", "resolved", "rejected"},
                                  kind : Kinds, count : 0..MaxCount]]
    BY <1>1, <1>2 DEF BatcherTypeOK
  <2>3. QED
    BY <1>1, <1>2, <1>7, <2>1, <2>2 DEF BatcherTypeOK
<1>9. RowsCovered'
  BY <1>1, <1>2, <1>3, <1>4 DEF RowsCovered
<1>10. BatchHasDrain'
  BY <1>1, <1>3, <1>4 DEF BatchHasDrain
<1>11. Rows(batch[k]) \subseteq Waiting(k)
  <2>1. Rows(batch[k]) \subseteq Rows(Line(k))
    <3>1. /\ \A i \in 1..Len(batch[k]) : i \in 1..(Len(batch[k]) + Len(buffers[k])) /\ i <= Len(batch[k])
          /\ DOMAIN batch[k] = 1..Len(batch[k])
      <4>1. Len(batch[k]) \in Nat /\ Len(buffers[k]) \in Nat /\ DOMAIN batch[k] = 1..Len(batch[k])
        BY <1>1, LenProperties
      <4>2. \A m, n \in Nat : \A i \in 1..m : i \in 1..(m + n) /\ i <= m
        OBVIOUS
      <4>3. QED
        BY <4>1, <4>2
    <3>2. DOMAIN Line(k) = 1..(Len(batch[k]) + Len(buffers[k]))
      BY <1>1, ConcatProperties, LenProperties DEF Line
    <3>3. \A i \in 1..Len(batch[k]) : Line(k)[i] = batch[k][i]
      BY <1>1, <3>1, ConcatProperties DEF Line
    <3>4. QED
      BY <3>1, <3>2, <3>3 DEF Rows
  <2>2. QED
    BY <1>1, <2>1 DEF LinesMatch
<1>12. LinesMatch'
  <2>1. ASSUME NEW j \in Kinds \ {k} PROVE Distinct(Line(j))' /\ Rows(Line(j))' = Waiting(j)'
    <3>1. Line(j)' = Line(j)
      BY <1>4 DEF Line
    <3>2. Waiting(j)' = Waiting(j)
      BY <1>6, <1>11 DEF Waiting
    <3>3. QED
      BY <1>1, <3>1, <3>2 DEF LinesMatch, Distinct, Rows
  <2>2. Line(k)' = buffers[k]
    BY <1>3, <1>4 DEF Line
  <2>3. Distinct(Line(k)) /\ Rows(Line(k)) = Waiting(k)
    BY <1>1 DEF LinesMatch
  <2>4. Distinct(buffers[k]) /\ Rows(buffers[k]) = Waiting(k) \ Rows(batch[k])
    BY <1>1, <2>3, SuffixDistinct DEF Line
  <2>5. Waiting(k)' = Waiting(k) \ Rows(batch[k])
    BY <1>6 DEF Waiting
  <2>6. Distinct(Line(k))' /\ Rows(Line(k))' = Waiting(k)'
    BY <2>2, <2>4, <2>5 DEF Distinct, Rows
  <2>7. QED
    BY <2>1, <2>6 DEF LinesMatch
<1>13. ResolvedIsStored'
  <2> SUFFICES ASSUME NEW c \in Callers, inserts'[c].state = "resolved"
               PROVE  stored'[inserts'[c].kind] >= inserts'[c].count
    BY DEF ResolvedIsStored
  <2>1. inserts[c].kind \in Kinds /\ inserts[c].count \in 0..MaxCount /\ stored \in [Kinds -> 0..MaxCount]
        /\ MaxCount \in Nat
    BY <1>1, BatcherAssumption DEF BatcherTypeOK
  <2>2. CASE c \in Rows(batch[k])
    <3>1. outcome = "resolved" /\ inserts[c].kind = k
      BY <1>6, <1>11, <2>2 DEF Waiting
    <3>2. QED
      BY <1>6, <1>7, <2>2, <3>1
  <2>3. CASE c \notin Rows(batch[k])
    <3>1. inserts[c].state = "resolved"
      BY <1>6, <2>3
    <3>2. stored[inserts[c].kind] >= inserts[c].count
      BY <1>1, <3>1 DEF ResolvedIsStored
    <3>3. stored'[inserts[c].kind] >= stored[inserts[c].kind]
      BY <1>7, <2>1
    <3>4. QED
      BY <1>6, <1>7, <2>1, <3>2, <3>3
  <2>4. QED
    BY <2>2, <2>3
<1>14. FlushTracks'
  BY <1>1, <1>2, <1>4 DEF FlushTracks, BatcherTypeOK
<1>15. QED
  BY <1>8, <1>9, <1>10, <1>12, <1>13, <1>14 DEF BatcherInv

LEMMA Unmoved ==
    ASSUME LinesMatch, UNCHANGED <<buffers, batch, inserts>>
    PROVE  LinesMatch'
<1>1. ASSUME NEW k \in Kinds PROVE Distinct(Line(k))' /\ Rows(Line(k))' = Waiting(k)'
  <2>1. Line(k)' = Line(k) /\ Waiting(k)' = Waiting(k)
    BY DEF Line, Waiting
  <2>2. QED
    BY <2>1 DEF LinesMatch, Distinct, Rows
<1>2. QED
  BY <1>1 DEF LinesMatch

\* The marker is reset, or the flush returns.
LEMMA EndStep ==
    ASSUME BatcherInv, (\E k \in Kinds : ResetDrain(k)) \/ FlushDone
    PROVE  BatcherInv'
<1>1. /\ BatcherTypeOK /\ RowsCovered /\ BatchHasDrain /\ LinesMatch /\ ResolvedIsStored /\ FlushTracks
  BY DEF BatcherInv
<1>2. UNCHANGED <<buffers, batch, timer, inserts, stored, rejects>>
  BY DEF ResetDrain, FlushDone
<1>3. BatcherTypeOK' /\ RowsCovered' /\ BatchHasDrain' /\ FlushTracks'
  <2>1. ASSUME NEW k \in Kinds, ResetDrain(k) PROVE BatcherTypeOK' /\ RowsCovered' /\ BatchHasDrain' /\ FlushTracks'
    <3>1. /\ drains[k] = "ended" /\ drains' = [drains EXCEPT ![k] = "none"] /\ drains'[k] = "none"
          /\ \A j \in Kinds \ {k} : drains'[j] = drains[j]
          /\ awaited' = awaited \ {k} /\ flushing' = flushing
      BY <1>1, <2>1 DEF ResetDrain, BatcherTypeOK
    <3>2. BatcherTypeOK'
      BY <1>1, <1>2, <3>1 DEF BatcherTypeOK
    <3>3. RowsCovered' /\ BatchHasDrain'
      BY <1>1, <1>2, <3>1 DEF RowsCovered, BatchHasDrain
    <3>4. FlushTracks'
      BY <1>1, <1>2, <3>1 DEF FlushTracks
    <3>5. QED
      BY <3>2, <3>3, <3>4
  <2>2. CASE FlushDone
    <3>1. /\ flushing = "waiting" /\ flushing' = "done" /\ awaited = {} /\ \A k \in Kinds : buffers[k] = <<>>
          /\ UNCHANGED <<drains, awaited>>
      BY <2>2 DEF FlushDone
    <3>2. BatcherTypeOK'
      BY <1>1, <1>2, <3>1 DEF BatcherTypeOK
    <3>3. QED
      BY <1>1, <1>2, <3>1, <3>2 DEF RowsCovered, BatchHasDrain, FlushTracks
  <2>3. QED
    BY <2>1, <2>2
<1>4. LinesMatch'
  BY <1>1, <1>2, Unmoved
<1>5. ResolvedIsStored'
  BY <1>1, <1>2 DEF ResolvedIsStored
<1>6. QED
  BY <1>3, <1>4, <1>5 DEF BatcherInv

LEMMA BatcherStep == BatcherInv /\ [BatcherNext]_batcherVars => BatcherInv'
<1> SUFFICES ASSUME BatcherInv, [BatcherNext]_batcherVars PROVE BatcherInv'
  OBVIOUS
<1>1. CASE \E c \in Callers, k \in Kinds, n \in 1..MaxCount : EnqueueRow(c, k, n)
  BY <1>1, EnqueueStep
<1>2. CASE TimerFires
  <2>1. flushing = "no"
    BY <1>2 DEF TimerFires, BatcherInv, FlushTracks
  <2>2. QED
    BY <1>2, <2>1, DrainAllStep DEF TimerFires
<1>3. ASSUME NEW k \in Kinds, StatementDone(k) PROVE BatcherInv'
  <2>1. rejects' \in 0..MaxRejects
    BY <1>3 DEF StatementDone, BatcherInv, BatcherTypeOK
  <2>2. QED
    BY <1>3, <2>1, SettleStep DEF StatementDone
<1>4. ASSUME NEW k \in Kinds, StatementFails(k) PROVE BatcherInv'
  <2>1. rejects' \in 0..MaxRejects
    BY <1>4, BatcherAssumption DEF StatementFails, BatcherInv, BatcherTypeOK
  <2>2. \/ stored' = [stored EXCEPT ![k] = Upserted(k)]
        \/ stored' = stored
    BY <1>4 DEF StatementFails
  <2>3. Settle(k, "rejected")
    BY <1>4 DEF StatementFails
  <2>4. QED
    BY <2>1, <2>2, <2>3, SettleStep
<1>5. CASE (\E k \in Kinds : ResetDrain(k)) \/ FlushDone
  BY <1>5, EndStep
<1>6. CASE Flush
  BY <1>6, DrainAllStep DEF Flush
<1>7. CASE UNCHANGED batcherVars
  <2>1. UNCHANGED <<buffers, batch, drains, timer, inserts, stored, flushing, awaited, rejects>>
    BY <1>7 DEF batcherVars
  <2>2. BatcherTypeOK' /\ RowsCovered' /\ BatchHasDrain' /\ ResolvedIsStored' /\ FlushTracks'
    BY <2>1 DEF BatcherInv, BatcherTypeOK, RowsCovered, BatchHasDrain, ResolvedIsStored, FlushTracks
  <2>3. LinesMatch'
    BY <2>1, Unmoved DEF BatcherInv
  <2>4. QED
    BY <2>2, <2>3 DEF BatcherInv
<1>8. QED
  BY <1>1, <1>2, <1>3, <1>4, <1>5, <1>6, <1>7 DEF BatcherNext

LEMMA BatcherInvImpliesSound == BatcherInv => BatcherSound
<1> SUFFICES ASSUME BatcherInv PROVE BatcherSound
  OBVIOUS
<1>1. /\ BatcherTypeOK /\ RowsCovered /\ BatchHasDrain /\ LinesMatch /\ ResolvedIsStored /\ FlushTracks
  BY DEF BatcherInv
<1>2. OneRowPerCaller
  <2> SUFFICES ASSUME NEW c \in Callers, NEW k \in Kinds
               PROVE  Cardinality({i \in DOMAIN Line(k) : Line(k)[i] = c})
                        = IF inserts[c].state = "waiting" /\ inserts[c].kind = k THEN 1 ELSE 0
    BY DEF OneRowPerCaller, Line
  <2>1. Line(k) \in Seq(Callers)
    BY <1>1, ConcatProperties DEF Line, BatcherTypeOK
  <2>2. Distinct(Line(k)) /\ Rows(Line(k)) = Waiting(k)
    BY <1>1 DEF LinesMatch
  <2>3. c \in Waiting(k) <=> inserts[c].state = "waiting" /\ inserts[c].kind = k
    BY DEF Waiting
  <2>4. Cardinality({i \in DOMAIN Line(k) : Line(k)[i] = c}) = IF c \in Rows(Line(k)) THEN 1 ELSE 0
    BY <2>1, <2>2, OccursOnce
  <2>5. QED
    BY <2>2, <2>3, <2>4
<1>3. FlushedIsSettled
  <2> SUFFICES ASSUME flushing = "done"
               PROVE  /\ \A k \in Kinds : buffers[k] = <<>> /\ batch[k] = <<>>
                      /\ \A c \in Callers : inserts[c].state # "waiting"
    BY DEF FlushedIsSettled
  <2>1. \A k \in Kinds : buffers[k] = <<>> /\ batch[k] = <<>>
    BY <1>1 DEF FlushTracks, BatchHasDrain
  <2>2. ASSUME NEW k \in Kinds PROVE Waiting(k) = {}
    <3>1. <<>> \o <<>> = <<>> /\ Rows(<<>>) = {}
      BY ConcatEmptySeq, EmptySeq DEF Rows
    <3>2. Line(k) = <<>>
      BY <2>1, <3>1 DEF Line
    <3>3. QED
      BY <1>1, <3>1, <3>2 DEF LinesMatch
  <2>3. \A c \in Callers : inserts[c].kind \in Kinds
    BY <1>1 DEF BatcherTypeOK
  <2>4. QED
    BY <2>1, <2>2, <2>3 DEF Waiting
<1>4. QED
  BY <1>1, <1>2, <1>3 DEF BatcherSound

\* Whatever inserts, timer, drains, failing statements and a flush do: each row
\* is in one place and something will write it, a resolved insert is stored, and
\* a flush leaves nothing behind (MysqlHistoryWriteBatcher).
THEOREM BatcherSoundHolds == BatcherSpec => []BatcherSound
<1>1. BatcherSpec => []BatcherInv
  BY BatcherInitInv, BatcherStep, PTL DEF BatcherSpec
<1>2. QED
  BY <1>1, BatcherInvImpliesSound, PTL

-----------------------------------------------------------------------------
(* The Map of epochs                                                       *)

EpochIn(s, d) ==
    IF \E i \in DOMAIN s : s[i].device = d THEN s[CHOOSE i \in DOMAIN s : s[i].device = d].epoch ELSE 0

LEMMA EpochOf ==
    ASSUME NEW s \in Seq(EpochEntries), OneOfDevice(s), NEW d \in Devices
    PROVE  /\ EpochIn(s, d) \in Nat
           /\ \A i \in 1..Len(s) : s[i].device = d => EpochIn(s, d) = s[i].epoch
           /\ (\A i \in 1..Len(s) : s[i].device # d) => EpochIn(s, d) = 0
<1>1. DOMAIN s = 1..Len(s)
  BY LenProperties
<1>2. \A i \in 1..Len(s) : s[i].device \in Devices /\ s[i].epoch \in Nat
  <2>1. \A i \in 1..Len(s) : s[i] \in EpochEntries
    BY ElementOfSeq
  <2>2. QED
    BY <2>1 DEF EpochEntries
<1>3. ASSUME NEW i \in 1..Len(s), s[i].device = d PROVE EpochIn(s, d) = s[i].epoch
  <2> DEFINE at == CHOOSE j \in DOMAIN s : s[j].device = d
  <2>1. at \in DOMAIN s /\ s[at].device = d
    BY <1>1, <1>3
  <2>2. EpochIn(s, d) = s[at].epoch
    BY <1>1, <1>3 DEF EpochIn
  <2> HIDE DEF at
  <2>3. at = i
    BY <1>1, <1>3, <2>1 DEF OneOfDevice
  <2>4. QED
    BY <2>2, <2>3
<1>4. (\A i \in 1..Len(s) : s[i].device # d) => EpochIn(s, d) = 0
  BY <1>1 DEF EpochIn
<1>5. EpochIn(s, d) \in Nat
  <2>1. CASE \E i \in 1..Len(s) : s[i].device = d
    BY <1>2, <1>3, <2>1
  <2>2. QED
    BY <1>4, <2>1
<1>6. QED
  BY <1>3, <1>4, <1>5

\* A Map of distinct devices is no longer than there are devices.
LEMMA EpochsBounded ==
    ASSUME NEW s \in Seq(EpochEntries), OneOfDevice(s)
    PROVE  Len(s) <= Cardinality(Devices)
<1> DEFINE f == [i \in 1..Len(s) |-> s[i].device]
<1>1. Len(s) \in Nat /\ \A i \in 1..Len(s) : s[i].device \in Devices
  <2>1. \A i \in 1..Len(s) : s[i] \in EpochEntries
    BY ElementOfSeq
  <2>2. QED
    BY <2>1, LenProperties DEF EpochEntries
<1>2. f \in Injection(1..Len(s), Devices)
  <2>1. f \in [1..Len(s) -> Devices] /\ \A i, j \in 1..Len(s) : f[i] = f[j] => i = j
    BY <1>1 DEF OneOfDevice
  <2>2. QED
    BY <2>1, Fun_IsInj
<1>3. IsFiniteSet(Devices) /\ Cardinality(Devices) \in Nat
  BY CachedHistoryAssumption, FS_CardinalityType
<1>4. Cardinality(1..Len(s)) <= Cardinality(Devices)
  BY <1>2, <1>3, FS_Injection
<1>5. Cardinality(1..Len(s)) = Len(s)
  <2>1. Cardinality(1..Len(s)) = IF 1 > Len(s) THEN 0 ELSE Len(s) - 1 + 1
    BY <1>1, FS_Interval
  <2>2. QED
    BY <1>1, <2>1
<1>6. QED
  BY <1>4, <1>5

\* A bump moves one device on, and forgets none while all fit.
LEMMA BumpedMoves ==
    ASSUME epochs \in Seq(EpochEntries), EpochsDistinct, Cardinality(Devices) <= MaxEpochs,
           NEW d \in Devices, epochs' = Bumped(d)
    PROVE  /\ epochs' \in Seq(EpochEntries) /\ EpochsDistinct'
           /\ epoch(d)' = epoch(d) + 1
           /\ \A c \in Devices \ {d} : epoch(c)' = epoch(c)
<1> DEFINE next == [device |-> d, epoch |-> epoch(d) + 1]
           changed == [i \in DOMAIN epochs |-> IF epochs[i].device = d THEN next ELSE epochs[i]]
<1>1. DOMAIN epochs = 1..Len(epochs) /\ Len(epochs) \in Nat
  BY LenProperties
<1>2. \A i \in 1..Len(epochs) : epochs[i] \in EpochEntries /\ epochs[i].device \in Devices
  <2>1. \A i \in 1..Len(epochs) : epochs[i] \in EpochEntries
    BY ElementOfSeq
  <2>2. QED
    BY <2>1 DEF EpochEntries
<1>a. OneOfDevice(epochs) /\ \A c \in Devices : epoch(c) = EpochIn(epochs, c)
  BY DEF EpochsDistinct, epoch, EpochIn
<1>b. /\ \A c \in Devices : epoch(c) \in Nat
      /\ \A c \in Devices, i \in 1..Len(epochs) : epochs[i].device = c => epoch(c) = epochs[i].epoch
      /\ \A c \in Devices : (\A i \in 1..Len(epochs) : epochs[i].device # c) => epoch(c) = 0
  BY <1>a, EpochOf
<1>3. next \in EpochEntries /\ next.device = d /\ next.epoch = epoch(d) + 1
  BY <1>b DEF EpochEntries
<1>c. \A c \in Devices : epoch(c)' = EpochIn(epochs', c)
  BY DEF epoch, EpochIn
<1>d. ASSUME epochs' \in Seq(EpochEntries), OneOfDevice(epochs')
      PROVE  /\ EpochsDistinct'
             /\ \A c \in Devices, i \in 1..Len(epochs') : epochs'[i].device = c => epoch(c)' = epochs'[i].epoch
             /\ \A c \in Devices : (\A i \in 1..Len(epochs') : epochs'[i].device # c) => epoch(c)' = 0
  <2>1. EpochsDistinct'
    BY <1>d DEF EpochsDistinct
  <2>2. /\ \A c \in Devices, i \in 1..Len(epochs') : epochs'[i].device = c => EpochIn(epochs', c) = epochs'[i].epoch
        /\ \A c \in Devices : (\A i \in 1..Len(epochs') : epochs'[i].device # c) => EpochIn(epochs', c) = 0
    BY <1>d, EpochOf
  <2>3. QED
    BY <1>c, <2>1, <2>2
<1>4. MaxEpochs \in Nat /\ Cardinality(Devices) \in Nat
  BY CachedHistoryAssumption, FS_CardinalityType
<1>5. CASE \E i \in DOMAIN epochs : epochs[i].device = d
  <2>1. changed \in Seq(EpochEntries) /\ Len(changed) = Len(epochs)
    <3>1. \A i \in 1..Len(epochs) : changed[i] \in EpochEntries
      BY <1>1, <1>2, <1>3
    <3>2. DOMAIN changed = 1..Len(epochs)
      BY <1>1
    <3> HIDE DEF changed, next
    <3>3. changed = [i \in 1..Len(epochs) |-> changed[i]]
      BY <1>1, <3>2 DEF changed
    <3>4. QED
      BY <1>1, <3>1, <3>3, IsASeq, LenProperties
  <2>2. \A i \in 1..Len(epochs) :
            /\ changed[i].device = epochs[i].device
            /\ epochs[i].device = d => changed[i] = next
            /\ epochs[i].device # d => changed[i] = epochs[i]
    BY <1>1, <1>3
  <2> HIDE DEF changed
  <2>3. OneOfDevice(changed)
    BY <2>1, <2>2, <1>a DEF OneOfDevice
  <2>4. Len(changed) <= Cardinality(Devices) /\ Len(changed) \in Nat
    BY <1>1, <2>1, <2>3, EpochsBounded
  <2>5. epochs' = changed
    BY <1>4, <1>5, <2>4 DEF Bumped, changed
  <2>6. epochs' \in Seq(EpochEntries) /\ OneOfDevice(epochs')
    BY <2>1, <2>3, <2>5
  <2>7. /\ EpochsDistinct'
        /\ \A c \in Devices, i \in 1..Len(epochs') : epochs'[i].device = c => epoch(c)' = epochs'[i].epoch
        /\ \A c \in Devices : (\A i \in 1..Len(epochs') : epochs'[i].device # c) => epoch(c)' = 0
    BY <2>6, <1>d
  <2>8. PICK i \in 1..Len(epochs) : epochs[i].device = d
    BY <1>1, <1>5
  <2>9. epoch(d)' = epoch(d) + 1
    BY <1>3, <2>1, <2>2, <2>5, <2>7, <2>8
  <2>10. ASSUME NEW c \in Devices \ {d} PROVE epoch(c)' = epoch(c)
    <3>1. CASE \E j \in 1..Len(epochs) : epochs[j].device = c
      <4>1. PICK j \in 1..Len(epochs) : epochs[j].device = c
        BY <3>1
      <4>2. changed[j] = epochs[j]
        BY <2>2, <4>1
      <4>3. epoch(c)' = epochs[j].epoch
        BY <2>1, <2>5, <2>7, <4>1, <4>2
      <4>4. QED
        BY <1>b, <4>1, <4>3
    <3>2. CASE \A j \in 1..Len(epochs) : epochs[j].device # c
      <4>1. \A j \in 1..Len(epochs') : epochs'[j].device # c
        BY <2>1, <2>2, <2>5, <3>2
      <4>2. QED
        BY <1>b, <2>7, <3>2, <4>1
    <3>3. QED
      BY <3>1, <3>2
  <2>11. QED
    BY <2>6, <2>7, <2>9, <2>10
<1>6. CASE ~\E i \in DOMAIN epochs : epochs[i].device = d
  <2> DEFINE longer == Append(epochs, next)
  <2>1. /\ longer \in Seq(EpochEntries) /\ Len(longer) = Len(epochs) + 1
        /\ \A i \in 1..Len(epochs) : longer[i] = epochs[i]
        /\ longer[Len(epochs) + 1] = next
    BY <1>3, AppendProperties
  <2>2. \A i \in 1..Len(epochs) : epochs[i].device # d
    BY <1>1, <1>6
  <2> HIDE DEF longer, next
  <2>3. \A i \in 1..Len(longer) : i \in 1..Len(epochs) \/ i = Len(epochs) + 1
    BY <1>1, <2>1
  <2>4. OneOfDevice(longer)
    <3> SUFFICES ASSUME NEW i \in 1..Len(longer), NEW j \in 1..Len(longer), longer[i].device = longer[j].device
                 PROVE  i = j
      BY DEF OneOfDevice
    <3>1. CASE i \in 1..Len(epochs) /\ j \in 1..Len(epochs)
      BY <1>a, <2>1, <3>1 DEF OneOfDevice
    <3>2. CASE i = Len(epochs) + 1 /\ j \in 1..Len(epochs)
      BY <1>3, <2>1, <2>2, <3>2
    <3>3. CASE i \in 1..Len(epochs) /\ j = Len(epochs) + 1
      BY <1>3, <2>1, <2>2, <3>3
    <3>4. QED
      BY <2>3, <3>1, <3>2, <3>3
  <2>5. Len(longer) <= Cardinality(Devices) /\ Len(longer) \in Nat
    BY <1>1, <2>1, <2>4, EpochsBounded
  <2>6. epochs' = longer
    BY <1>4, <1>6, <2>5 DEF Bumped, longer, next
  <2>7. epochs' \in Seq(EpochEntries) /\ OneOfDevice(epochs')
    BY <2>1, <2>4, <2>6
  <2>8. /\ EpochsDistinct'
        /\ \A c \in Devices, i \in 1..Len(epochs') : epochs'[i].device = c => epoch(c)' = epochs'[i].epoch
        /\ \A c \in Devices : (\A i \in 1..Len(epochs') : epochs'[i].device # c) => epoch(c)' = 0
    BY <2>7, <1>d
  <2>9. epoch(d)' = epoch(d) + 1
    <3>1. Len(epochs) + 1 \in 1..Len(epochs')
      BY <1>1, <2>1, <2>6
    <3>2. QED
      BY <1>3, <2>1, <2>6, <2>8, <3>1
  <2>10. ASSUME NEW c \in Devices \ {d} PROVE epoch(c)' = epoch(c)
    <3>1. CASE \E j \in 1..Len(epochs) : epochs[j].device = c
      <4>1. PICK j \in 1..Len(epochs) : epochs[j].device = c
        BY <3>1
      <4>2. j \in 1..Len(epochs') /\ epochs'[j] = epochs[j]
        BY <1>1, <2>1, <2>6
      <4>3. epoch(c)' = epochs[j].epoch
        BY <2>8, <4>1, <4>2
      <4>4. QED
        BY <1>b, <4>1, <4>3
    <3>2. CASE \A j \in 1..Len(epochs) : epochs[j].device # c
      <4>1. \A j \in 1..Len(epochs') : epochs'[j].device # c
        BY <1>3, <2>1, <2>3, <2>6, <3>2
      <4>2. QED
        BY <1>b, <2>8, <3>2, <4>1
    <3>3. QED
      BY <3>1, <3>2
  <2>11. QED
    BY <2>7, <2>8, <2>9, <2>10
<1>7. QED
  BY <1>5, <1>6

-----------------------------------------------------------------------------
(* The caches: an entry of the next cache was there or has just been put in *)

LEMMA WithoutFrom ==
    ASSUME NEW cache \in Seq(Entries), NEW key
    PROVE  /\ Without(cache, key) \in Seq(Entries)
           /\ \A i \in 1..Len(Without(cache, key)) : \E j \in 1..Len(cache) : Without(cache, key)[i] = cache[j]
<1>1. DOMAIN cache = 1..Len(cache) /\ Len(cache) \in Nat /\ \A i \in 1..Len(cache) : cache[i] \in Entries
  BY ElementOfSeq, LenProperties
<1>2. CASE \E i \in DOMAIN cache : cache[i].key = key
  <2> DEFINE at == CHOOSE i \in DOMAIN cache : cache[i].key = key
             front == SubSeq(cache, 1, at - 1)
             back == SubSeq(cache, at + 1, Len(cache))
  <2>1. at \in 1..Len(cache)
    BY <1>1, <1>2
  <2>2. Without(cache, key) = front \o back
    BY <1>2 DEF Without
  <2> HIDE DEF at
  <2>3. /\ front \in Seq(Entries) /\ Len(front) = at - 1
        /\ \A i \in 1..(at - 1) : front[i] = cache[i]
    <3>1. 1 \in Int /\ at - 1 \in Int /\ \A i \in 1..(at - 1) : cache[i] \in Entries
      BY <1>1, <2>1
    <3>2. /\ front \in Seq(Entries)
          /\ Len(front) = IF 1 <= at - 1 THEN (at - 1) - 1 + 1 ELSE 0
          /\ \A i \in 1..((at - 1) - 1 + 1) : front[i] = cache[1 + i - 1]
      BY <3>1, SubSeqProperties
    <3>3. QED
      BY <2>1, <3>2
  <2>4. /\ back \in Seq(Entries) /\ Len(back) = Len(cache) - at
        /\ \A i \in 1..(Len(cache) - at) : back[i] = cache[at + i]
    <3>1. at + 1 \in Int /\ Len(cache) \in Int /\ \A i \in (at + 1)..Len(cache) : cache[i] \in Entries
      BY <1>1, <2>1
    <3>2. /\ back \in Seq(Entries)
          /\ Len(back) = IF at + 1 <= Len(cache) THEN Len(cache) - (at + 1) + 1 ELSE 0
          /\ \A i \in 1..(Len(cache) - (at + 1) + 1) : back[i] = cache[(at + 1) + i - 1]
      BY <3>1, SubSeqProperties
    <3>3. at \in Int /\ Len(cache) \in Int /\ at <= Len(cache)
      BY <1>1, <2>1
    <3> HIDE DEF back
    <3>4. Len(back) = Len(cache) - at
      BY <3>2, <3>3
    <3>5. \A i \in 1..(Len(cache) - at) : (at + 1) + i - 1 = at + i /\ i \in 1..(Len(cache) - (at + 1) + 1)
      BY <3>3
    <3>6. \A i \in 1..(Len(cache) - at) : back[i] = cache[at + i]
      BY <3>2, <3>5
    <3>7. QED
      BY <3>2, <3>4, <3>6
  <2> HIDE DEF front, back
  <2>5. /\ front \o back \in Seq(Entries) /\ Len(front \o back) = Len(front) + Len(back)
        /\ \A i \in 1..(Len(front) + Len(back)) :
              (front \o back)[i] = IF i <= Len(front) THEN front[i] ELSE back[i - Len(front)]
    BY <2>3, <2>4, ConcatProperties
  <2>6. ASSUME NEW i \in 1..Len(front \o back) PROVE \E j \in 1..Len(cache) : (front \o back)[i] = cache[j]
    <3>1. CASE i <= at - 1
      BY <1>1, <2>1, <2>3, <2>4, <2>5, <3>1
    <3>2. CASE ~(i <= at - 1)
      <4>1. i - (at - 1) \in 1..(Len(cache) - at) /\ at + (i - (at - 1)) = i + 1 /\ i + 1 \in 1..Len(cache)
        BY <1>1, <2>1, <2>3, <2>4, <2>5, <3>2
      <4>2. (front \o back)[i] = back[i - (at - 1)]
        BY <1>1, <2>1, <2>3, <2>4, <2>5, <3>2
      <4>3. (front \o back)[i] = cache[i + 1]
        BY <2>4, <4>1, <4>2
      <4>4. QED
        BY <4>1, <4>3
    <3>3. QED
      BY <3>1, <3>2
  <2>7. QED
    BY <2>2, <2>5, <2>6
<1>3. CASE ~\E i \in DOMAIN cache : cache[i].key = key
  BY <1>3 DEF Without
<1>4. QED
  BY <1>2, <1>3

LEMMA AppendFrom ==
    ASSUME NEW cache \in Seq(Entries), NEW s \in Seq(Entries), NEW e \in Entries,
           \A i \in 1..Len(s) : \E j \in 1..Len(cache) : s[i] = cache[j]
    PROVE  /\ Append(s, e) \in Seq(Entries) /\ Append(s, e) # <<>>
           /\ \A i \in 1..Len(Append(s, e)) :
                 Append(s, e)[i] = e \/ \E j \in 1..Len(cache) : Append(s, e)[i] = cache[j]
<1>1. /\ Append(s, e) \in Seq(Entries) /\ Append(s, e) # <<>> /\ Len(Append(s, e)) = Len(s) + 1 /\ Len(s) \in Nat
      /\ \A i \in 1..Len(s) : Append(s, e)[i] = s[i]
      /\ Append(s, e)[Len(s) + 1] = e
  BY AppendProperties, LenProperties
<1>2. \A i \in 1..Len(Append(s, e)) : i \in 1..Len(s) \/ i = Len(s) + 1
  BY <1>1
<1>3. QED
  BY <1>1, <1>2

LEMMA GetFrom ==
    ASSUME l1 \in Seq(Entries), NEW key
    PROVE  /\ CacheGet(key) \in Seq(Entries)
           /\ \A i \in 1..Len(CacheGet(key)) : \E j \in 1..Len(l1) : CacheGet(key)[i] = l1[j]
<1> DEFINE rest == Without(l1, key)
           hit == CHOOSE i \in CacheHits(key) : TRUE
<1>1. /\ rest \in Seq(Entries)
      /\ \A i \in 1..Len(rest) : \E j \in 1..Len(l1) : rest[i] = l1[j]
  BY WithoutFrom
<1>2. DOMAIN l1 = 1..Len(l1)
  BY LenProperties
<1>3. CASE CacheHits(key) = {}
  BY <1>1, <1>3 DEF CacheGet
<1>4. CASE CacheHits(key) # {}
  <2>1. hit \in 1..Len(l1) /\ l1[hit] \in Entries
    <3>1. hit \in 1..Len(l1)
      BY <1>2, <1>4 DEF CacheHits
    <3>2. QED
      BY <3>1, ElementOfSeq
  <2>2. CacheGet(key) = Append(rest, l1[hit])
    BY <1>4 DEF CacheGet
  <2> HIDE DEF rest, hit
  <2>3. /\ CacheGet(key) \in Seq(Entries)
        /\ \A i \in 1..Len(CacheGet(key)) :
              CacheGet(key)[i] = l1[hit] \/ \E j \in 1..Len(l1) : CacheGet(key)[i] = l1[j]
    BY <1>1, <2>1, <2>2, AppendFrom
  <2>4. QED
    BY <2>1, <2>3
<1>5. QED
  BY <1>3, <1>4

LEMMA SetFrom ==
    ASSUME l1 \in Seq(Entries), time \in Nat, NEW key \in Keys, NEW value \in Nat
    PROVE  /\ CacheSet(key, value) \in Seq(Entries)
           /\ \A i \in 1..Len(CacheSet(key, value)) :
                 \/ CacheSet(key, value)[i] = [key |-> key, value |-> value, expires |-> time + TTL]
                 \/ \E j \in 1..Len(l1) : CacheSet(key, value)[i] = l1[j]
<1> DEFINE rest == Without(l1, key)
           e == [key |-> key, value |-> value, expires |-> time + TTL]
           full == Append(rest, e)
<1>1. /\ rest \in Seq(Entries)
      /\ \A i \in 1..Len(rest) : \E j \in 1..Len(l1) : rest[i] = l1[j]
  BY WithoutFrom
<1>2. e \in Entries
  BY CachedHistoryAssumption DEF Entries
<1>3. CacheSet(key, value) = IF Len(full) > MaxEntries THEN Tail(full) ELSE full
  BY DEF CacheSet
<1> HIDE DEF rest, e
<1>4. /\ full \in Seq(Entries) /\ full # <<>>
      /\ \A i \in 1..Len(full) : full[i] = e \/ \E j \in 1..Len(l1) : full[i] = l1[j]
  BY <1>1, <1>2, AppendFrom
<1> HIDE DEF full
<1>5. /\ Tail(full) \in Seq(Entries) /\ Len(Tail(full)) = Len(full) - 1 /\ Len(full) \in Nat
      /\ \A i \in 1..Len(Tail(full)) : Tail(full)[i] = full[i + 1]
  BY <1>4, HeadTailProperties, LenProperties
<1>6. \A i \in 1..Len(Tail(full)) : i + 1 \in 1..Len(full)
  BY <1>5
<1>7. \A i \in 1..Len(Tail(full)) : Tail(full)[i] = e \/ \E j \in 1..Len(l1) : Tail(full)[i] = l1[j]
  BY <1>4, <1>5, <1>6
<1>8. /\ CacheSet(key, value) \in Seq(Entries)
      /\ \A i \in 1..Len(CacheSet(key, value)) :
            CacheSet(key, value)[i] = e \/ \E j \in 1..Len(l1) : CacheSet(key, value)[i] = l1[j]
  BY <1>3, <1>4, <1>5, <1>7
<1>9. QED
  BY <1>8 DEF e

-----------------------------------------------------------------------------
(* What every step but a restart keeps                                     *)

LEMMA EpochNat ==
    ASSUME HistoryTypes, EpochsDistinct, NEW d \in Devices
    PROVE  epoch(d) \in Nat
<1>1. epoch(d) = EpochIn(epochs, d)
  BY DEF epoch, EpochIn
<1>2. QED
  BY <1>1, EpochOf DEF HistoryTypes, EpochsDistinct

\* Epochs move on, and while one stands still nothing more is promised of it.
Later ==
    /\ time' >= time /\ blurUntil' = blurUntil
    /\ \A d \in Devices :
          /\ epoch(d)' \in Nat /\ epoch(d) <= epoch(d)'
          /\ epoch(d)' = epoch(d) => published'[d] <= published[d] /\ (d \in emptied' => d \in emptied)

\* A read in the shared cache was there before, or has just made its key.
SharedFrom ==
    \A q \in Readers : readers'[q].state = "shared" =>
        \/ /\ readers[q].state = "shared" /\ readers'[q].key = readers[q].key
           /\ readers'[q].floor <= readers[q].floor /\ (readers'[q].gone => readers[q].gone)
        \/ /\ readers'[q].key[3] = epoch(readers'[q].key[1])
           /\ readers'[q].floor <= published[readers'[q].key[1]]
           /\ readers'[q].gone => readers'[q].key[1] \in emptied

LEMMA ReadsTyped ==
    ASSUME HistoryTypes, NEW q \in Readers
    PROVE  /\ readers[q] \in {NoRead} \cup Reads
           /\ readers[q].state = "none" <=> readers[q] = NoRead
           /\ readers[q].state # "none" =>
                 /\ readers[q] \in Reads /\ readers[q].state \in Stages /\ readers[q].device \in Devices
                 /\ readers[q].key \in Keys /\ readers[q].value \in Nat /\ readers[q].floor \in Nat
                 /\ readers[q].gone \in BOOLEAN /\ readers[q].clear \in BOOLEAN
                 /\ readers[q].window \in Windows /\ readers[q].leader \in Readers
<1>1. readers[q] \in {NoRead} \cup Reads
  BY DEF HistoryTypes
<1>2. \A x \in Reads : /\ x.state \in Stages /\ x.device \in Devices /\ x.key \in Keys /\ x.value \in Nat /\ x.floor \in Nat
                       /\ x.gone \in BOOLEAN /\ x.clear \in BOOLEAN /\ x.window \in Windows /\ x.leader \in Readers
  BY DEF Reads
<1>3. NoRead.state = "none" /\ "none" \notin Stages
  BY DEF NoRead, Stages, Running
<1>4. QED
  BY <1>1, <1>2, <1>3

LEMMA KeyParts == \A k \in Keys : k[1] \in Devices /\ k[2] \in Windows /\ k[3] \in Nat
  BY DEF Keys

LEMMA FreshKept ==
    ASSUME HistoryTypes, EpochsDistinct, HistoryTypes', Later, SharedFrom,
           NEW v \in Nat, NEW k \in Keys, Fresh(v, k)
    PROVE  Fresh(v, k)'
<1>1. k[1] \in Devices /\ k[3] \in Nat
  BY KeyParts
<1>2. epoch(k[1]) \in Nat /\ epoch(k[1])' \in Nat /\ epoch(k[1]) <= epoch(k[1])'
  BY <1>1, EpochNat DEF Later
<1>3. k[3] <= epoch(k[1])
  BY DEF Fresh
<1>4. k[3] <= epoch(k[1])'
  BY <1>1, <1>2, <1>3
<1>5. k[3] = epoch(k[1])' => v >= published'[k[1]] /\ (k[1] \in emptied' => v = 0)
  <2> SUFFICES ASSUME k[3] = epoch(k[1])' PROVE v >= published'[k[1]] /\ (k[1] \in emptied' => v = 0)
    OBVIOUS
  <2>1. k[3] = epoch(k[1]) /\ epoch(k[1])' = epoch(k[1])
    BY <1>1, <1>2, <1>3
  <2>2. v >= published[k[1]] /\ (k[1] \in emptied => v = 0)
    BY <2>1 DEF Fresh
  <2>3. published'[k[1]] <= published[k[1]] /\ (k[1] \in emptied' => k[1] \in emptied)
    BY <1>1, <2>1 DEF Later
  <2>4. published[k[1]] \in Nat /\ published'[k[1]] \in Nat
    BY <1>1 DEF HistoryTypes
  <2>5. QED
    BY <2>2, <2>3, <2>4
<1>6. ASSUME NEW q \in Readers, readers'[q].state = "shared", readers'[q].key = k
      PROVE  v >= readers'[q].floor /\ (readers'[q].gone => v = 0)
  <2>1. readers'[q].floor \in Nat
    <3>1. readers'[q] \in {NoRead} \cup Reads /\ NoRead.state = "none"
      BY DEF HistoryTypes, NoRead
    <3>2. readers'[q] \in Reads
      BY <1>6, <3>1
    <3>3. QED
      BY <3>2 DEF Reads
  <2>2. CASE /\ readers[q].state = "shared" /\ readers'[q].key = readers[q].key
             /\ readers'[q].floor <= readers[q].floor /\ (readers'[q].gone => readers[q].gone)
    <3>1. v >= readers[q].floor /\ (readers[q].gone => v = 0)
      BY <1>6, <2>2 DEF Fresh
    <3>2. readers[q].floor \in Nat
      BY <2>2, ReadsTyped
    <3>3. QED
      BY <2>1, <2>2, <3>1, <3>2
  <2>3. CASE /\ readers'[q].key[3] = epoch(readers'[q].key[1])
             /\ readers'[q].floor <= published[readers'[q].key[1]]
             /\ readers'[q].gone => readers'[q].key[1] \in emptied
    <3>1. v >= published[k[1]] /\ (k[1] \in emptied => v = 0)
      BY <1>6, <2>3 DEF Fresh
    <3>2. published[k[1]] \in Nat
      BY <1>1 DEF HistoryTypes
    <3>3. QED
      BY <1>6, <2>1, <2>3, <3>1, <3>2
  <2>4. QED
    BY <1>6, <2>2, <2>3 DEF SharedFrom
<1>7. QED
  BY <1>4, <1>5, <1>6 DEF Fresh

\* A request that no step of its own touches.
Continues(q) ==
    \/ readers'[q] = NoRead
    \/ /\ readers[q].state # "none" /\ readers'[q].state \in {readers[q].state, "started"}
       /\ readers'[q].device = readers[q].device /\ readers'[q].key = readers[q].key
       /\ readers'[q].value = readers[q].value /\ readers'[q].clear = readers[q].clear
       /\ readers'[q].floor <= readers[q].floor /\ readers'[q].floor <= published'[readers[q].device]
       /\ readers'[q].gone => readers[q].gone /\ rows'[readers[q].device] = 0

LEMMA ReadOkKept ==
    ASSUME HistoryTypes, EpochsDistinct, HistoryTypes', Later, SharedFrom,
           NEW q \in Readers, readers'[q].state # "none", Continues(q), ReadFits(readers[q])
    PROVE  ReadFits(readers[q])'
<1>1. /\ readers[q].state # "none" /\ readers'[q].state \in {readers[q].state, "started"}
      /\ readers'[q].device = readers[q].device /\ readers'[q].key = readers[q].key
      /\ readers'[q].value = readers[q].value /\ readers'[q].clear = readers[q].clear
      /\ readers'[q].floor <= readers[q].floor /\ readers'[q].floor <= published'[readers[q].device]
      /\ readers'[q].gone => readers[q].gone /\ rows'[readers[q].device] = 0
  BY DEF Continues, NoRead
<1>2. PICK d \in Devices, k \in Keys, v \in Nat :
        /\ readers[q].device = d /\ readers[q].key = k /\ readers[q].value = v
        /\ readers[q].floor \in Nat
  BY <1>1, ReadsTyped
<1>3. readers'[q].floor \in Nat /\ readers'[q].gone \in BOOLEAN
  <2>1. readers'[q] \in Reads
    BY DEF HistoryTypes, NoRead
  <2>2. QED
    BY <2>1 DEF Reads
<1>4. time \in Nat /\ time' \in Nat /\ blurUntil \in Nat /\ time' >= time /\ blurUntil' = blurUntil
  BY DEF HistoryTypes, Later
<1>5. epoch(d) \in Nat /\ epoch(d)' \in Nat /\ epoch(d) <= epoch(d)' /\ k[3] \in Nat
  BY <1>2, EpochNat, KeyParts DEF Later
<1>6. /\ readers[q].floor <= published[d] /\ (readers[q].gone => rows[d] = 0) /\ (readers[q].clear => time >= blurUntil)
      /\ readers[q].state \in {"shared", "query", "read"} => k[1] = d /\ k[3] <= epoch(d)
      /\ readers[q].state = "read" => Fresh(v, k)
      /\ readers[q].state = "read" \/ (readers[q].state = "publish" /\ readers[q].clear) =>
            v >= readers[q].floor /\ (readers[q].gone => v = 0)
  BY <1>2 DEF ReadFits
<1>7. readers'[q].clear => time' >= blurUntil'
  BY <1>1, <1>4, <1>6
<1>8. readers'[q].state \in {"shared", "query", "read"} => k[1] = d /\ k[3] <= epoch(d)'
  BY <1>1, <1>5, <1>6
<1>9. readers'[q].state = "read" => Fresh(v, k)'
  BY <1>1, <1>6, FreshKept
<1>10. readers'[q].state = "read" \/ (readers'[q].state = "publish" /\ readers'[q].clear) =>
          v >= readers'[q].floor /\ (readers'[q].gone => v = 0)
  BY <1>1, <1>2, <1>3, <1>6
<1>11. QED
  BY <1>1, <1>2, <1>7, <1>8, <1>9, <1>10 DEF ReadFits

\* Entries stay fresh, and one that is put in was fresh when it was.
LEMMA CachesKept ==
    ASSUME HistoryTypes, EpochsDistinct, HistoryTypes', Later, SharedFrom, CachesFresh,
           \A i \in 1..Len(l1') :
              \/ \E j \in 1..Len(l1) : l1'[i] = l1[j]
              \/ \E v \in Nat, k \in Keys, t \in Nat :
                    l1'[i] = [key |-> k, value |-> v, expires |-> t] /\ (t <= blurUntil \/ Fresh(v, k)),
           \A e \in l2' :
              \/ e \in l2
              \/ \E v \in Nat, k \in Keys : e = [key |-> k, value |-> v, expires |-> time + TTL] /\ Fresh(v, k)
    PROVE  CachesFresh'
<1>1. time \in Nat /\ time' \in Nat /\ blurUntil \in Nat /\ TTL \in Nat /\ time' >= time /\ blurUntil' = blurUntil
  BY CachedHistoryAssumption DEF HistoryTypes, Later
<1>2. ASSUME NEW i \in 1..Len(l1') PROVE l1'[i].expires <= blurUntil' \/ Fresh(l1[i].value, l1[i].key)'
  <2>1. PICK v \in Nat, k \in Keys, t \in Nat :
          l1'[i].key = k /\ l1'[i].value = v /\ l1'[i].expires = t /\ (t <= blurUntil \/ Fresh(v, k))
    <3>1. CASE \E j \in 1..Len(l1) : l1'[i] = l1[j]
      <4>1. PICK j \in 1..Len(l1) : l1'[i] = l1[j]
        BY <3>1
      <4>2. l1[j] \in Entries
        BY ElementOfSeq DEF HistoryTypes
      <4>3. l1[j].key \in Keys /\ l1[j].value \in Nat /\ l1[j].expires \in Nat
        BY <4>2 DEF Entries
      <4>4. l1[j].expires <= blurUntil \/ Fresh(l1[j].value, l1[j].key)
        BY DEF CachesFresh
      <4>5. QED
        BY <4>1, <4>3, <4>4
    <3>2. CASE \E v \in Nat, k \in Keys, t \in Nat :
                 l1'[i] = [key |-> k, value |-> v, expires |-> t] /\ (t <= blurUntil \/ Fresh(v, k))
      BY <3>2
    <3>3. QED
      BY <3>1, <3>2
  <2>2. t <= blurUntil \/ Fresh(v, k)'
    BY <2>1, FreshKept
  <2>3. QED
    BY <1>1, <2>1, <2>2
<1>3. ASSUME NEW e \in l2' PROVE (e.expires + TTL <= blurUntil' \/ Fresh(e.value, e.key)') /\ e.expires <= time' + TTL
  <2>1. PICK v \in Nat, k \in Keys, t \in Nat :
          /\ e.key = k /\ e.value = v /\ e.expires = t /\ t <= time + TTL
          /\ t + TTL <= blurUntil \/ Fresh(v, k)
    <3>1. CASE e \in l2
      <4>1. e.key \in Keys /\ e.value \in Nat /\ e.expires \in Nat
        BY <3>1 DEF HistoryTypes, Entries
      <4>2. (e.expires + TTL <= blurUntil \/ Fresh(e.value, e.key)) /\ e.expires <= time + TTL
        BY <3>1 DEF CachesFresh
      <4>3. QED
        BY <4>1, <4>2
    <3>2. CASE \E v \in Nat, k \in Keys : e = [key |-> k, value |-> v, expires |-> time + TTL] /\ Fresh(v, k)
      BY <1>1, <3>2
    <3>3. QED
      BY <3>1, <3>2
  <2>2. t + TTL <= blurUntil \/ Fresh(v, k)'
    BY <2>1, FreshKept
  <2>3. t <= time' + TTL
    BY <1>1, <2>1
  <2>4. QED
    BY <1>1, <2>1, <2>2, <2>3
<1>4. QED
  BY <1>2, <1>3 DEF CachesFresh

LEMMA WorkKept ==
    ASSUME QueueOk, WorkConserving, UNCHANGED <<waiting, active>>, waiting \in Seq(Readers),
           \A q \in Readers : /\ readers'[q].state \in Running <=> readers[q].state \in Running
                              /\ readers[q].state = "waiting" => readers'[q].state = "waiting"
    PROVE  QueueOk' /\ WorkConserving'
<1>1. \A i \in 1..Len(waiting) : waiting[i] \in Readers
  BY ElementOfSeq
<1>2. QueueOk'
  BY <1>1 DEF QueueOk, Distinct
<1>3. {q \in Readers : readers'[q].state \in Running} = {q \in Readers : readers[q].state \in Running}
  OBVIOUS
<1>4. WorkConserving'
  BY <1>3 DEF WorkConserving
<1>5. QED
  BY <1>2, <1>4

\* A step beside the reads: the caches lose entries or keep them.
LEMMA BesideReads ==
    ASSUME HistoryInv, HistoryTypes', EpochsDistinct', Stored', Later,
           l1' = l1 \/ l1' = <<>>, l2' \subseteq l2, UNCHANGED <<waiting, active>>,
           \A q \in Readers : readers[q].state = "none" => readers'[q] = readers[q],
           \A q \in Readers : readers[q].state # "none" => Continues(q) /\ readers'[q].state = readers[q].state
    PROVE  HistoryInv'
<1>1. HistoryTypes /\ EpochsDistinct /\ Stored /\ CachesFresh /\ ReadsOk /\ QueueOk /\ WorkConserving
  BY DEF HistoryInv
<1>2. SharedFrom
  <2> SUFFICES ASSUME NEW q \in Readers, readers'[q].state = "shared"
               PROVE  /\ readers[q].state = "shared" /\ readers'[q].key = readers[q].key
                      /\ readers'[q].floor <= readers[q].floor /\ (readers'[q].gone => readers[q].gone)
    BY DEF SharedFrom
  <2>1. readers[q].state # "none"
    BY DEF NoRead
  <2>2. QED
    BY <2>1 DEF Continues, NoRead
<1>3. CachesFresh'
  <2>1. \A i \in 1..Len(l1') : \E j \in 1..Len(l1) : l1'[i] = l1[j]
    <3>1. Len(<<>>) = 0 /\ 1..0 = {}
      BY EmptySeq
    <3>2. QED
      BY <3>1
  <2>2. QED
    BY <1>1, <1>2, <2>1, CachesKept
<1>4. ReadsOk'
  <2> SUFFICES ASSUME NEW q \in Readers, readers'[q].state # "none" PROVE ReadFits(readers[q])'
    BY DEF ReadsOk
  <2>1. readers[q].state # "none"
    OBVIOUS
  <2>2. QED
    BY <1>1, <1>2, <2>1, ReadOkKept DEF ReadsOk
<1>5. QueueOk' /\ WorkConserving'
  <2>1. \A q \in Readers : readers'[q].state = readers[q].state
    OBVIOUS
  <2>2. QED
    BY <1>1, <2>1, WorkKept DEF HistoryTypes
<1>6. QED
  BY <1>3, <1>4, <1>5 DEF HistoryInv

-----------------------------------------------------------------------------
(* The writes, the cleanup and the clock                                   *)

\* A request keeps its type when a write lowers what it may still count on.
LEMMA LoweredTyped ==
    ASSUME HistoryTypes, NEW q \in Readers, readers[q].state # "none"
    PROVE  /\ [readers[q] EXCEPT !.gone = FALSE] \in Reads
           /\ [readers[q] EXCEPT !.floor = 0] \in Reads
           /\ \A s \in Stages : [readers[q] EXCEPT !.state = s] \in Reads
<1>1. readers[q] \in Reads
  BY ReadsTyped
<1>2. QED
  BY <1>1 DEF Reads

LEMMA EpochsStand ==
    ASSUME HistoryTypes, EpochsDistinct, UNCHANGED epochs
    PROVE  EpochsDistinct' /\ \A d \in Devices : epoch(d)' = epoch(d) /\ epoch(d) \in Nat
<1>1. EpochsDistinct' /\ \A d \in Devices : epoch(d)' = epoch(d)
  BY DEF EpochsDistinct, OneOfDevice, epoch
<1>2. QED
  BY <1>1, EpochNat

LEMMA StoredStep ==
    ASSUME HistoryInv, NEW w \in Writers, NEW d \in Devices, InsertStored(w, d)
    PROVE  HistoryInv'
<1>1. HistoryTypes /\ EpochsDistinct /\ Stored /\ ReadsOk
  BY DEF HistoryInv
<1>2. /\ rows \in [Devices -> Nat] /\ published \in [Devices -> Nat] /\ insertNo \in Nat
      /\ emptied \in SUBSET Devices /\ readers \in [Readers -> {NoRead} \cup Reads]
  BY <1>1 DEF HistoryTypes
<1>3. /\ insertNo' = insertNo + 1 /\ rows' = [rows EXCEPT ![d] = insertNo + 1] /\ emptied' = emptied \ {d}
      /\ readers' = NoLongerGone(d)
      /\ writers' = [writers EXCEPT ![w] = [state |-> "insert", device |-> d]] \/ writers' = writers
      /\ UNCHANGED <<epochs, published, l1, l2, waiting, active, time, blurUntil, restarts>>
  BY DEF InsertStored, readState
<1>4. /\ rows'[d] = insertNo + 1 /\ \A c \in Devices \ {d} : rows'[c] = rows[c]
      /\ rows' \in [Devices -> Nat]
  BY <1>2, <1>3
<1>5. \A q \in Readers :
         /\ readers[q].state = "none" => readers'[q] = readers[q]
         /\ readers[q].state # "none" /\ readers[q].device # d => readers'[q] = readers[q]
         /\ readers[q].state # "none" /\ readers[q].device = d => readers'[q] = [readers[q] EXCEPT !.gone = FALSE]
  BY <1>3 DEF NoLongerGone
<1>6. readers' \in [Readers -> {NoRead} \cup Reads]
  <2>1. ASSUME NEW q \in Readers PROVE readers'[q] \in {NoRead} \cup Reads
    BY <1>1, <1>2, <1>5, LoweredTyped
  <2>2. readers' = [q \in Readers |-> readers'[q]]
    BY <1>3 DEF NoLongerGone
  <2>3. QED
    BY <2>1, <2>2
<1>7. HistoryTypes'
  <2>1. writers' \in [Writers -> {NoWrite} \cup [state : {"insert", "clear"}, device : Devices]]
    <3> DEFINE Writes == {NoWrite} \cup [state : {"insert", "clear"}, device : Devices]
    <3>1. writers \in [Writers -> Writes] /\ [state |-> "insert", device |-> d] \in Writes
      BY <1>1 DEF HistoryTypes
    <3> HIDE DEF Writes
    <3>2. writers' \in [Writers -> Writes]
      BY <1>3, <3>1
    <3>3. QED
      BY <3>2 DEF Writes
  <2>2. insertNo' \in Nat /\ emptied' \in SUBSET Devices
    BY <1>2, <1>3
  <2>3. QED
    BY <1>1, <1>3, <1>4, <1>6, <2>1, <2>2 DEF HistoryTypes
<1>8. Stored'
  <2>1. ASSUME NEW c \in Devices PROVE published'[c] <= rows'[c] /\ rows'[c] <= insertNo'
    <3>1. published[c] <= rows[c] /\ rows[c] <= insertNo /\ published[c] \in Nat /\ rows[c] \in Nat
      BY <1>1, <1>2 DEF Stored
    <3>2. QED
      BY <1>2, <1>3, <1>4, <3>1
  <2>2. \A c \in emptied' : rows'[c] = 0
    BY <1>1, <1>2, <1>3, <1>4 DEF Stored
  <2>3. QED
    BY <2>1, <2>2 DEF Stored
<1>9. EpochsDistinct' /\ Later
  <2>1. EpochsDistinct' /\ \A c \in Devices : epoch(c)' = epoch(c) /\ epoch(c) \in Nat
    BY <1>1, <1>3, EpochsStand
  <2>2. time' >= time
    BY <1>1, <1>3 DEF HistoryTypes
  <2>3. QED
    BY <1>2, <1>3, <2>1, <2>2 DEF Later
<1>10. ASSUME NEW q \in Readers, readers[q].state # "none"
       PROVE  Continues(q) /\ readers'[q].state = readers[q].state
  <2>1. /\ readers[q] \in Reads /\ readers[q].device \in Devices /\ readers[q].floor \in Nat
        /\ readers[q].gone \in BOOLEAN
    BY <1>1, <1>10, ReadsTyped
  <2>2. readers[q].floor <= published[readers[q].device] /\ (readers[q].gone => rows[readers[q].device] = 0)
    BY <1>1, <1>10 DEF ReadsOk, ReadFits
  <2>3. CASE readers[q].device # d
    <3>1. /\ readers'[q] = readers[q] /\ rows'[readers[q].device] = rows[readers[q].device]
          /\ published'[readers[q].device] = published[readers[q].device]
      BY <1>3, <1>4, <1>5, <1>10, <2>1, <2>3
    <3>2. readers'[q].floor <= readers[q].floor /\ (readers'[q].gone => readers[q].gone /\ rows'[readers[q].device] = 0)
      BY <2>1, <2>2, <3>1
    <3>3. QED
      BY <1>10, <2>2, <3>1, <3>2 DEF Continues
  <2>4. CASE readers[q].device = d
    <3>1. readers'[q] = [readers[q] EXCEPT !.gone = FALSE]
      BY <1>5, <1>10, <2>4
    <3>2. /\ readers'[q].state = readers[q].state /\ readers'[q].device = readers[q].device
          /\ readers'[q].key = readers[q].key /\ readers'[q].value = readers[q].value
          /\ readers'[q].clear = readers[q].clear /\ readers'[q].floor = readers[q].floor /\ readers'[q].gone = FALSE
      BY <2>1, <3>1 DEF Reads
    <3>3. QED
      BY <1>3, <1>10, <2>1, <2>2, <3>2 DEF Continues
  <2>5. QED
    BY <2>3, <2>4
<1>11. QED
  BY <1>3, <1>5, <1>7, <1>8, <1>9, <1>10, BesideReads

\* What an acknowledged write was about.
LEMMA WriteTyped ==
    ASSUME HistoryTypes, NEW w \in Writers, writers[w].state \in {"insert", "clear"}
    PROVE  writers[w].device \in Devices
<1>1. writers[w] \in {NoWrite} \cup [state : {"insert", "clear"}, device : Devices]
  BY DEF HistoryTypes
<1>2. QED
  BY <1>1 DEF NoWrite

LEMMA AcknowledgedStep ==
    ASSUME HistoryInv, Cardinality(Devices) <= MaxEpochs,
           NEW w \in Writers, InsertAcknowledged(w) \/ HistoryCleared(w)
    PROVE  HistoryInv'
<1>1. HistoryTypes /\ EpochsDistinct /\ Stored /\ ReadsOk
  BY DEF HistoryInv
<1>2. PICK d \in Devices : d = writers[w].device
  BY <1>1, WriteTyped DEF InsertAcknowledged, HistoryCleared
<1>3. /\ epochs' = Bumped(d) /\ published' = [published EXCEPT ![d] = rows[d]]
      /\ writers' = [writers EXCEPT ![w] = NoWrite]
      /\ UNCHANGED <<rows, insertNo, readers, l2, waiting, active, time, blurUntil, restarts>>
      /\ l1' = l1 \/ l1' = <<>>
      /\ emptied' = emptied \/ (rows[d] = 0 /\ emptied' = emptied \cup {d})
  BY <1>2 DEF InsertAcknowledged, HistoryCleared, readState
<1>4. /\ rows \in [Devices -> Nat] /\ published \in [Devices -> Nat] /\ insertNo \in Nat
      /\ emptied \in SUBSET Devices
  BY <1>1 DEF HistoryTypes
<1>5. /\ published'[d] = rows[d] /\ \A c \in Devices \ {d} : published'[c] = published[c]
      /\ published' \in [Devices -> Nat]
  BY <1>3, <1>4
<1>6. /\ epochs' \in Seq(EpochEntries) /\ EpochsDistinct'
      /\ epoch(d)' = epoch(d) + 1 /\ \A c \in Devices \ {d} : epoch(c)' = epoch(c)
  BY <1>1, <1>3, BumpedMoves DEF HistoryTypes
<1>7. \A c \in Devices : published[c] <= rows[c] /\ rows[c] <= insertNo /\ published[c] \in Nat /\ rows[c] \in Nat
  BY <1>1, <1>4 DEF Stored
<1>8. HistoryTypes'
  <2>1. writers' \in [Writers -> {NoWrite} \cup [state : {"insert", "clear"}, device : Devices]]
    <3> DEFINE Writes == {NoWrite} \cup [state : {"insert", "clear"}, device : Devices]
    <3>1. writers \in [Writers -> Writes] /\ NoWrite \in Writes
      BY <1>1 DEF HistoryTypes
    <3> HIDE DEF Writes
    <3>2. writers' \in [Writers -> Writes]
      BY <1>3, <3>1
    <3>3. QED
      BY <3>2 DEF Writes
  <2>2. l1' \in Seq(Entries)
    BY <1>1, <1>3, EmptySeq DEF HistoryTypes
  <2>3. emptied' \in SUBSET Devices
    BY <1>3, <1>4
  <2>4. QED
    BY <1>1, <1>3, <1>5, <1>6, <2>1, <2>2, <2>3 DEF HistoryTypes
<1>9. Stored'
  <2>1. \A c \in Devices : published'[c] <= rows'[c] /\ rows'[c] <= insertNo'
    BY <1>3, <1>5, <1>7
  <2>2. \A c \in emptied' : rows'[c] = 0
    BY <1>1, <1>3 DEF Stored
  <2>3. QED
    BY <2>1, <2>2 DEF Stored
<1>10. Later
  <2>1. time' >= time
    BY <1>1, <1>3 DEF HistoryTypes
  <2>2. ASSUME NEW c \in Devices
        PROVE  /\ epoch(c)' \in Nat /\ epoch(c) <= epoch(c)'
               /\ epoch(c)' = epoch(c) => published'[c] <= published[c] /\ (c \in emptied' => c \in emptied)
    <3>1. epoch(c) \in Nat
      BY <1>1, EpochNat
    <3>2. CASE c = d
      BY <1>6, <3>1, <3>2
    <3>3. CASE c # d
      BY <1>3, <1>5, <1>6, <1>7, <3>1, <3>3
    <3>4. QED
      BY <3>2, <3>3
  <2>3. QED
    BY <1>3, <2>1, <2>2 DEF Later
<1>11. ASSUME NEW q \in Readers, readers[q].state # "none"
       PROVE  Continues(q) /\ readers'[q].state = readers[q].state
  <2>1. readers[q].device \in Devices /\ readers[q].floor \in Nat /\ readers[q].gone \in BOOLEAN
    BY <1>1, <1>11, ReadsTyped
  <2>2. readers[q].floor <= published[readers[q].device] /\ (readers[q].gone => rows[readers[q].device] = 0)
    BY <1>1, <1>11 DEF ReadsOk, ReadFits
  <2>3. published[readers[q].device] <= published'[readers[q].device] /\ published'[readers[q].device] \in Nat
    BY <1>5, <1>7, <2>1
  <2>4. readers[q].floor <= published'[readers[q].device]
    BY <1>7, <2>1, <2>2, <2>3
  <2>5. readers' = readers /\ rows' = rows /\ readers[q].state \in {readers[q].state, "started"}
    BY <1>3
  <2>6. readers'[q].gone => readers[q].gone /\ rows'[readers[q].device] = 0
    BY <2>1, <2>2, <2>5
  <2>7. readers'[q].floor <= readers[q].floor
    BY <2>1, <2>5
  <2>8. QED
    BY <1>11, <2>4, <2>5, <2>6, <2>7 DEF Continues
<1>12. QED
  BY <1>3, <1>6, <1>8, <1>9, <1>10, <1>11, BesideReads

LEMMA DeletedStep ==
    ASSUME HistoryInv, NEW w \in Writers, NEW d \in Devices, HistoryDeleted(w, d)
    PROVE  HistoryInv'
<1>1. HistoryTypes /\ EpochsDistinct /\ Stored /\ ReadsOk
  BY DEF HistoryInv
<1>2. /\ rows \in [Devices -> Nat] /\ published \in [Devices -> Nat] /\ insertNo \in Nat
      /\ emptied \in SUBSET Devices
  BY <1>1 DEF HistoryTypes
<1>3. /\ rows' = [rows EXCEPT ![d] = 0] /\ published' = [published EXCEPT ![d] = 0]
      /\ writers' = [writers EXCEPT ![w] = [state |-> "clear", device |-> d]]
      /\ UNCHANGED <<insertNo, epochs, emptied, l1, l2, waiting, active, time, blurUntil, restarts>>
  BY DEF HistoryDeleted, readState
<1>4. readers' = [q \in Readers |-> IF readers[q].state # "none" /\ readers[q].device = d
                                    THEN [readers[q] EXCEPT !.floor = 0] ELSE readers[q]]
  BY DEF HistoryDeleted
<1>5. /\ rows' \in [Devices -> Nat] /\ published' \in [Devices -> Nat] /\ rows'[d] = 0 /\ published'[d] = 0
      /\ \A c \in Devices \ {d} : rows'[c] = rows[c] /\ published'[c] = published[c]
  BY <1>2, <1>3
<1>6. \A q \in Readers :
         /\ readers[q].state = "none" => readers'[q] = readers[q]
         /\ readers[q].state # "none" /\ readers[q].device # d => readers'[q] = readers[q]
         /\ readers[q].state # "none" /\ readers[q].device = d => readers'[q] = [readers[q] EXCEPT !.floor = 0]
  BY <1>4
<1>7. \A c \in Devices : published[c] <= rows[c] /\ rows[c] <= insertNo /\ published[c] \in Nat /\ rows[c] \in Nat
  BY <1>1, <1>2 DEF Stored
<1>8. HistoryTypes'
  <2>1. \A q \in Readers : readers'[q] \in {NoRead} \cup Reads
    BY <1>1, <1>6, LoweredTyped DEF HistoryTypes
  <2>2. readers' \in [Readers -> {NoRead} \cup Reads]
    BY <1>4, <2>1
  <2>3. writers' \in [Writers -> {NoWrite} \cup [state : {"insert", "clear"}, device : Devices]]
    BY <1>1, <1>3 DEF HistoryTypes
  <2>4. QED
    BY <1>1, <1>3, <1>5, <2>2, <2>3 DEF HistoryTypes
<1>9. Stored'
  <2>1. \A c \in Devices : published'[c] <= rows'[c] /\ rows'[c] <= insertNo'
    BY <1>2, <1>3, <1>5, <1>7
  <2>2. \A c \in emptied' : rows'[c] = 0
    BY <1>1, <1>2, <1>3, <1>5 DEF Stored
  <2>3. QED
    BY <2>1, <2>2 DEF Stored
<1>10. EpochsDistinct' /\ Later
  <2>1. EpochsDistinct' /\ \A c \in Devices : epoch(c)' = epoch(c) /\ epoch(c) \in Nat
    BY <1>1, <1>3, EpochsStand
  <2>2. time' >= time
    BY <1>1, <1>3 DEF HistoryTypes
  <2>3. \A c \in Devices : published'[c] <= published[c]
    BY <1>5, <1>7
  <2>4. QED
    BY <1>3, <2>1, <2>2, <2>3 DEF Later
<1>11. ASSUME NEW q \in Readers, readers[q].state # "none"
       PROVE  Continues(q) /\ readers'[q].state = readers[q].state
  <2>1. /\ readers[q] \in Reads /\ readers[q].device \in Devices /\ readers[q].floor \in Nat
        /\ readers[q].gone \in BOOLEAN
    BY <1>1, <1>11, ReadsTyped
  <2>2. readers[q].floor <= published[readers[q].device] /\ (readers[q].gone => rows[readers[q].device] = 0)
    BY <1>1, <1>11 DEF ReadsOk, ReadFits
  <2>3. CASE readers[q].device # d
    <3>1. /\ readers'[q] = readers[q] /\ rows'[readers[q].device] = rows[readers[q].device]
          /\ published'[readers[q].device] = published[readers[q].device]
      BY <1>5, <1>6, <1>11, <2>1, <2>3
    <3>2. readers'[q].floor <= readers[q].floor /\ (readers'[q].gone => readers[q].gone /\ rows'[readers[q].device] = 0)
      BY <2>1, <2>2, <3>1
    <3>3. QED
      BY <1>11, <2>2, <3>1, <3>2 DEF Continues
  <2>4. CASE readers[q].device = d
    <3>1. readers'[q] = [readers[q] EXCEPT !.floor = 0]
      BY <1>6, <1>11, <2>4
    <3>2. /\ readers'[q].state = readers[q].state /\ readers'[q].device = readers[q].device
          /\ readers'[q].key = readers[q].key /\ readers'[q].value = readers[q].value
          /\ readers'[q].clear = readers[q].clear /\ readers'[q].floor = 0 /\ readers'[q].gone = readers[q].gone
      BY <2>1, <3>1 DEF Reads
    <3>3. QED
      BY <1>5, <1>11, <2>1, <2>4, <3>2 DEF Continues
  <2>5. QED
    BY <2>3, <2>4
<1>12. QED
  BY <1>3, <1>6, <1>8, <1>9, <1>10, <1>11, BesideReads

LEMMA CleanupOrTickStep ==
    ASSUME HistoryInv, RetentionCleanup \/ HistoryTick
    PROVE  HistoryInv'
<1>1. HistoryTypes /\ EpochsDistinct /\ Stored /\ ReadsOk
  BY DEF HistoryInv
<1>2. /\ UNCHANGED <<rows, insertNo, writers, epochs, readers, waiting, active, published, emptied, blurUntil, restarts>>
      /\ l1' = l1 \/ l1' = <<>>
      /\ l2' \subseteq l2 /\ time' \in {time, time + 1}
  BY DEF RetentionCleanup, HistoryTick
<1>3. HistoryTypes'
  <2>1. l1' \in Seq(Entries)
    BY <1>1, <1>2, EmptySeq DEF HistoryTypes
  <2>2. time' \in Nat /\ l2' \in SUBSET Entries
    BY <1>1, <1>2 DEF HistoryTypes
  <2>3. QED
    BY <1>1, <1>2, <2>1, <2>2 DEF HistoryTypes
<1>4. Stored'
  BY <1>1, <1>2 DEF Stored
<1>5. EpochsDistinct' /\ Later
  <2>1. EpochsDistinct' /\ \A c \in Devices : epoch(c)' = epoch(c) /\ epoch(c) \in Nat
    BY <1>1, <1>2, EpochsStand
  <2>2. time' >= time /\ \A c \in Devices : published[c] \in Nat
    BY <1>1, <1>2 DEF HistoryTypes
  <2>3. QED
    BY <1>2, <2>1, <2>2 DEF Later
<1>6. ASSUME NEW q \in Readers, readers[q].state # "none"
      PROVE  Continues(q) /\ readers'[q].state = readers[q].state
  <2>1. readers[q].floor \in Nat /\ readers[q].gone \in BOOLEAN
    BY <1>1, <1>6, ReadsTyped
  <2>2. readers[q].floor <= published[readers[q].device] /\ (readers[q].gone => rows[readers[q].device] = 0)
    BY <1>1, <1>6 DEF ReadsOk, ReadFits
  <2>3. readers' = readers /\ rows' = rows /\ published' = published /\ readers[q].state \in {readers[q].state, "started"}
    BY <1>2
  <2>4. readers'[q].gone => readers[q].gone /\ rows'[readers[q].device] = 0
    BY <2>1, <2>2, <2>3
  <2>5. readers'[q].floor <= readers[q].floor
    BY <2>1, <2>3
  <2>6. QED
    BY <1>6, <2>2, <2>3, <2>4, <2>5 DEF Continues
<1>7. QED
  BY <1>2, <1>3, <1>4, <1>5, <1>6, BesideReads

-----------------------------------------------------------------------------
(* The reads                                                               *)

LEMMA BetweenWrites ==
    ASSUME HistoryTypes, EpochsDistinct, UNCHANGED writeState
    PROVE  Later /\ EpochsDistinct' /\ \A d \in Devices : epoch(d)' = epoch(d) /\ epoch(d) \in Nat
<1>1. UNCHANGED <<rows, insertNo, writers, epochs, time, published, emptied, blurUntil, restarts>>
  BY DEF writeState
<1>2. EpochsDistinct' /\ \A d \in Devices : epoch(d)' = epoch(d) /\ epoch(d) \in Nat
  BY <1>1, EpochsStand
<1>3. time' >= time /\ \A d \in Devices : published[d] \in Nat
  BY <1>1 DEF HistoryTypes
<1>4. QED
  BY <1>1, <1>2, <1>3 DEF Later

\* A read that holds a slot goes on to `n`, and may put an entry in the caches.
LEMMA ReadMoves ==
    ASSUME HistoryInv, UNCHANGED writeState, UNCHANGED <<waiting, active>>,
           NEW q \in Readers, NEW n \in Reads, readers' = [readers EXCEPT ![q] = n],
           readers[q].state \in Running, n.state \in Running, ReadFits(n),
           n.state = "shared" => /\ n.key[3] = epoch(n.key[1]) /\ n.floor <= published[n.key[1]]
                                 /\ n.gone => n.key[1] \in emptied,
           l1' \in Seq(Entries), l2' \in SUBSET Entries,
           \A i \in 1..Len(l1') :
              \/ \E j \in 1..Len(l1) : l1'[i] = l1[j]
              \/ \E v \in Nat, k \in Keys, t \in Nat :
                    l1'[i] = [key |-> k, value |-> v, expires |-> t] /\ (t <= blurUntil \/ Fresh(v, k)),
           \A e \in l2' :
              \/ e \in l2
              \/ \E v \in Nat, k \in Keys : e = [key |-> k, value |-> v, expires |-> time + TTL] /\ Fresh(v, k)
    PROVE  HistoryInv'
<1>1. HistoryTypes /\ EpochsDistinct /\ Stored /\ CachesFresh /\ ReadsOk /\ QueueOk /\ WorkConserving
  BY DEF HistoryInv
<1>2. UNCHANGED <<rows, insertNo, writers, epochs, time, published, emptied, blurUntil, restarts>>
  BY DEF writeState
<1>3. Later /\ EpochsDistinct' /\ \A d \in Devices : epoch(d)' = epoch(d) /\ epoch(d) \in Nat
  BY <1>1, BetweenWrites
<1>4. readers \in [Readers -> {NoRead} \cup Reads]
  BY <1>1 DEF HistoryTypes
<1>5. readers'[q] = n /\ \A p \in Readers \ {q} : readers'[p] = readers[p]
  BY <1>4
<1>6. HistoryTypes'
  <2>1. readers' \in [Readers -> {NoRead} \cup Reads]
    BY <1>4
  <2>2. QED
    BY <1>1, <1>2, <2>1 DEF HistoryTypes
<1>7. Stored'
  BY <1>1, <1>2 DEF Stored
<1>8. SharedFrom
  <2>1. ASSUME NEW p \in Readers \ {q}, readers'[p].state = "shared"
        PROVE  /\ readers[p].state = "shared" /\ readers'[p].key = readers[p].key
               /\ readers'[p].floor <= readers[p].floor /\ (readers'[p].gone => readers[p].gone)
    <3>1. readers[p].floor \in Nat /\ readers[p].gone \in BOOLEAN
      BY <1>1, <1>5, <2>1, ReadsTyped
    <3>2. QED
      BY <1>5, <2>1, <3>1
  <2>2. QED
    BY <1>5, <2>1 DEF SharedFrom
<1>9. CachesFresh'
  BY <1>1, <1>3, <1>6, <1>8, CachesKept
<1>10. ReadsOk'
  <2>1. ASSUME NEW p \in Readers \ {q}, readers'[p].state # "none" PROVE ReadFits(readers[p])'
    <3>1. readers[p].state # "none" /\ readers'[p] = readers[p]
      BY <1>5, <2>1
    <3>2. ReadFits(readers[p])
      BY <1>1, <3>1 DEF ReadsOk
    <3>3. readers[p].floor \in Nat /\ readers[p].gone \in BOOLEAN
      BY <1>1, <3>1, ReadsTyped
    <3>4. readers[p].floor <= published'[readers[p].device] /\ (readers[p].gone => rows'[readers[p].device] = 0)
      BY <1>2, <3>2 DEF ReadFits
    <3>5. readers'[p].floor <= readers[p].floor /\ (readers'[p].gone => readers[p].gone /\ rows'[readers[p].device] = 0)
      BY <3>1, <3>3, <3>4
    <3>6. Continues(p)
      BY <3>1, <3>4, <3>5 DEF Continues
    <3>7. QED
      BY <1>1, <1>3, <1>6, <1>8, <2>1, <3>2, <3>6, ReadOkKept
  <2>2. ReadFits(n)'
    <3>1. n.value \in Nat /\ n.key \in Keys /\ n.device \in Devices
      BY DEF Reads
    <3>2. n.state = "read" => Fresh(n.value, n.key)'
      <4>1. n.state = "read" => Fresh(n.value, n.key)
        BY DEF ReadFits
      <4>2. QED
        BY <1>1, <1>3, <1>6, <1>8, <3>1, <4>1, FreshKept
    <3>3. epoch(n.device)' = epoch(n.device)
      BY <1>3, <3>1
    <3>4. QED
      BY <1>2, <3>2, <3>3 DEF ReadFits
  <2>3. ReadFits(readers[q])'
    BY <1>5, <2>2 DEF ReadFits
  <2>4. QED
    BY <2>1, <2>3 DEF ReadsOk
<1>11. QueueOk' /\ WorkConserving'
  <2>1. \A p \in Readers : /\ readers'[p].state \in Running <=> readers[p].state \in Running
                           /\ readers[p].state = "waiting" => readers'[p].state = "waiting"
    BY <1>5 DEF Running
  <2>2. QED
    BY <1>1, <2>1, WorkKept DEF HistoryTypes
<1>12. QED
  BY <1>3, <1>6, <1>7, <1>9, <1>10, <1>11 DEF HistoryInv

\* What a read that goes on keeps.
At(r, s) == [r EXCEPT !.state = s]
With(r, s, v) == [r EXCEPT !.state = s, !.value = v]
Begun(r, k, f, g, c) == [r EXCEPT !.key = k, !.floor = f, !.gone = g, !.clear = c]

Keeps(n, r) ==
    n.key = r.key /\ n.device = r.device /\ n.floor = r.floor /\ n.gone = r.gone /\ n.clear = r.clear

LEMMA ReadAt ==
    ASSUME NEW r \in Reads, NEW s \in Stages
    PROVE  At(r, s) \in Reads /\ At(r, s).state = s /\ At(r, s).value = r.value /\ Keeps(At(r, s), r)
  BY DEF Reads, At, Keeps

LEMMA ReadWith ==
    ASSUME NEW r \in Reads, NEW s \in Stages, NEW v \in Nat
    PROVE  With(r, s, v) \in Reads /\ With(r, s, v).state = s /\ With(r, s, v).value = v /\ Keeps(With(r, s, v), r)
  BY DEF Reads, With, Keeps

LEMMA ReadBegins ==
    ASSUME NEW r \in Reads, NEW k \in Keys, NEW f \in Nat, NEW g \in BOOLEAN, NEW c \in BOOLEAN
    PROVE  LET n == Begun(r, k, f, g, c)
           IN  /\ n \in Reads /\ n.device = r.device /\ n.key = k /\ n.floor = f /\ n.gone = g /\ n.clear = c
  BY DEF Reads, Begun

LEMMA Held ==
    "started" \in Stages /\ "shared" \in Stages /\ "query" \in Stages /\ "read" \in Stages /\ "publish" \in Stages
  BY DEF Stages, Running

\* A live hit under a key is fresh for a read that asks after the blur.
LEMMA BeginStep ==
    ASSUME HistoryInv, NEW q \in Readers, Begin(q)
    PROVE  HistoryInv'
<1>1. HistoryTypes /\ EpochsDistinct /\ Stored /\ CachesFresh
  BY DEF HistoryInv
<1>2. readers[q].state = "started"
  BY DEF Begin
<1>3. PICK d \in Devices, win \in Windows, k \in Keys :
        d = readers[q].device /\ win = readers[q].window /\ k = KeyNow(readers[q])
  <2>1. readers[q].device \in Devices /\ readers[q].window \in Windows
    BY <1>1, <1>2, ReadsTyped
  <2>2. epoch(readers[q].device) \in Nat
    BY <1>1, <2>1, EpochNat
  <2>3. QED
    BY <2>1, <2>2 DEF KeyNow, Keys
<1>4. k[1] = d /\ k[3] = epoch(d) /\ epoch(d) \in Nat
  BY <1>1, <1>3, EpochNat DEF KeyNow
<1>5. l1' = CacheGet(k) /\ l2' = l2 /\ UNCHANGED <<waiting, active>> /\ UNCHANGED writeState
  BY <1>3 DEF Begin
<1>6. /\ l1' \in Seq(Entries) /\ l2' \in SUBSET Entries
      /\ \A i \in 1..Len(l1') : \E j \in 1..Len(l1) : l1'[i] = l1[j]
  BY <1>1, <1>5, GetFrom DEF HistoryTypes
<1>7. /\ published[d] \in Nat /\ published[d] <= rows[d] /\ (d \in emptied => rows[d] = 0)
      /\ time \in Nat /\ blurUntil \in Nat
  BY <1>1 DEF HistoryTypes, Stored
<1> DEFINE begun == [readers[q] EXCEPT !.key = KeyNow(readers[q]), !.floor = published[readers[q].device],
                                       !.gone = readers[q].device \in emptied, !.clear = time >= blurUntil]
<1>8. /\ begun \in Reads /\ begun.device = d /\ begun.key = k /\ begun.floor = published[d]
      /\ (begun.gone <=> d \in emptied) /\ (begun.clear <=> time >= blurUntil)
  <2>1. readers[q] \in Reads
    BY <1>1, <1>2, ReadsTyped
  <2>2. (d \in emptied) \in BOOLEAN /\ (time >= blurUntil) \in BOOLEAN
    OBVIOUS
  <2>3. begun = Begun(readers[q], k, published[d], d \in emptied, time >= blurUntil)
    BY <1>3 DEF Begun
  <2> HIDE DEF begun
  <2>4. /\ begun \in Reads /\ begun.device = readers[q].device /\ begun.key = k /\ begun.floor = published[d]
        /\ begun.gone = (d \in emptied) /\ begun.clear = (time >= blurUntil)
    <3> DEFINE g == d \in emptied
               c == time >= blurUntil
    <3>1. g \in BOOLEAN /\ c \in BOOLEAN /\ begun = Begun(readers[q], k, published[d], g, c)
      BY <2>2, <2>3
    <3> HIDE DEF g, c
    <3>2. /\ begun \in Reads /\ begun.device = readers[q].device /\ begun.key = k /\ begun.floor = published[d]
          /\ begun.gone = g /\ begun.clear = c
      BY <1>7, <2>1, <3>1, ReadBegins
    <3>3. QED
      BY <3>2 DEF g, c
  <2>5. QED
    BY <1>3, <2>4
<1>9. \/ /\ CacheHits(k) # {}
         /\ readers' = [readers EXCEPT ![q] = [begun EXCEPT !.state = "publish",
                                                            !.value = l1[CHOOSE i \in CacheHits(k) : TRUE].value]]
      \/ readers' = [readers EXCEPT ![q] = [begun EXCEPT !.state = "shared"]]
  BY <1>3 DEF Begin
<1> HIDE DEF begun
<1>10. CASE /\ CacheHits(k) # {}
            /\ readers' = [readers EXCEPT ![q] = [begun EXCEPT !.state = "publish",
                                                               !.value = l1[CHOOSE i \in CacheHits(k) : TRUE].value]]
  <2> DEFINE i == CHOOSE j \in CacheHits(k) : TRUE
  <2>1. i \in 1..Len(l1) /\ l1[i].key = k /\ l1[i].expires > time
    <3>1. DOMAIN l1 = 1..Len(l1)
      BY <1>1, LenProperties DEF HistoryTypes
    <3>2. QED
      BY <1>10, <3>1 DEF CacheHits, Live
  <2>2. PICK v \in Nat : v = l1[i].value /\ l1[i].expires \in Nat
    <3>1. l1[i] \in Entries
      BY <1>1, <2>1, ElementOfSeq DEF HistoryTypes
    <3>2. QED
      BY <3>1 DEF Entries
  <2>3. l1[i].expires <= blurUntil \/ Fresh(v, k)
    BY <1>1, <2>1, <2>2 DEF CachesFresh
  <2>4. time >= blurUntil => v >= published[d] /\ (d \in emptied => v = 0)
    <3>1. time >= blurUntil => Fresh(v, k)
      BY <1>7, <2>1, <2>2, <2>3
    <3>2. QED
      BY <1>4, <3>1 DEF Fresh
  <2> HIDE DEF i
  <2>5. PICK n \in Reads : n = With(begun, "publish", v) /\ n.state = "publish" /\ n.value = v /\ Keeps(n, begun)
    <3>1. begun \in Reads /\ "publish" \in Stages
      BY <1>8, Held
    <3>2. /\ With(begun, "publish", v) \in Reads
          /\ With(begun, "publish", v).state = "publish" /\ With(begun, "publish", v).value = v
          /\ Keeps(With(begun, "publish", v), begun)
      BY <3>1, ReadWith
    <3>3. QED
      BY <3>2, Zenon
  <2>6. ReadFits(n)
    BY <1>4, <1>7, <1>8, <2>4, <2>5 DEF ReadFits, Keeps
  <2>7. readers' = [readers EXCEPT ![q] = n]
    BY <1>10, <2>2, <2>5 DEF i, With
  <2>8. QED
    BY <1>2, <1>5, <1>6, <2>5, <2>6, <2>7, ReadMoves DEF Running
<1>11. CASE readers' = [readers EXCEPT ![q] = [begun EXCEPT !.state = "shared"]]
  <2>1. PICK n \in Reads : n = At(begun, "shared") /\ n.state = "shared" /\ n.value = begun.value /\ Keeps(n, begun)
    <3>1. At(begun, "shared") \in Reads
      BY <1>8, ReadAt, Held
    <3>2. At(begun, "shared").state = "shared" /\ At(begun, "shared").value = begun.value /\ Keeps(At(begun, "shared"), begun)
      BY <1>8, ReadAt, Held
    <3>3. QED
      BY <3>1, <3>2, Zenon
  <2>2. ReadFits(n)
    BY <1>4, <1>7, <1>8, <2>1 DEF ReadFits, Keeps
  <2>3. /\ n.key[3] = epoch(n.key[1]) /\ n.floor <= published[n.key[1]]
        /\ n.gone => n.key[1] \in emptied
    BY <1>4, <1>7, <1>8, <2>1 DEF Keeps
  <2>4. readers' = [readers EXCEPT ![q] = n] /\ \A e \in l2' : e \in l2
    BY <1>5, <1>11, <2>1 DEF At
  <2>5. QED
    BY <1>2, <1>5, <1>6, <2>1, <2>2, <2>3, <2>4, ReadMoves DEF Running
<1>12. QED
  BY <1>9, <1>10, <1>11

LEMMA SharedReplyStep ==
    ASSUME HistoryInv, NEW q \in Readers, SharedReply(q)
    PROVE  HistoryInv'
<1>1. HistoryTypes /\ EpochsDistinct /\ Stored /\ CachesFresh /\ ReadsOk
  BY DEF HistoryInv
<1>2. readers[q].state = "shared" /\ l2' = l2 /\ UNCHANGED <<waiting, active>> /\ UNCHANGED writeState
  BY DEF SharedReply
<1>3. PICK k \in Keys, d \in Devices : k = readers[q].key /\ d = readers[q].device /\ readers[q] \in Reads
  BY <1>1, <1>2, ReadsTyped
<1>4. ReadFits(readers[q])
  BY <1>1, <1>2 DEF ReadsOk
<1>5. k[1] = d /\ k[3] <= epoch(d) /\ readers[q].floor <= published[d] /\ (readers[q].gone => rows[d] = 0)
      /\ (readers[q].clear => time >= blurUntil)
  BY <1>2, <1>3, <1>4 DEF ReadFits, Keeps
<1>6. time \in Nat /\ blurUntil \in Nat /\ TTL \in Nat /\ l1 \in Seq(Entries) /\ l2 \in SUBSET Entries
  BY <1>1, CachedHistoryAssumption DEF HistoryTypes
<1>7. ASSUME NEW e \in SharedHits(k),
             l1' = CacheSet(k, e.value),
             readers' = [readers EXCEPT ![q].state = "publish", ![q].value = e.value]
      PROVE  HistoryInv'
  <2>1. e \in l2 /\ e.key = k /\ e.expires > time /\ e.value \in Nat /\ e.expires \in Nat
    BY <1>6, <1>7 DEF SharedHits, Live, Entries
  <2>2. e.expires + TTL <= blurUntil \/ Fresh(e.value, k)
    BY <1>1, <2>1 DEF CachesFresh
  <2>3. PICK v \in Nat : v = e.value
    BY <2>1
  <2>4. readers[q].clear => v >= readers[q].floor /\ (readers[q].gone => v = 0)
    <3>1. readers[q].clear => Fresh(v, k)
      BY <1>5, <1>6, <2>1, <2>2, <2>3
    <3>2. QED
      BY <1>2, <1>3, <3>1 DEF Fresh
  <2>5. PICK n \in Reads : n = With(readers[q], "publish", v) /\ n.state = "publish" /\ n.value = v /\ Keeps(n, readers[q])
    <3>1. With(readers[q], "publish", v) \in Reads
      BY <1>3, ReadWith, Held
    <3>2. With(readers[q], "publish", v).state = "publish" /\ With(readers[q], "publish", v).value = v /\ Keeps(With(readers[q], "publish", v), readers[q])
      BY <1>3, ReadWith, Held
    <3>3. QED
      BY <3>1, <3>2, Zenon
  <2>6. ReadFits(n)
    BY <1>3, <1>5, <2>4, <2>5 DEF ReadFits, Keeps
  <2>7. readers' = [readers EXCEPT ![q] = n]
    BY <1>7, <2>3, <2>5 DEF With
  <2>8. /\ l1' \in Seq(Entries)
        /\ \A i \in 1..Len(l1') : \/ l1'[i] = [key |-> k, value |-> v, expires |-> time + TTL]
                                  \/ \E j \in 1..Len(l1) : l1'[i] = l1[j]
    BY <1>6, <1>7, <2>3, SetFrom
  <2>9. time + TTL \in Nat /\ (time + TTL <= blurUntil \/ Fresh(v, k))
    BY <1>6, <2>1, <2>2, <2>3
  <2>10. \A i \in 1..Len(l1') :
            \/ \E j \in 1..Len(l1) : l1'[i] = l1[j]
            \/ \E x \in Nat, y \in Keys, t \in Nat :
                  l1'[i] = [key |-> y, value |-> x, expires |-> t] /\ (t <= blurUntil \/ Fresh(x, y))
    BY <2>8, <2>9
  <2>11. QED
    BY <1>2, <1>6, <2>5, <2>6, <2>7, <2>8, <2>10, ReadMoves DEF Running
<1>8. CASE readers' = [readers EXCEPT ![q].state = "query"] /\ l1' = l1
  <2>1. PICK n \in Reads : n = At(readers[q], "query") /\ n.state = "query" /\ n.value = readers[q].value /\ Keeps(n, readers[q])
    <3>1. At(readers[q], "query") \in Reads
      BY <1>3, ReadAt, Held
    <3>2. At(readers[q], "query").state = "query" /\ At(readers[q], "query").value = readers[q].value /\ Keeps(At(readers[q], "query"), readers[q])
      BY <1>3, ReadAt, Held
    <3>3. QED
      BY <3>1, <3>2, Zenon
  <2>2. ReadFits(n)
    BY <1>3, <1>5, <2>1 DEF ReadFits, Keeps
  <2>3. readers' = [readers EXCEPT ![q] = n]
    BY <1>8, <2>1 DEF At
  <2>4. QED
    BY <1>2, <1>6, <1>8, <2>1, <2>2, <2>3, ReadMoves DEF Running
<1>9. QED
  BY <1>3, <1>7, <1>8 DEF SharedReply

LEMMA SelectRunsStep ==
    ASSUME HistoryInv, NEW q \in Readers, SelectRuns(q)
    PROVE  HistoryInv'
<1>1. HistoryTypes /\ EpochsDistinct /\ Stored /\ ReadsOk
  BY DEF HistoryInv
<1>2. /\ readers[q].state = "query" /\ UNCHANGED <<l1, l2, waiting, active>> /\ UNCHANGED writeState
      /\ readers' = [readers EXCEPT ![q].state = "read", ![q].value = rows[readers[q].device]]
  BY DEF SelectRuns
<1>3. PICK k \in Keys, d \in Devices : k = readers[q].key /\ d = readers[q].device /\ readers[q] \in Reads
  BY <1>1, <1>2, ReadsTyped
<1>4. ReadFits(readers[q])
  BY <1>1, <1>2 DEF ReadsOk
<1>5. k[1] = d /\ k[3] <= epoch(d) /\ readers[q].floor <= published[d] /\ (readers[q].gone => rows[d] = 0)
      /\ (readers[q].clear => time >= blurUntil)
  BY <1>2, <1>3, <1>4 DEF ReadFits, Keeps
<1>6. PICK v \in Nat : v = rows[d] /\ published[d] <= v /\ published[d] \in Nat
  BY <1>1 DEF HistoryTypes, Stored
<1>7. Fresh(v, k)
  <2>1. d \in emptied => v = 0
    BY <1>1, <1>6 DEF Stored
  <2>2. ASSUME NEW p \in Readers, readers[p].state = "shared", readers[p].key = k
        PROVE  v >= readers[p].floor /\ (readers[p].gone => v = 0)
    <3>1. readers[p].floor \in Nat /\ ReadFits(readers[p])
      BY <1>1, <2>2, ReadsTyped DEF ReadsOk
    <3>2. readers[p].device = d /\ readers[p].floor <= published[d] /\ (readers[p].gone => rows[d] = 0)
      BY <1>5, <2>2, <3>1 DEF ReadFits, Keeps
    <3>3. QED
      BY <1>6, <3>1, <3>2
  <2>3. QED
    BY <1>5, <1>6, <2>1, <2>2 DEF Fresh
<1>8. PICK n \in Reads : n = With(readers[q], "read", v) /\ n.state = "read" /\ n.value = v /\ Keeps(n, readers[q])
  <2>1. With(readers[q], "read", v) \in Reads
    BY <1>3, ReadWith, Held
  <2>2. With(readers[q], "read", v).state = "read" /\ With(readers[q], "read", v).value = v /\ Keeps(With(readers[q], "read", v), readers[q])
    BY <1>3, ReadWith, Held
  <2>3. QED
    BY <2>1, <2>2, Zenon
<1>9. ReadFits(n)
  <2>1. readers[q].floor \in Nat
    BY <1>1, <1>2, ReadsTyped
  <2>2. v >= n.floor /\ (n.gone => v = 0)
    BY <1>5, <1>6, <1>8, <2>1 DEF Keeps
  <2>3. QED
    BY <1>3, <1>5, <1>7, <1>8, <2>2 DEF ReadFits, Keeps
<1>10. readers' = [readers EXCEPT ![q] = n]
  BY <1>2, <1>3, <1>6, <1>8 DEF With
<1>11. l1' \in Seq(Entries) /\ l2' \in SUBSET Entries
  BY <1>1, <1>2 DEF HistoryTypes
<1>12. QED
  BY <1>2, <1>8, <1>9, <1>10, <1>11, ReadMoves DEF Running

LEMMA FillStep ==
    ASSUME HistoryInv, NEW q \in Readers, Fill(q)
    PROVE  HistoryInv'
<1>1. HistoryTypes /\ ReadsOk
  BY DEF HistoryInv
<1>2. /\ readers[q].state = "read" /\ UNCHANGED <<waiting, active>> /\ UNCHANGED writeState
      /\ readers' = [readers EXCEPT ![q].state = "publish"]
  BY DEF Fill
<1>3. PICK k \in Keys, v \in Nat : k = readers[q].key /\ v = readers[q].value /\ readers[q] \in Reads
  BY <1>1, <1>2, ReadsTyped
<1>4. ReadFits(readers[q])
  BY <1>1, <1>2 DEF ReadsOk
<1>5. Fresh(v, k) /\ v >= readers[q].floor /\ (readers[q].gone => v = 0)
  BY <1>2, <1>3, <1>4 DEF ReadFits, Keeps
<1>6. time \in Nat /\ TTL \in Nat /\ l1 \in Seq(Entries) /\ l2 \in SUBSET Entries
  BY <1>1, CachedHistoryAssumption DEF HistoryTypes
<1>7. PICK n \in Reads : n = At(readers[q], "publish") /\ n.state = "publish" /\ n.value = readers[q].value /\ Keeps(n, readers[q])
  <2>1. At(readers[q], "publish") \in Reads
    BY <1>3, ReadAt, Held
  <2>2. /\ At(readers[q], "publish").state = "publish" /\ At(readers[q], "publish").value = readers[q].value
        /\ Keeps(At(readers[q], "publish"), readers[q])
    BY <1>3, ReadAt, Held
  <2>3. QED
    BY <2>1, <2>2, Zenon
<1>8. ReadFits(n)
  BY <1>3, <1>4, <1>5, <1>7 DEF ReadFits, Keeps
<1>9. readers' = [readers EXCEPT ![q] = n]
  BY <1>2, <1>7 DEF At
<1>10. l1' = CacheSet(k, v)
  BY <1>3 DEF Fill
<1>11. /\ l1' \in Seq(Entries)
       /\ \A i \in 1..Len(l1') : \/ l1'[i] = [key |-> k, value |-> v, expires |-> time + TTL]
                                 \/ \E j \in 1..Len(l1) : l1'[i] = l1[j]
  BY <1>6, <1>10, SetFrom
<1>12. time + TTL \in Nat
  BY <1>6
<1>13. \A i \in 1..Len(l1') :
          \/ \E j \in 1..Len(l1) : l1'[i] = l1[j]
          \/ \E x \in Nat, y \in Keys, t \in Nat :
                l1'[i] = [key |-> y, value |-> x, expires |-> t] /\ (t <= blurUntil \/ Fresh(x, y))
  BY <1>5, <1>11, <1>12
<1>14. \A e \in l2' : e \in l2 \/ e = [key |-> k, value |-> v, expires |-> time + TTL]
  BY <1>3 DEF Fill
<1>15. l2' \in SUBSET Entries
  BY <1>6, <1>12, <1>14 DEF Entries
<1>16. \A e \in l2' :
          \/ e \in l2
          \/ \E x \in Nat, y \in Keys : e = [key |-> y, value |-> x, expires |-> time + TTL] /\ Fresh(x, y)
  BY <1>5, <1>14
<1>17. QED
  BY <1>2, <1>7, <1>8, <1>9, <1>11, <1>13, <1>15, <1>16, ReadMoves DEF Running

-----------------------------------------------------------------------------
(* Requests come and go: the slots and the queue                           *)

\* A request that has just been made promises nothing yet.
Asked(r) ==
    /\ r \in Reads /\ r.state \in {"joined", "started", "waiting"}
    /\ r.floor = published[r.device] /\ r.gone = FALSE /\ (r.clear => time >= blurUntil)

LEMMA RequestsKept ==
    ASSUME HistoryInv, UNCHANGED writeState, UNCHANGED <<l1, l2>>,
           readers' \in [Readers -> {NoRead} \cup Reads], waiting' \in Seq(Readers), active' \in Nat,
           \A p \in Readers : \/ readers'[p] = readers[p] \/ readers'[p] = NoRead \/ Asked(readers'[p])
                              \/ readers[p].state = "waiting" /\ readers'[p] = At(readers[p], "started")
    PROVE  HistoryTypes' /\ EpochsDistinct' /\ Stored' /\ CachesFresh' /\ ReadsOk'
<1>1. HistoryTypes /\ EpochsDistinct /\ Stored /\ CachesFresh /\ ReadsOk
  BY DEF HistoryInv
<1>2. UNCHANGED <<rows, insertNo, writers, epochs, time, published, emptied, blurUntil, restarts>>
  BY DEF writeState
<1>3. Later /\ EpochsDistinct' /\ \A d \in Devices : epoch(d)' = epoch(d) /\ epoch(d) \in Nat
  BY <1>1, BetweenWrites
<1>4. HistoryTypes'
  BY <1>1, <1>2 DEF HistoryTypes
<1>5. Stored'
  BY <1>1, <1>2 DEF Stored
<1>6. ASSUME NEW p \in Readers, readers[p].state # "none", readers[p].state # "started",
             readers'[p] = At(readers[p], "started")
      PROVE  /\ readers'[p].state = "started" /\ Keeps(readers'[p], readers[p])
             /\ readers'[p].value = readers[p].value
  <2>1. readers[p] \in Reads /\ "started" \in Stages
    BY <1>1, <1>6, ReadsTyped, Held
  <2>2. /\ At(readers[p], "started").state = "started" /\ Keeps(At(readers[p], "started"), readers[p])
        /\ At(readers[p], "started").value = readers[p].value
    BY <2>1, ReadAt
  <2>3. QED
    BY <1>6, <2>2
<1>7. SharedFrom
  <2> SUFFICES ASSUME NEW p \in Readers, readers'[p].state = "shared"
               PROVE  /\ readers[p].state = "shared" /\ readers'[p].key = readers[p].key
                      /\ readers'[p].floor <= readers[p].floor /\ (readers'[p].gone => readers[p].gone)
    BY DEF SharedFrom
  <2>1. readers'[p] # NoRead /\ ~Asked(readers'[p])
    BY DEF NoRead, Asked
  <2>2. ~(readers[p].state = "waiting" /\ readers'[p] = At(readers[p], "started"))
    BY <1>6
  <2>3. readers'[p] = readers[p]
    BY <2>1, <2>2
  <2>4. readers[p].floor \in Nat /\ readers[p].gone \in BOOLEAN
    BY <1>1, <2>3, ReadsTyped
  <2>5. QED
    BY <2>3, <2>4
<1>8. CachesFresh'
  <2>1. /\ \A i \in 1..Len(l1') : \E j \in 1..Len(l1) : l1'[i] = l1[j]
        /\ \A e \in l2' : e \in l2
    OBVIOUS
  <2>2. QED
    BY <1>1, <1>3, <1>4, <1>7, <2>1, CachesKept
<1>9. ASSUME NEW p \in Readers, readers'[p].state # "none" PROVE ReadFits(readers[p])'
  <2>1. CASE Asked(readers'[p])
    <3>1. /\ readers'[p] \in Reads /\ readers'[p].state \in {"joined", "started", "waiting"}
          /\ readers'[p].floor = published[readers'[p].device] /\ readers'[p].gone = FALSE
          /\ readers'[p].clear => time >= blurUntil
      BY <2>1 DEF Asked
    <3>2. readers'[p].device \in Devices
      BY <3>1 DEF Reads
    <3>3. published[readers'[p].device] \in Nat
      BY <1>1, <3>2 DEF HistoryTypes
    <3>4. QED
      BY <1>2, <3>1, <3>3 DEF ReadFits
  <2>2. CASE readers'[p] = readers[p] \/ (readers[p].state = "waiting" /\ readers'[p] = At(readers[p], "started"))
    <3>1. readers[p].state # "none"
      BY <1>9, <2>2
    <3>2. /\ readers'[p].state \in {readers[p].state, "started"} /\ Keeps(readers'[p], readers[p])
          /\ readers'[p].value = readers[p].value
      BY <1>6, <2>2, <3>1 DEF Keeps
    <3>3. ReadFits(readers[p])
      BY <1>1, <3>1 DEF ReadsOk
    <3>4. readers[p].floor \in Nat /\ readers[p].gone \in BOOLEAN
      BY <1>1, <3>1, ReadsTyped
    <3>5. readers[p].floor <= published'[readers[p].device] /\ (readers[p].gone => rows'[readers[p].device] = 0)
      BY <1>2, <3>3 DEF ReadFits
    <3>6. readers'[p].floor = readers[p].floor /\ readers'[p].gone = readers[p].gone
      BY <3>2 DEF Keeps
    <3>7. readers'[p].floor <= readers[p].floor /\ (readers'[p].gone => readers[p].gone /\ rows'[readers[p].device] = 0)
      BY <3>4, <3>5, <3>6
    <3>8. Continues(p)
      BY <3>1, <3>2, <3>5, <3>6, <3>7 DEF Continues, Keeps
    <3>9. QED
      BY <1>1, <1>3, <1>4, <1>7, <1>9, <3>3, <3>8, ReadOkKept
  <2>3. QED
    BY <1>9, <2>1, <2>2 DEF NoRead
<1>10. QED
  BY <1>3, <1>4, <1>5, <1>8, <1>9 DEF ReadsOk

RunningNow == {q \in Readers : readers[q].state \in Running}

LEMMA RunningFinite == IsFiniteSet(RunningNow) /\ Cardinality(RunningNow) \in Nat
<1>1. IsFiniteSet(Readers) /\ RunningNow \in SUBSET Readers
  BY CachedHistoryAssumption DEF RunningNow
<1>2. QED
  BY <1>1, FS_Subset, FS_CardinalityType

LEMMA AskTyped ==
    ASSUME HistoryTypes, NEW q \in Readers, NEW d \in Devices, NEW win \in Windows,
           NEW s \in {"joined", "started", "waiting"}, NEW n,
           n = [state |-> s, device |-> d, window |-> win, key |-> <<d, win, 0>>, value |-> 0, leader |-> q,
                floor |-> published[d], gone |-> FALSE, clear |-> time >= blurUntil]
    PROVE  Asked(n) /\ n.state = s
<1>1. published[d] \in Nat /\ <<d, win, 0>> \in Keys /\ s \in Stages
  BY DEF HistoryTypes, Keys, Stages, Running
<1>2. n \in Reads
  BY <1>1 DEF Reads
<1>3. n.state = s /\ n.device = d /\ n.floor = published[d] /\ n.gone = FALSE /\ (n.clear => time >= blurUntil)
  OBVIOUS
<1>4. QED
  BY <1>2, <1>3 DEF Asked

LEMMA AskJoins ==
    ASSUME NEW r, Asked(r), NEW p \in Readers
    PROVE  Asked([r EXCEPT !.leader = p]) /\ [r EXCEPT !.leader = p].state = r.state
<1> DEFINE n == [r EXCEPT !.leader = p]
<1>1. r \in Reads
  BY DEF Asked
<1>2. n \in Reads
  BY <1>1 DEF Reads
<1>3. /\ n.state = r.state /\ n.device = r.device /\ n.floor = r.floor /\ n.gone = r.gone /\ n.clear = r.clear
  BY <1>1 DEF Reads
<1> HIDE DEF n
<1>4. Asked(n) /\ n.state = r.state
  BY <1>2, <1>3 DEF Asked
<1>5. QED
  BY <1>4 DEF n

LEMMA RequestStep ==
    ASSUME HistoryInv, NEW q \in Readers, NEW d \in Devices, NEW win \in Windows, Request(q, d, win)
    PROVE  HistoryInv'
<1> DEFINE ask(s) == [state |-> s, device |-> d, window |-> win, key |-> <<d, win, 0>>, value |-> 0, leader |-> q,
                      floor |-> published[d], gone |-> FALSE, clear |-> time >= blurUntil]
           joins(p) == [ask("joined") EXCEPT !.leader = p]
<1>1. HistoryTypes /\ QueueOk /\ WorkConserving
  BY DEF HistoryInv
<1>2. readers[q].state = "none" /\ UNCHANGED <<l1, l2>> /\ UNCHANGED writeState
  BY DEF Request
<1>3. /\ readers \in [Readers -> {NoRead} \cup Reads] /\ waiting \in Seq(Readers) /\ active \in Nat
      /\ Concurrency \in Nat
  BY <1>1, CachedHistoryAssumption DEF HistoryTypes
<1>4. /\ \A s \in {"joined", "started", "waiting"} : Asked(ask(s)) /\ ask(s).state = s
      /\ \A p \in Readers : Asked(joins(p)) /\ joins(p).state = "joined"
  <2>1. \A s \in {"joined", "started", "waiting"} : Asked(ask(s)) /\ ask(s).state = s
    BY <1>1, AskTyped
  <2> HIDE DEF ask
  <2>2. Asked(ask("joined")) /\ ask("joined").state = "joined"
    BY <2>1
  <2>3. QED
    BY <2>1, <2>2, AskJoins
<1>5. \/ /\ \E p \in Readers : readers' = [readers EXCEPT ![q] = joins(p)]
         /\ UNCHANGED <<waiting, active>>
      \/ UNCHANGED <<readers, waiting, active>>
      \/ /\ active < Concurrency /\ readers' = [readers EXCEPT ![q] = ask("started")]
         /\ active' = active + 1 /\ waiting' = waiting
      \/ /\ ~(active < Concurrency) /\ readers' = [readers EXCEPT ![q] = ask("waiting")]
         /\ waiting' = Append(waiting, q) /\ active' = active
  <2>1. CASE /\ Identical(q, d, win) # {}
             /\ readers' = [readers EXCEPT ![q] = joins(CHOOSE p \in Identical(q, d, win) : TRUE)]
             /\ UNCHANGED <<waiting, active>>
    <3>1. PICK p \in Readers : p = CHOOSE x \in Identical(q, d, win) : TRUE
      BY <2>1 DEF Identical, Pending
    <3> HIDE DEF joins
    <3>2. readers' = [readers EXCEPT ![q] = joins(p)]
      BY <2>1, <3>1
    <3>3. QED
      BY <2>1, <3>2
  <2>2. QED
    BY <2>1 DEF Request
<1> HIDE DEF ask, joins
<1>6. ASSUME NEW n, Asked(n), readers' = [readers EXCEPT ![q] = n], waiting' \in Seq(Readers), active' \in Nat
      PROVE  HistoryTypes' /\ EpochsDistinct' /\ Stored' /\ CachesFresh' /\ ReadsOk'
  <2>1. readers'[q] = n /\ \A p \in Readers \ {q} : readers'[p] = readers[p]
    BY <1>3, <1>6
  <2>2. n \in Reads
    BY <1>6 DEF Asked
  <2>3. readers' \in [Readers -> {NoRead} \cup Reads]
    BY <1>3, <1>6, <2>2
  <2>4. \A p \in Readers : readers'[p] = readers[p] \/ Asked(readers'[p])
    BY <1>6, <2>1
  <2>5. QED
    BY <1>2, <1>6, <2>3, <2>4, RequestsKept
<1>7. CASE /\ \E p \in Readers : readers' = [readers EXCEPT ![q] = joins(p)]
           /\ UNCHANGED <<waiting, active>>
  <2>1. PICK p \in Readers : readers' = [readers EXCEPT ![q] = joins(p)]
    BY <1>7
  <2>2. HistoryTypes' /\ EpochsDistinct' /\ Stored' /\ CachesFresh' /\ ReadsOk'
    <3>1. waiting' \in Seq(Readers) /\ active' \in Nat /\ Asked(joins(p))
      BY <1>3, <1>4, <1>7
    <3>2. QED
      BY <1>6, <2>1, <3>1
  <2>3. readers'[q].state = "joined" /\ \A x \in Readers \ {q} : readers'[x] = readers[x]
    BY <1>3, <1>4, <2>1
  <2>4. QueueOk' /\ WorkConserving'
    <3>1. \A x \in Readers : /\ readers'[x].state \in Running <=> readers[x].state \in Running
                             /\ readers[x].state = "waiting" => readers'[x].state = "waiting"
      BY <1>2, <2>3 DEF Running
    <3>2. QED
      BY <1>1, <1>3, <1>7, <3>1, WorkKept
  <2>5. QED
    BY <2>2, <2>4 DEF HistoryInv
<1>8. CASE UNCHANGED <<readers, waiting, active>>
  <2>1. HistoryTypes' /\ EpochsDistinct' /\ Stored' /\ CachesFresh' /\ ReadsOk'
    BY <1>2, <1>3, <1>8, RequestsKept
  <2>2. QueueOk' /\ WorkConserving'
    BY <1>1, <1>3, <1>8, WorkKept
  <2>3. QED
    BY <2>1, <2>2 DEF HistoryInv
<1>9. CASE /\ active < Concurrency /\ readers' = [readers EXCEPT ![q] = ask("started")]
           /\ active' = active + 1 /\ waiting' = waiting
  <2>1. HistoryTypes' /\ EpochsDistinct' /\ Stored' /\ CachesFresh' /\ ReadsOk'
    <3>1. waiting' \in Seq(Readers) /\ active' \in Nat /\ Asked(ask("started"))
      BY <1>3, <1>4, <1>9
    <3>2. QED
      BY <1>6, <1>9, <3>1
  <2>2. readers'[q].state = "started" /\ \A x \in Readers \ {q} : readers'[x] = readers[x]
    BY <1>3, <1>4, <1>9
  <2>3. waiting = <<>>
    BY <1>1, <1>3, <1>9 DEF WorkConserving
  <2>4. QueueOk'
    <3>1. waiting' = <<>> /\ Len(<<>>) = 0 /\ 1..0 = {}
      BY <1>9, <2>3, EmptySeq
    <3>2. QED
      BY <3>1 DEF QueueOk, Distinct
  <2>5. WorkConserving'
    <3>1. RunningNow' = RunningNow \cup {q} /\ q \notin RunningNow
      BY <1>2, <2>2 DEF RunningNow, Running
    <3>2. Cardinality(RunningNow') = Cardinality(RunningNow) + 1
      BY <3>1, RunningFinite, FS_AddElement
    <3>3. active = Cardinality(RunningNow)
      BY <1>1 DEF WorkConserving, RunningNow
    <3>4. active' = Cardinality({x \in Readers : readers[x].state \in Running})'
      BY <1>9, <3>2, <3>3 DEF RunningNow
    <3>5. active' <= Concurrency
      BY <1>3, <1>9
    <3>6. QED
      BY <1>9, <2>3, <3>4, <3>5 DEF WorkConserving
  <2>6. QED
    BY <2>1, <2>4, <2>5 DEF HistoryInv
<1>10. CASE /\ ~(active < Concurrency) /\ readers' = [readers EXCEPT ![q] = ask("waiting")]
            /\ waiting' = Append(waiting, q) /\ active' = active
  <2>1. /\ waiting' \in Seq(Readers) /\ Len(waiting) \in Nat /\ Len(waiting') = Len(waiting) + 1
        /\ waiting'[Len(waiting) + 1] = q
        /\ \A i \in 1..Len(waiting) : waiting'[i] = waiting[i] /\ waiting[i] \in Readers
    BY <1>3, <1>10, AppendProperties, LenProperties, ElementOfSeq
  <2>2. HistoryTypes' /\ EpochsDistinct' /\ Stored' /\ CachesFresh' /\ ReadsOk'
    BY <1>3, <1>4, <1>6, <1>10, <2>1
  <2>3. readers'[q].state = "waiting" /\ \A x \in Readers \ {q} : readers'[x] = readers[x]
    BY <1>3, <1>4, <1>10
  <2>4. \A i \in 1..Len(waiting') : i \in 1..Len(waiting) \/ i = Len(waiting) + 1
    BY <2>1
  <2>5. \A i \in 1..Len(waiting) : waiting[i] # q
    BY <1>1, <1>2 DEF QueueOk
  <2>6. Distinct(waiting')
    <3> SUFFICES ASSUME NEW i \in 1..Len(waiting'), NEW j \in 1..Len(waiting'), waiting'[i] = waiting'[j] PROVE i = j
      BY DEF Distinct
    <3>1. CASE i \in 1..Len(waiting) /\ j \in 1..Len(waiting)
      BY <1>1, <2>1, <3>1 DEF QueueOk, Distinct
    <3>2. CASE i = Len(waiting) + 1 \/ j = Len(waiting) + 1
      BY <2>1, <2>4, <2>5, <3>2
    <3>3. QED
      BY <2>4, <3>1, <3>2
  <2>7. QueueOk'
    BY <1>1, <2>1, <2>3, <2>4, <2>5, <2>6 DEF QueueOk
  <2>8. WorkConserving'
    <3>1. {x \in Readers : readers'[x].state \in Running} = {x \in Readers : readers[x].state \in Running}
      BY <1>2, <2>3 DEF Running
    <3>2. active = Concurrency
      BY <1>1, <1>3, <1>10 DEF WorkConserving
    <3>3. QED
      BY <1>1, <1>10, <3>1, <3>2 DEF WorkConserving
  <2>9. QED
    BY <2>2, <2>7, <2>8 DEF HistoryInv
<1>11. QED
  BY <1>5, <1>7, <1>8, <1>9, <1>10

\* An operation settles: its slot goes to the first that waits, or is free.
LEMMA SettleStepKeeps ==
    ASSUME HistoryInv, NEW q \in Readers, Answer(q) \/ ReadFails(q)
    PROVE  HistoryInv'
<1>1. HistoryTypes /\ QueueOk /\ WorkConserving
  BY DEF HistoryInv
<1>2. readers[q].state \in {"publish", "read"} /\ UNCHANGED <<l1, l2>> /\ UNCHANGED writeState
  BY DEF Answer, ReadFails
<1>3. /\ readers' = [p \in Readers |->
           IF p = q \/ (readers[p].state = "joined" /\ readers[p].leader = q) THEN NoRead
           ELSE IF waiting # <<>> /\ p = Head(waiting)
                THEN [readers[p] EXCEPT !.state = "started"]
           ELSE readers[p]]
      /\ waiting' = IF waiting = <<>> THEN <<>> ELSE Tail(waiting)
      /\ active' = IF waiting = <<>> THEN active - 1 ELSE active
  BY DEF Answer, ReadFails, SettleWork
<1>4. /\ readers \in [Readers -> {NoRead} \cup Reads] /\ waiting \in Seq(Readers) /\ active \in Nat
      /\ Concurrency \in Nat
  BY <1>1, CachedHistoryAssumption DEF HistoryTypes
<1>5. active = Cardinality(RunningNow) /\ active <= Concurrency /\ (waiting # <<>> => active = Concurrency)
  BY <1>1 DEF WorkConserving, RunningNow
<1>6. q \in RunningNow
  BY <1>2 DEF RunningNow, Running
<1>7. Cardinality(RunningNow \ {q}) = active - 1 /\ IsFiniteSet(RunningNow \ {q}) /\ active - 1 \in Nat
  <2>1. Cardinality(RunningNow \ {q}) = Cardinality(RunningNow) - 1 /\ IsFiniteSet(RunningNow \ {q})
    BY <1>6, RunningFinite, FS_RemoveElement
  <2>2. QED
    BY <1>5, <2>1, FS_CardinalityType
<1>8. CASE waiting = <<>>
  <2>1. /\ waiting' = <<>> /\ active' = active - 1 /\ readers'[q] = NoRead
        /\ \A p \in Readers \ {q} : readers'[p] = readers[p] \/ (readers[p].state = "joined" /\ readers'[p] = NoRead)
    BY <1>3, <1>8
  <2>2. HistoryTypes' /\ EpochsDistinct' /\ Stored' /\ CachesFresh' /\ ReadsOk'
    <3>1. readers' \in [Readers -> {NoRead} \cup Reads]
      <4>1. \A p \in Readers : readers'[p] \in {NoRead} \cup Reads
        BY <1>4, <2>1
      <4>2. readers' = [p \in Readers |-> readers'[p]]
        BY <1>3
      <4>3. QED
        BY <4>1, <4>2
    <3>2. waiting' \in Seq(Readers) /\ active' \in Nat
      BY <1>7, <2>1, EmptySeq
    <3>3. \A p \in Readers : readers'[p] = readers[p] \/ readers'[p] = NoRead
      BY <2>1
    <3>4. QED
      BY <1>2, <3>1, <3>2, <3>3, RequestsKept
  <2>3. QueueOk'
    <3>1. Len(<<>>) = 0 /\ 1..0 = {}
      BY EmptySeq
    <3>2. QED
      BY <2>1, <3>1 DEF QueueOk, Distinct
  <2>4. WorkConserving'
    <3>1. {p \in Readers : readers'[p].state \in Running} = RunningNow \ {q}
      BY <2>1 DEF RunningNow, Running, NoRead
    <3>2. active' <= Concurrency
      BY <1>4, <1>5, <2>1
    <3>3. QED
      BY <1>7, <2>1, <3>1, <3>2 DEF WorkConserving
  <2>5. QED
    BY <2>2, <2>3, <2>4 DEF HistoryInv
<1>9. CASE waiting # <<>>
  <2> DEFINE h == Head(waiting)
  <2>1. /\ h = waiting[1] /\ h \in Readers /\ 1 \in 1..Len(waiting) /\ Len(waiting) \in Nat
        /\ Tail(waiting) \in Seq(Readers) /\ Len(Tail(waiting)) = Len(waiting) - 1
        /\ \A i \in 1..Len(Tail(waiting)) : Tail(waiting)[i] = waiting[i + 1]
    <3>1. Len(waiting) \in Nat /\ Len(waiting) # 0
      BY <1>4, <1>9, EmptySeq, LenProperties
    <3>2. QED
      BY <1>4, <1>9, <3>1, HeadTailProperties
  <2>2. readers[h].state = "waiting" /\ h # q
    BY <1>1, <1>2, <2>1 DEF QueueOk
  <2>3. /\ waiting' = Tail(waiting) /\ active' = active /\ readers'[q] = NoRead
        /\ readers'[h] = At(readers[h], "started")
        /\ \A p \in Readers \ {q, h} :
              readers'[p] = readers[p] \/ (readers[p].state = "joined" /\ readers'[p] = NoRead)
    BY <1>3, <1>9, <2>1, <2>2 DEF At
  <2> HIDE DEF h
  <2>4. At(readers[h], "started") \in Reads /\ At(readers[h], "started").state = "started"
    <3>1. readers[h] \in Reads /\ "started" \in Stages
      BY <1>1, <2>1, <2>2, ReadsTyped, Held
    <3>2. QED
      BY <3>1, ReadAt
  <2>5. HistoryTypes' /\ EpochsDistinct' /\ Stored' /\ CachesFresh' /\ ReadsOk'
    <3>1. readers' \in [Readers -> {NoRead} \cup Reads]
      <4>1. \A p \in Readers : readers'[p] \in {NoRead} \cup Reads
        BY <1>4, <2>3, <2>4
      <4>2. readers' = [p \in Readers |-> readers'[p]]
        BY <1>3
      <4>3. QED
        BY <4>1, <4>2
    <3>2. waiting' \in Seq(Readers) /\ active' \in Nat
      BY <1>4, <2>1, <2>3
    <3>3. \A p \in Readers : \/ readers'[p] = readers[p] \/ readers'[p] = NoRead
                             \/ readers[p].state = "waiting" /\ readers'[p] = At(readers[p], "started")
      BY <2>2, <2>3
    <3>4. QED
      BY <1>2, <3>1, <3>2, <3>3, RequestsKept
  <2>6. \A i \in 1..Len(Tail(waiting)) : i + 1 \in 1..Len(waiting) /\ i + 1 # 1
    BY <2>1
  <2>7. QueueOk'
    <3>1. Distinct(Tail(waiting))
      <4> SUFFICES ASSUME NEW i \in 1..Len(Tail(waiting)), NEW j \in 1..Len(Tail(waiting)),
                          Tail(waiting)[i] = Tail(waiting)[j]
                   PROVE  i = j
        BY DEF Distinct
      <4>1. i + 1 = j + 1
        BY <1>1, <2>1, <2>6 DEF QueueOk, Distinct
      <4>2. QED
        BY <2>1, <4>1
    <3>2. ASSUME NEW i \in 1..Len(Tail(waiting)) PROVE readers'[Tail(waiting)[i]].state = "waiting"
      <4>1. Tail(waiting)[i] = waiting[i + 1] /\ i + 1 \in 1..Len(waiting) /\ i + 1 # 1
        BY <2>1, <2>6
      <4>2. waiting[i + 1] \in Readers /\ readers[waiting[i + 1]].state = "waiting"
        BY <1>1, <1>4, <4>1, ElementOfSeq DEF QueueOk
      <4>3. waiting[i + 1] # h /\ waiting[i + 1] # q
        BY <1>1, <1>2, <2>1, <4>1, <4>2 DEF QueueOk, Distinct
      <4>4. QED
        BY <2>3, <4>1, <4>2, <4>3
    <3>3. QED
      BY <2>3, <3>1, <3>2 DEF QueueOk
  <2>8. WorkConserving'
    <3>1. {p \in Readers : readers'[p].state \in Running} = (RunningNow \ {q}) \cup {h}
      BY <2>1, <2>2, <2>3, <2>4 DEF RunningNow, Running, NoRead
    <3>2. h \notin RunningNow \ {q}
      BY <2>2 DEF RunningNow, Running
    <3>3. Cardinality((RunningNow \ {q}) \cup {h}) = (active - 1) + 1
      BY <1>7, <3>2, FS_AddElement
    <3>4. (active - 1) + 1 = active /\ active = Concurrency
      BY <1>4, <1>5, <1>9
    <3>5. QED
      BY <1>5, <2>3, <3>1, <3>3, <3>4 DEF WorkConserving
  <2>9. QED
    BY <2>5, <2>7, <2>8 DEF HistoryInv
<1>10. QED
  BY <1>8, <1>9

-----------------------------------------------------------------------------
(* The restart, and the theorem                                            *)

\* No read runs and no write is under way: where a process begins.
LEMMA Quiet ==
    ASSUME readers' = [q \in Readers |-> NoRead], waiting' = <<>>, active' = 0
    PROVE  ReadsOk' /\ QueueOk' /\ WorkConserving' /\ \A q \in Readers : readers'[q].state = "none"
<1>1. \A q \in Readers : readers'[q].state = "none"
  BY DEF NoRead
<1>2. ReadsOk'
  BY <1>1 DEF ReadsOk
<1>3. QueueOk'
  <2>1. Len(<<>>) = 0 /\ 1..0 = {}
    BY EmptySeq
  <2>2. QED
    BY <2>1 DEF QueueOk, Distinct
<1>4. WorkConserving'
  <2>1. {q \in Readers : readers'[q].state \in Running} = {}
    BY <1>1 DEF Running
  <2>2. Cardinality({}) = 0
    BY FS_EmptySet
  <2>3. 0 <= Concurrency
    BY CachedHistoryAssumption
  <2>4. active' = Cardinality({q \in Readers : readers'[q].state \in Running}) /\ active' <= Concurrency
    BY <2>1, <2>2, <2>3
  <2>5. QED
    BY <2>4 DEF WorkConserving
<1>5. QED
  BY <1>1, <1>2, <1>3, <1>4

\* What the shared cache holds when a process ends dies before the blur does.
LEMMA RestartStep ==
    ASSUME HistoryInv, HistoryRestart
    PROVE  HistoryInv'
<1>1. HistoryTypes /\ Stored /\ CachesFresh
  BY DEF HistoryInv
<1>2. /\ writers' = [w \in Writers |-> NoWrite] /\ epochs' = <<>> /\ l1' = <<>>
      /\ readers' = [q \in Readers |-> NoRead] /\ waiting' = <<>> /\ active' = 0
      /\ published' = rows /\ emptied' = {d \in Devices : rows[d] = 0} /\ blurUntil' = time + 2 * TTL
      /\ UNCHANGED <<rows, insertNo, l2, time>>
  BY DEF HistoryRestart
<1>3. /\ rows \in [Devices -> Nat] /\ insertNo \in Nat /\ time \in Nat /\ TTL \in Nat /\ l2 \in SUBSET Entries
  BY <1>1, CachedHistoryAssumption DEF HistoryTypes
<1>4. /\ <<>> \in Seq(EpochEntries) /\ <<>> \in Seq(Entries) /\ <<>> \in Seq(Readers)
      /\ Len(<<>>) = 0 /\ 1..0 = {}
  BY EmptySeq
<1>5. HistoryTypes'
  <2>1. blurUntil' \in Nat /\ emptied' \in SUBSET Devices
    BY <1>2, <1>3
  <2>2. QED
    BY <1>2, <1>3, <1>4, <2>1 DEF HistoryTypes
<1>6. EpochsDistinct'
  BY <1>2, <1>4 DEF EpochsDistinct, OneOfDevice
<1>7. Stored'
  BY <1>1, <1>2, <1>3 DEF Stored
<1>8. CachesFresh'
  <2>1. ASSUME NEW e \in l2 PROVE e.expires + TTL <= blurUntil' /\ e.expires <= time' + TTL
    <3>1. e.expires \in Nat /\ e.expires <= time + TTL
      BY <1>1, <1>3, <2>1 DEF CachesFresh, Entries
    <3>2. QED
      BY <1>2, <1>3, <3>1
  <2>2. QED
    BY <1>2, <1>4, <2>1 DEF CachesFresh
<1>9. ReadsOk' /\ QueueOk' /\ WorkConserving'
  BY <1>2, Quiet
<1>10. QED
  BY <1>5, <1>6, <1>7, <1>8, <1>9 DEF HistoryInv

LEMMA HistoryInitInv == HistoryInit => HistoryInv
<1> SUFFICES ASSUME HistoryInit PROVE HistoryInv
  OBVIOUS
<1>1. /\ rows = [d \in Devices |-> 0] /\ insertNo = 0 /\ writers = [w \in Writers |-> NoWrite]
      /\ epochs = <<>> /\ l1 = <<>> /\ l2 = {} /\ readers = [q \in Readers |-> NoRead]
      /\ waiting = <<>> /\ active = 0 /\ time = 0 /\ published = [d \in Devices |-> 0]
      /\ emptied = {} /\ blurUntil = 0
  BY DEF HistoryInit
<1>2. /\ <<>> \in Seq(EpochEntries) /\ <<>> \in Seq(Entries) /\ <<>> \in Seq(Readers)
      /\ Len(<<>>) = 0 /\ 1..0 = {}
  BY EmptySeq
<1>3. HistoryTypes
  BY <1>1, <1>2 DEF HistoryTypes
<1>4. EpochsDistinct /\ Stored /\ CachesFresh
  BY <1>1, <1>2 DEF EpochsDistinct, OneOfDevice, Stored, CachesFresh
<1>5. \A q \in Readers : readers[q].state = "none"
  BY <1>1 DEF NoRead
<1>6. ReadsOk /\ QueueOk
  BY <1>1, <1>2, <1>5 DEF ReadsOk, QueueOk, Distinct
<1>7. WorkConserving
  <2>1. {q \in Readers : readers[q].state \in Running} = {}
    BY <1>5 DEF Running
  <2>2. Cardinality({}) = 0
    BY FS_EmptySet
  <2>3. 0 <= Concurrency
    BY CachedHistoryAssumption
  <2>4. active = Cardinality({q \in Readers : readers[q].state \in Running}) /\ active <= Concurrency
    BY <1>1, <2>1, <2>2, <2>3
  <2>5. QED
    BY <1>1, <2>4 DEF WorkConserving
<1>8. QED
  BY <1>3, <1>4, <1>6, <1>7 DEF HistoryInv

LEMMA HistoryStandsStill ==
    ASSUME HistoryInv, UNCHANGED historyVars
    PROVE  HistoryInv'
<1>1. UNCHANGED <<rows, insertNo, writers, epochs, l1, l2, readers, waiting, active,
                  time, published, emptied, blurUntil, restarts>>
  BY DEF historyVars
<1>2. UNCHANGED writeState /\ UNCHANGED <<l1, l2>>
  BY <1>1 DEF writeState
<1>3. readers' \in [Readers -> {NoRead} \cup Reads] /\ waiting' \in Seq(Readers) /\ active' \in Nat
  BY <1>1 DEF HistoryInv, HistoryTypes
<1>4. HistoryTypes' /\ EpochsDistinct' /\ Stored' /\ CachesFresh' /\ ReadsOk'
  BY <1>1, <1>2, <1>3, RequestsKept
<1>5. QueueOk' /\ WorkConserving'
  BY <1>1, WorkKept DEF HistoryInv, HistoryTypes
<1>6. QED
  BY <1>4, <1>5 DEF HistoryInv

LEMMA HistoryStep ==
    ASSUME Cardinality(Devices) <= MaxEpochs, HistoryInv, [HistoryNext]_historyVars
    PROVE  HistoryInv'
<1>1. ASSUME NEW w \in Writers, NEW d \in Devices, InsertStored(w, d) \/ HistoryDeleted(w, d) PROVE HistoryInv'
  BY <1>1, StoredStep, DeletedStep
<1>2. ASSUME NEW w \in Writers, InsertAcknowledged(w) \/ HistoryCleared(w) PROVE HistoryInv'
  BY <1>2, AcknowledgedStep
<1>3. ASSUME NEW q \in Readers, NEW d \in Devices, NEW win \in Windows, Request(q, d, win) PROVE HistoryInv'
  BY <1>3, RequestStep
<1>4. ASSUME NEW q \in Readers, ReadSteps(q) PROVE HistoryInv'
  BY <1>4, BeginStep, SharedReplyStep, SelectRunsStep, FillStep, SettleStepKeeps DEF ReadSteps
<1>5. CASE RetentionCleanup \/ HistoryTick
  BY <1>5, CleanupOrTickStep
<1>6. CASE HistoryRestart
  BY <1>6, RestartStep
<1>7. CASE UNCHANGED historyVars
  BY <1>7, HistoryStandsStill
<1>8. QED
  BY <1>1, <1>2, <1>3, <1>4, <1>5, <1>6, <1>7 DEF HistoryNext

LEMMA HistoryInvImpliesSound == HistoryInv => HistorySound
<1> SUFFICES ASSUME HistoryInv PROVE HistorySound
  OBVIOUS
<1>1. ReadsOk /\ WorkConserving
  BY DEF HistoryInv
<1>2. ASSUME NEW q \in Readers, readers[q].state = "publish", readers[q].clear
      PROVE  readers[q].value >= readers[q].floor /\ (readers[q].gone => readers[q].value = 0)
  BY <1>1, <1>2 DEF ReadsOk, ReadFits
<1>3. ReadsSeeAcknowledged /\ ClearedIsGone
  BY <1>2 DEF ReadsSeeAcknowledged, ClearedIsGone
<1>4. QED
  BY <1>1, <1>3 DEF HistorySound

\* While the Map remembers the epoch of every device: whatever writes, clears,
\* fills, evictions, errors and restarts interleave, no answer is older than what
\* was acknowledged before it was asked for, a cleared device shows no rows, and no
\* slot is lost (CachedHistoryRepository over SharedQueryWork).
THEOREM HistorySoundHolds ==
    ASSUME Cardinality(Devices) <= MaxEpochs
    PROVE  HistorySpec => []HistorySound
<1>1. HistoryInv /\ [HistoryNext]_historyVars => HistoryInv'
  BY HistoryStep
<1>2. HistorySpec => []HistoryInv
  BY <1>1, HistoryInitInv, PTL DEF HistorySpec
<1>3. QED
  BY <1>2, HistoryInvImpliesSound, PTL
=============================================================================
