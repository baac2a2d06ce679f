--------------------------- MODULE CachedHistory ---------------------------
(***************************************************************************)
(* Reads of the history: SharedQueryWork joins identical requests and      *)
(* bounds how many run, CachedHistoryRepository looks in the process's TTL *)
(* cache (L1), then in Redis (L2), then in MySQL.  A key carries the       *)
(* device's epoch, which every acknowledged write moves on; the epochs     *)
(* live in memory while L2 outlives the process.                           *)
(*                                                                         *)
(* The rows of a device are abstracted to the number of the last insert    *)
(* that they contain (0: no rows), so that staleness is a comparison.      *)
(***************************************************************************)
EXTENDS Integers, Sequences, FiniteSets

CONSTANTS
    Devices, Windows, Readers, Writers,
    TTL,            \* ticks an entry of either cache lives
    MaxEntries,     \* entries of L1
    MaxEpochs,      \* devices whose epoch is remembered
    Concurrency,    \* operations that run at once
    Capacity,       \* operations that run or wait
    MaxInserts, MaxClock, MaxRestarts    \* bounds

ASSUME CachedHistoryAssumption ==
    /\ IsFiniteSet(Devices) /\ IsFiniteSet(Readers)
    /\ TTL \in Nat \ {0} /\ MaxEntries \in Nat \ {0} /\ MaxEpochs \in Nat \ {0}
    /\ Concurrency \in Nat \ {0} /\ Capacity \in Nat /\ Capacity >= Concurrency
    /\ MaxInserts \in Nat /\ MaxClock \in Nat /\ MaxRestarts \in Nat

VARIABLES
    rows,       \* MySQL: per device, the last insert its rows contain
    insertNo,   \* inserts so far
    writers,    \* per writer, the write whose statement has run
    epochs,     \* the Map of epochs: device and epoch, in insertion order
    l1,         \* BoundedTtlCache: entries, least recently used first
    l2,         \* Redis: the set of entries
    readers,    \* per reader, its request
    waiting,    \* SharedQueryWork: operations without a slot
    active,     \* SharedQueryWork: slots taken
    time,
    published,  \* history: per device, rows when its epoch last moved
    emptied,    \* history: devices cleared, with no insert since
    blurUntil,  \* history: until then L2 may hold entries of an earlier process
    restarts

historyVars == <<rows, insertNo, writers, epochs, l1, l2, readers, waiting, active,
                 time, published, emptied, blurUntil, restarts>>

NoWrite == [state |-> "none"]
NoRead == [state |-> "none"]

epoch(d) ==
    IF \E i \in DOMAIN epochs : epochs[i].device = d
    THEN epochs[CHOOSE i \in DOMAIN epochs : epochs[i].device = d].epoch
    ELSE 0

\* Mutant: only a device that has an epoch is moved on.
BumpedIfKnown(d) ==
    [i \in DOMAIN epochs |-> IF epochs[i].device = d THEN [epochs[i] EXCEPT !.epoch = @ + 1] ELSE epochs[i]]

\* bump: a new device goes to the end of the Map; past the bound the Map
\* forgets its first device.
Bumped(d) ==
    LET next == [device |-> d, epoch |-> epoch(d) + 1]
        known == \E i \in DOMAIN epochs : epochs[i].device = d
        all == IF known
               THEN [i \in DOMAIN epochs |-> IF epochs[i].device = d THEN next ELSE epochs[i]]
               ELSE Append(epochs, next)
    IN  IF Len(all) > MaxEpochs THEN Tail(all) ELSE all

KeyNow(r) == <<r.device, r.window, epoch(r.device)>>

\* Map.delete: a cache holds one entry of a key at most.
Without(cache, key) ==
    IF \E i \in DOMAIN cache : cache[i].key = key
    THEN LET at == CHOOSE i \in DOMAIN cache : cache[i].key = key
         IN  SubSeq(cache, 1, at - 1) \o SubSeq(cache, at + 1, Len(cache))
    ELSE cache

Live(e) == e.expires > time

\* BoundedTtlCache.get moves a live entry to the end and drops a dead one.
CacheHits(key) == {i \in DOMAIN l1 : l1[i].key = key /\ Live(l1[i])}
CacheGet(key) ==
    IF CacheHits(key) = {} THEN Without(l1, key)
    ELSE Append(Without(l1, key), l1[CHOOSE i \in CacheHits(key) : TRUE])

\* BoundedTtlCache.set, with the eviction of the least recently used entry.
CacheSet(key, value) ==
    LET all == Append(Without(l1, key), [key |-> key, value |-> value, expires |-> time + TTL])
    IN  IF Len(all) > MaxEntries THEN Tail(all) ELSE all

SharedHits(key) == {e \in l2 : e.key = key /\ Live(e)}

----------------------------------------------------------------------------
(* Writes.                                                                 *)

HistoryInit ==
    /\ rows = [d \in Devices |-> 0]
    /\ insertNo = 0
    /\ writers = [w \in Writers |-> NoWrite]
    /\ epochs = <<>>
    /\ l1 = <<>>
    /\ l2 = {}
    /\ readers = [q \in Readers |-> NoRead]
    /\ waiting = <<>>
    /\ active = 0
    /\ time = 0
    /\ published = [d \in Devices |-> 0]
    /\ emptied = {}
    /\ blurUntil = 0
    /\ restarts = 0

readState == <<l1, l2, waiting, active, time, blurUntil, restarts>>

\* A read that began after a clear may see rows inserted since.
NoLongerGone(d) ==
    [q \in Readers |-> IF readers[q].state # "none" /\ readers[q].device = d
                       THEN [readers[q] EXCEPT !.gone = FALSE] ELSE readers[q]]

\* insertMinutePoint, insertHourlyPoint: MySQL has the row, and the caller
\* is either resumed ("insert") or sees a timeout and no epoch moves.
InsertStored(w, d) ==
    /\ writers[w].state = "none"
    /\ insertNo < MaxInserts
    /\ insertNo' = insertNo + 1
    /\ rows' = [rows EXCEPT ![d] = insertNo + 1]
    /\ emptied' = emptied \ {d}
    /\ readers' = NoLongerGone(d)
    /\ \/ writers' = [writers EXCEPT ![w] = [state |-> "insert", device |-> d]]
       \/ UNCHANGED writers
    /\ UNCHANGED <<epochs, published>>
    /\ UNCHANGED readState

InsertAcknowledged(w) ==
    /\ writers[w].state = "insert"
    /\ epochs' = Bumped(writers[w].device)
    /\ published' = [published EXCEPT ![writers[w].device] = rows[writers[w].device]]
    /\ writers' = [writers EXCEPT ![w] = NoWrite]
    /\ UNCHANGED <<rows, insertNo, readers, emptied>>
    /\ UNCHANGED readState

\* clearDeviceHistory, up to the last DELETE.
HistoryDeleted(w, d) ==
    /\ writers[w].state = "none"
    /\ rows[d] # 0
    /\ rows' = [rows EXCEPT ![d] = 0]
    /\ published' = [published EXCEPT ![d] = 0]
    /\ writers' = [writers EXCEPT ![w] = [state |-> "clear", device |-> d]]
    /\ readers' = [q \in Readers |-> IF readers[q].state # "none" /\ readers[q].device = d
                                     THEN [readers[q] EXCEPT !.floor = 0] ELSE readers[q]]
    /\ UNCHANGED <<insertNo, epochs, emptied>>
    /\ UNCHANGED readState

HistoryCleared(w) ==
    /\ writers[w].state = "clear"
    /\ epochs' = Bumped(writers[w].device)
    /\ l1' = <<>>
    /\ published' = [published EXCEPT ![writers[w].device] = rows[writers[w].device]]
    /\ emptied' = IF rows[writers[w].device] = 0 THEN emptied \cup {writers[w].device} ELSE emptied
    /\ writers' = [writers EXCEPT ![w] = NoWrite]
    /\ UNCHANGED <<rows, insertNo, l2, readers, waiting, active, time, blurUntil, restarts>>

\* runRetentionCleanup removes rows that no window shows and empties L1.
RetentionCleanup ==
    /\ l1 # <<>>
    /\ l1' = <<>>
    /\ UNCHANGED <<rows, insertNo, writers, epochs, l2, readers, waiting, active, time,
                   published, emptied, blurUntil, restarts>>

----------------------------------------------------------------------------
(* Reads: SharedQueryWork.run.                                             *)

writeState == <<rows, insertNo, writers, epochs, time, published, emptied, blurUntil, restarts>>

Running == {"started", "shared", "query", "read", "publish"}

\* The Map of pending operations.
Pending == {q \in Readers : readers[q].state \in Running \cup {"waiting"}}
Identical(q, d, win) == {p \in Pending : readers[p].device = d /\ readers[p].window = win}

Request(q, d, win) ==
    LET ask(state) == [state |-> state, device |-> d, window |-> win, key |-> <<d, win, 0>>,
                       value |-> 0, leader |-> q, floor |-> published[d],
                       gone |-> FALSE, clear |-> time >= blurUntil]
    IN  /\ readers[q].state = "none"
        /\ \/ /\ Identical(q, d, win) # {}
              /\ readers' = [readers EXCEPT ![q] =
                               [ask("joined") EXCEPT !.leader = CHOOSE p \in Identical(q, d, win) : TRUE]]
              /\ UNCHANGED <<waiting, active>>
           \* A QueueCapacityError at once: nothing changes.
           \/ /\ Identical(q, d, win) = {}
              /\ Cardinality(Pending) >= Capacity
              /\ UNCHANGED <<readers, waiting, active>>
           \/ /\ Identical(q, d, win) = {}
              /\ Cardinality(Pending) < Capacity
              /\ IF active < Concurrency
                 THEN /\ readers' = [readers EXCEPT ![q] = ask("started")]
                      /\ active' = active + 1
                      /\ UNCHANGED waiting
                 ELSE /\ readers' = [readers EXCEPT ![q] = ask("waiting")]
                      /\ waiting' = Append(waiting, q)
                      /\ UNCHANGED active
    /\ UNCHANGED <<l1, l2>>
    /\ UNCHANGED writeState

\* The operation settles: its request, those that joined it, and its slot,
\* which the first operation that waits takes over.
SettleWork(q) ==
    /\ readers' = [p \in Readers |->
         IF p = q \/ (readers[p].state = "joined" /\ readers[p].leader = q) THEN NoRead
         ELSE IF waiting # <<>> /\ p = Head(waiting)
              THEN [readers[p] EXCEPT !.state = "started"]
         ELSE readers[p]]
    /\ waiting' = IF waiting = <<>> THEN <<>> ELSE Tail(waiting)
    /\ active' = IF waiting = <<>> THEN active - 1 ELSE active

----------------------------------------------------------------------------
(* Reads: CachedHistoryRepository.readThrough.                             *)

\* The operation runs: the key is made now, with the epoch of now.
Begin(q) ==
    /\ readers[q].state = "started"
    /\ LET key == KeyNow(readers[q])
           begun == [readers[q] EXCEPT !.key = key, !.floor = published[readers[q].device],
                                       !.gone = readers[q].device \in emptied,
                                       !.clear = time >= blurUntil]
       IN  /\ l1' = CacheGet(key)
           /\ IF CacheHits(key) # {}
              THEN /\ readers' = [readers EXCEPT ![q] =
                                    [begun EXCEPT !.state = "publish",
                                                  !.value = l1[CHOOSE i \in CacheHits(key) : TRUE].value]]
              ELSE readers' = [readers EXCEPT ![q] = [begun EXCEPT !.state = "shared"]]
    /\ UNCHANGED <<l2, waiting, active>>
    /\ UNCHANGED writeState

\* readShared: a hit, or a miss, an expired entry or an error.
SharedReply(q) ==
    /\ readers[q].state = "shared"
    /\ \/ \E e \in SharedHits(readers[q].key) :
             /\ l1' = CacheSet(readers[q].key, e.value)
             /\ readers' = [readers EXCEPT ![q].state = "publish", ![q].value = e.value]
       \/ /\ readers' = [readers EXCEPT ![q].state = "query"]
          /\ UNCHANGED l1
    /\ UNCHANGED <<l2, waiting, active>>
    /\ UNCHANGED writeState

\* MySQL runs the SELECT.
SelectRuns(q) ==
    /\ readers[q].state = "query"
    /\ readers' = [readers EXCEPT ![q].state = "read", ![q].value = rows[readers[q].device]]
    /\ UNCHANGED <<l1, l2, waiting, active>>
    /\ UNCHANGED writeState

\* The rows arrive: L1 is filled, then L2 unless Redis refuses.
Fill(q) ==
    /\ readers[q].state = "read"
    /\ l1' = CacheSet(readers[q].key, readers[q].value)
    /\ \/ l2' = {e \in l2 : e.key # readers[q].key}
                  \cup {[key |-> readers[q].key, value |-> readers[q].value, expires |-> time + TTL]}
       \/ UNCHANGED l2
    /\ readers' = [readers EXCEPT ![q].state = "publish"]
    /\ UNCHANGED <<waiting, active>>
    /\ UNCHANGED writeState

Answer(q) ==
    /\ readers[q].state = "publish"
    /\ SettleWork(q)
    /\ UNCHANGED <<l1, l2>>
    /\ UNCHANGED writeState

ReadFails(q) ==
    /\ readers[q].state = "read"
    /\ SettleWork(q)
    /\ UNCHANGED <<l1, l2>>
    /\ UNCHANGED writeState

----------------------------------------------------------------------------

HistoryTick ==
    /\ time < MaxClock
    /\ time' = time + 1
    /\ l2' = {e \in l2 : e.expires > time + 1}
    /\ UNCHANGED <<rows, insertNo, writers, epochs, l1, readers, waiting, active,
                   published, emptied, blurUntil, restarts>>

\* The process ends and starts again: only MySQL and Redis remember.  What
\* L2 still holds was read up to now, and L1 may copy it once more.
HistoryRestart ==
    /\ restarts < MaxRestarts
    /\ restarts' = restarts + 1
    /\ writers' = [w \in Writers |-> NoWrite]
    /\ epochs' = <<>>
    /\ l1' = <<>>
    /\ readers' = [q \in Readers |-> NoRead]
    /\ waiting' = <<>>
    /\ active' = 0
    /\ published' = rows
    /\ emptied' = {d \in Devices : rows[d] = 0}
    /\ blurUntil' = time + 2 * TTL
    /\ UNCHANGED <<rows, insertNo, l2, time>>

ReadSteps(q) == Begin(q) \/ SharedReply(q) \/ SelectRuns(q) \/ Fill(q) \/ Answer(q) \/ ReadFails(q)

HistoryNext ==
    \/ \E w \in Writers, d \in Devices : InsertStored(w, d) \/ HistoryDeleted(w, d)
    \/ \E w \in Writers : InsertAcknowledged(w) \/ HistoryCleared(w)
    \/ \E q \in Readers, d \in Devices, win \in Windows : Request(q, d, win)
    \/ \E q \in Readers : ReadSteps(q)
    \/ RetentionCleanup
    \/ HistoryTick
    \/ HistoryRestart

HistorySpec == HistoryInit /\ [][HistoryNext]_historyVars

----------------------------------------------------------------------------

\* An operation answers with at least what every write acknowledged before
\* it began had stored, whatever fill was in flight when the epoch moved;
\* after a restart, once the earlier process's entries have died in both caches.
ReadsSeeAcknowledged ==
    \A q \in Readers :
        readers[q].state = "publish" /\ readers[q].clear => readers[q].value >= readers[q].floor

\* An operation that began after a device was cleared, and during which
\* nothing was inserted, shows no row of it (under the same condition).
ClearedIsGone ==
    \A q \in Readers :
        readers[q].state = "publish" /\ readers[q].clear /\ readers[q].gone => readers[q].value = 0

\* No slot is idle while an operation waits, and the slots are accounted for.
WorkConserving ==
    /\ active = Cardinality({q \in Readers : readers[q].state \in Running})
    /\ active <= Concurrency
    /\ waiting # <<>> => active = Concurrency

\* What the operations that read the history promise while writes, clears, fills,
\* evictions and a restart interleave: none answers with less than what was
\* acknowledged before it began (readThrough, bump), and no slot is lost.  A
\* request that joins an operation gets the answer of that operation, however
\* late it joins: NextReadSeesWrite is about it.
HistorySound == ReadsSeeAcknowledged /\ ClearedIsGone /\ WorkConserving

\* query-work.ts: "only concurrent identical reads join. No settled values survive, so
\* a successful write is visible to the next read."  A read, one that joins an
\* operation under way included, is answered with at least what the writes
\* acknowledged before it was made had stored.
NextReadSeesWrite ==
    \A q, p \in Readers :
        /\ readers[q].state = "publish" /\ readers[q].clear
        /\ p = q \/ (readers[p].state = "joined" /\ readers[p].leader = q)
        => readers[q].value >= readers[p].floor
=============================================================================
