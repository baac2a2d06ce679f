--------------------------- MODULE WriteBatcher ---------------------------
(***************************************************************************)
(* MysqlHistoryWriteBatcher: inserts of single history rows are buffered   *)
(* per table and written by multi-row upserts.  The drain of a table is    *)
(* an asynchronous loop; its marker is reset by a `finally` callback, one  *)
(* microtask after the loop has seen an empty buffer ("ended").  In that   *)
(* gap only microtasks run: no timer fires and no reply is processed.      *)
(*                                                                         *)
(* A row is the sample count of the one bucket its caller writes: that is  *)
(* what the upsert compares.  Every row has the same size.                 *)
(***************************************************************************)
EXTENDS Integers, Sequences, FiniteSets

CONSTANTS
    Callers,        \* the insert calls in flight: one row each
    MaxRows,        \* rows of a statement
    MaxBytes,       \* bytes of a statement
    RowBytes,       \* estimated size of one row
    MaxCount,       \* bound: sample counts
    MaxRejects      \* bound: statements that fail

ASSUME BatcherAssumption ==
    /\ MaxRows \in Nat /\ MaxRows > 1
    /\ RowBytes \in Nat \ {0}
    /\ MaxBytes \in Nat /\ MaxBytes > RowBytes
    /\ MaxCount \in Nat /\ MaxRejects \in Nat

Kinds == {"minute", "hourly"}

VARIABLES
    buffers,    \* per table, the callers whose rows wait
    batch,      \* per table, the callers of the statement in flight
    drains,     \* per table, the drain marker: none, querying or ended
    timer,      \* whether the delay timer is armed
    inserts,    \* per caller, the insert it awaits
    stored,     \* per table, the sample count of the row in MySQL
    flushing,   \* flush(): no, waiting or done
    awaited,    \* the drains that flush() awaits
    rejects     \* statements that failed so far

batcherVars == <<buffers, batch, drains, timer, inserts, stored, flushing, awaited, rejects>>

NoInsert == [state |-> "none", kind |-> "minute", count |-> 0]

Rows(s) == {s[i] : i \in DOMAIN s}

bufferBytes(buffer) == Len(buffer) * RowBytes

\* The limits that make an insert drain its table at once.
Full(buffer) == bufferBytes(buffer) >= MaxBytes \/ Len(buffer) >= MaxRows

\* The rows that the inner loop of a drain takes: it stops at MaxRows, or
\* once the bytes taken have reached MaxBytes.
BatchSize(buffer) ==
    CHOOSE n \in 0..Len(buffer) :
        /\ \A m \in 0..(n - 1) : m < MaxRows /\ m * RowBytes < MaxBytes
        /\ n = Len(buffer) \/ n >= MaxRows \/ n * RowBytes >= MaxBytes

\* One turn of the drain loop over `buffer`: the next statement, or the end.
LoopTurn(k, buffer) ==
    LET n == BatchSize(buffer)
    IN  [buffer |-> SubSeq(buffer, n + 1, Len(buffer)),
         batch  |-> SubSeq(buffer, 1, n),
         drain  |-> IF n = 0 THEN "ended" ELSE "querying"]

\* drain(kind): join the drain whose marker is set, or run the loop.
Drain(k, buffer) ==
    IF drains[k] # "none"
    THEN [buffer |-> buffer, batch |-> batch[k], drain |-> drains[k]]
    ELSE LoopTurn(k, buffer)

DrainAll ==
    /\ buffers' = [k \in Kinds |-> Drain(k, buffers[k]).buffer]
    /\ batch' = [k \in Kinds |-> Drain(k, buffers[k]).batch]
    /\ drains' = [k \in Kinds |-> Drain(k, buffers[k]).drain]

\* Timers and replies are macrotasks: they wait until no microtask is left.
InMicrotasks == \E k \in Kinds : drains[k] = "ended"

----------------------------------------------------------------------------

BatcherInit ==
    /\ buffers = [k \in Kinds |-> <<>>]
    /\ batch = [k \in Kinds |-> <<>>]
    /\ drains = [k \in Kinds |-> "none"]
    /\ timer = FALSE
    /\ inserts = [c \in Callers |-> NoInsert]
    /\ stored = [k \in Kinds |-> 0]
    /\ flushing = "no"
    /\ awaited = {}
    /\ rejects = 0

\* insertMinutePoint, insertHourlyPoint.  Shutdown has drained every caller
\* before it flushes, so none inserts from then on.
EnqueueRow(c, k, n) ==
    /\ flushing = "no"
    /\ inserts[c].state # "waiting"
    /\ inserts' = [inserts EXCEPT ![c] = [state |-> "waiting", kind |-> k, count |-> n]]
    /\ LET buffer == Append(buffers[k], c)
           after == IF Full(buffer)
                    THEN Drain(k, buffer)
                    ELSE [buffer |-> buffer, batch |-> batch[k], drain |-> drains[k]]
       IN  /\ buffers' = [buffers EXCEPT ![k] = after.buffer]
           /\ batch' = [batch EXCEPT ![k] = after.batch]
           /\ drains' = [drains EXCEPT ![k] = after.drain]
           /\ timer' = (timer \/ ~Full(buffer))
    /\ UNCHANGED <<stored, flushing, awaited, rejects>>

\* Mutant: the timer fires and drains nothing.
TimerLost ==
    /\ timer
    /\ ~InMicrotasks
    /\ timer' = FALSE
    /\ UNCHANGED <<buffers, batch, drains, inserts, stored, flushing, awaited, rejects>>

\* The delay timer of schedule().
TimerFires ==
    /\ timer
    /\ ~InMicrotasks
    /\ timer' = FALSE
    /\ DrainAll
    /\ UNCHANGED <<inserts, stored, flushing, awaited, rejects>>

\* ON DUPLICATE KEY UPDATE keeps the row with the larger sample count.
Upserted(k) ==
    LET counts == {inserts[c].count : c \in Rows(batch[k])} \cup {stored[k]}
    IN  CHOOSE n \in counts : \A m \in counts : m <= n

\* The loop goes on with what was buffered while the statement ran.
Settle(k, outcome) ==
    LET turn == LoopTurn(k, buffers[k])
    IN  /\ drains[k] = "querying"
        /\ ~InMicrotasks
        /\ inserts' = [c \in Callers |->
                         IF c \in Rows(batch[k]) THEN [inserts[c] EXCEPT !.state = outcome] ELSE inserts[c]]
        /\ buffers' = [buffers EXCEPT ![k] = turn.buffer]
        /\ batch' = [batch EXCEPT ![k] = turn.batch]
        /\ drains' = [drains EXCEPT ![k] = turn.drain]
        /\ UNCHANGED <<timer, flushing, awaited>>

StatementDone(k) ==
    /\ Settle(k, "resolved")
    /\ stored' = [stored EXCEPT ![k] = Upserted(k)]
    /\ UNCHANGED rejects

\* Mutant: the error of a statement is swallowed.
StatementFailsSilently(k) ==
    /\ rejects < MaxRejects
    /\ Settle(k, "resolved")
    /\ UNCHANGED stored
    /\ rejects' = rejects + 1

\* A statement fails before, or (a timeout) after, MySQL has applied it.
StatementFails(k) ==
    /\ rejects < MaxRejects
    /\ Settle(k, "rejected")
    /\ \E applied \in BOOLEAN :
           stored' = IF applied THEN [stored EXCEPT ![k] = Upserted(k)] ELSE stored
    /\ rejects' = rejects + 1

\* The `finally` callback of the drain; it settles the promise flush() awaits.
ResetDrain(k) ==
    /\ drains[k] = "ended"
    /\ drains' = [drains EXCEPT ![k] = "none"]
    /\ awaited' = awaited \ {k}
    /\ UNCHANGED <<buffers, batch, timer, inserts, stored, flushing, rejects>>

\* flush(), and its second round when rows are left after the first.
Flush ==
    /\ \/ flushing = "no"
       \/ flushing = "waiting" /\ awaited = {} /\ \E k \in Kinds : buffers[k] # <<>>
    /\ flushing' = "waiting"
    /\ timer' = FALSE
    /\ DrainAll
    /\ awaited' = Kinds
    /\ UNCHANGED <<inserts, stored, rejects>>

FlushDone ==
    /\ flushing = "waiting"
    /\ awaited = {}
    /\ \A k \in Kinds : buffers[k] = <<>>
    /\ flushing' = "done"
    /\ UNCHANGED <<buffers, batch, drains, timer, inserts, stored, awaited, rejects>>

BatcherNext ==
    \/ \E c \in Callers, k \in Kinds, n \in 1..MaxCount : EnqueueRow(c, k, n)
    \/ TimerFires
    \/ \E k \in Kinds : StatementDone(k) \/ StatementFails(k) \/ ResetDrain(k)
    \/ Flush
    \/ FlushDone

BatcherSpec == BatcherInit /\ [][BatcherNext]_batcherVars

----------------------------------------------------------------------------

BatcherTypeOK ==
    /\ buffers \in [Kinds -> Seq(Callers)]
    /\ batch \in [Kinds -> Seq(Callers)]
    /\ drains \in [Kinds -> {"none", "querying", "ended"}]
    /\ timer \in BOOLEAN
    /\ inserts \in [Callers -> [state : {"none", "waiting", "resolved", "rejected"},
                                kind : Kinds, count : 0..MaxCount]]
    /\ stored \in [Kinds -> 0..MaxCount]
    /\ flushing \in {"no", "waiting", "done"}
    /\ awaited \in SUBSET Kinds
    /\ rejects \in 0..MaxRejects

\* A buffered row always has something that will write it: the timer of
\* schedule(), a drain whose loop has not ended, or the flush of a shutdown.
\* (An insert in the gap before the marker's reset joins a finished drain.)
RowsCovered ==
    \A k \in Kinds : buffers[k] # <<>> => timer \/ drains[k] = "querying" \/ flushing = "waiting"

\* Every caller that waits has its row in exactly one place: once in the
\* buffer or once in the statement in flight of its table.
OneRowPerCaller ==
    \A c \in Callers, k \in Kinds :
        LET line == batch[k] \o buffers[k]
        IN  Cardinality({i \in DOMAIN line : line[i] = c})
              = IF inserts[c].state = "waiting" /\ inserts[c].kind = k THEN 1 ELSE 0

\* "Rows are never silently acknowledged" (the class comment): a resolved
\* insert's samples are in the table.
ResolvedIsStored ==
    \A c \in Callers : inserts[c].state = "resolved" => stored[inserts[c].kind] >= inserts[c].count

\* When flush() has returned, before the pool closes, nothing is buffered or
\* in flight and no caller waits.
FlushedIsSettled ==
    flushing = "done" =>
        /\ \A k \in Kinds : buffers[k] = <<>> /\ batch[k] = <<>>
        /\ \A c \in Callers : inserts[c].state # "waiting"

\* What the batcher promises, however inserts, timer, drains, failing statements
\* and the flush of a shutdown interleave: a row is in one place and something
\* will write it, no caller is told of a row that is not stored, and a flush
\* leaves nothing behind.
BatcherSound ==
    BatcherTypeOK /\ RowsCovered /\ OneRowPerCaller /\ ResolvedIsStored /\ FlushedIsSettled

\* Every insert is settled, written or refused: the flush of an accumulator
\* awaits it and holds the device's queue meanwhile.
InsertsSettle == \A c \in Callers : inserts[c].state = "waiting" ~> inserts[c].state # "waiting"
=============================================================================
