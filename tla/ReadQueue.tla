------------------------------ MODULE ReadQueue ------------------------------
(***************************************************************************)
(* The queue through which the browser console sends its optional reads.   *)
(* A read belongs to a cancellation lifetime (an AbortSignal); identical   *)
(* reads of one lifetime join, a few run at a time, and an abort releases  *)
(* the slots at once although the transport may go on.                     *)
(***************************************************************************)
EXTENDS Sublists

CONSTANTS
    Resources, Lifetimes,
    MaxReads,       \* reads created in a run
    QueueSize       \* reads that may wait (32 in the code)

VARIABLES
    waiting,        \* pending: entries in their order
    running,        \* entries that hold a slot
    joinable,       \* entries: per resource the read created last, 0 for none
    readLimit,      \* limit
    aborted,        \* lifetimes that were cancelled
    created, refused

queueVars == <<waiting, running, joinable, readLimit, aborted, created, refused>>

Live == {waiting[i] : i \in DOMAIN waiting} \cup running
EntryOf(id) == CHOOSE e \in Live : e.id = id

\* Mutant: an abort of a read that runs keeps its slot.
SlotKept(r) == {e \in r : TRUE}

\* Entries of a lifetime that ended hold no slot.
SlotsHeld(r) == {e \in r : e.lifetime \notin aborted'}

\* drain: the urgent reads first, in their order, into the free slots.
Drain(w, r) ==
    LET held == SlotsHeld(r)
        among(p) == {i \in DOMAIN w : w[i].lifetime \notin aborted' /\ w[i].priority = p}
        sorted == Sublist(w, among(1)) \o Sublist(w, among(2))
        room == readLimit' - Cardinality(held)
        free == IF room < 0 THEN 0 ELSE IF room > Len(sorted) THEN Len(sorted) ELSE room
    IN  /\ running' = held \cup {sorted[i] : i \in 1 .. free}
        /\ waiting' = SubSeq(sorted, free + 1, Len(sorted))

\* setLimit, with the network policy of every refresh.
SetLimit ==
    /\ readLimit' \in {1, 2} \ {readLimit}
    /\ UNCHANGED <<joinable, aborted, created, refused>>
    /\ Drain(waiting, running)

\* run: a read of an ended lifetime is refused, an identical one is joined, a
\* full queue refuses.
Run ==
    \E k \in Resources, l \in Lifetimes, p \in {1, 2} :
        /\ l \notin aborted
        /\ ~(joinable[k] # 0 /\ EntryOf(joinable[k]).lifetime = l)
        /\ created < MaxReads
        /\ UNCHANGED <<readLimit, aborted>>
        /\ IF Len(waiting) >= QueueSize
           THEN refused' = refused + 1 /\ created' = created + 1 /\ UNCHANGED <<waiting, running, joinable>>
           ELSE /\ created' = created + 1 /\ UNCHANGED refused
                /\ joinable' = [joinable EXCEPT ![k] = created']
                /\ Drain(Append(waiting, [id |-> created', key |-> k, lifetime |-> l, priority |-> p]), running)

\* entries.delete, only by the read that was created last.
Forgotten(ended) == [k \in Resources |-> IF joinable[k] \in {e.id : e \in ended} THEN 0 ELSE joinable[k]]

\* A read that runs ends, well or not.
ReadEnds ==
    \E e \in running :
        /\ UNCHANGED <<readLimit, aborted, created, refused>>
        /\ joinable' = Forgotten({e})
        /\ Drain(waiting, running \ {e})

\* A lifetime is aborted: all its reads, running or waiting, are settled.
AbortReads ==
    \E l \in Lifetimes \ aborted :
        /\ aborted' = aborted \cup {l}
        /\ UNCHANGED <<readLimit, created, refused>>
        /\ joinable' = Forgotten({e \in Live : e.lifetime = l})
        /\ Drain(waiting, running)

QueueInit ==
    /\ waiting = <<>> /\ running = {} /\ aborted = {}
    /\ joinable = [k \in Resources |-> 0]
    /\ readLimit = 2 /\ created = 0 /\ refused = 0

QueueNext == SetLimit \/ Run \/ ReadEnds \/ AbortReads

QueueSpec == QueueInit /\ [][QueueNext]_queueVars

----------------------------------------------------------------------------
(* Properties.                                                             *)

\* No slot is lost or taken twice: a read waits only while the slots are in
\* use by reads whose lifetime goes on (drain, the cancel of an entry).
SlotsUsed ==
    /\ waiting # <<>> => Cardinality(running) >= readLimit
    /\ \A e \in running : e.lifetime \notin aborted
    /\ Cardinality(running) <= 2

\* An identical read joins one that will still be answered, never a settled
\* one that would answer with the data of an earlier moment (run, finish).
JoinsLive == \A k \in Resources : joinable[k] # 0 => \E e \in Live : e.id = joinable[k] /\ e.key = k

\* What the queue keeps true over ends, aborts, joins and a change of its limit.
ReadQueueSound == SlotsUsed /\ JoinsLive
=============================================================================
