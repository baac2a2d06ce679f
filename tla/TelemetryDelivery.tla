-------------------------- MODULE TelemetryDelivery --------------------------
(***************************************************************************)
(* The agent's upload loop (agents/main.go) with its pending store, a      *)
(* spool file that survives the process, run against a Hub that keeps      *)
(* IngestContract.                                                         *)
(*                                                                         *)
(* A sample is its timestamp.  A request may be lost, refused, or answered *)
(* after the agent's HTTP client gave up; then the Hub may still process   *)
(* it later.  A command on the spool file may fail, and the agent may be   *)
(* killed at any step.                                                     *)
(***************************************************************************)
EXTENDS IngestContract, Sublists

CONSTANTS
    Invalid,      \* timestamps of the samples the Hub's schema refuses
    SpoolLimit,   \* samples that fit in maxBytes
    MaxAge,       \* maxAge of a queued sample
    MaxFaults,    \* bound: failed, delayed or refused requests, failed file commands
    MaxCrashes    \* bound: how often the agent is killed

ASSUME DeliveryAssumption ==
    /\ IsFiniteSet(Device) /\ Cardinality(Device) = 1
    /\ MaxTimestamp \in Nat
    /\ Invalid \subseteq 1..MaxTimestamp
    /\ SpoolLimit \in Nat \ {0}
    /\ MaxAge \in Nat
    /\ MaxFaults \in Nat
    /\ MaxCrashes \in Nat

VARIABLES
    now,       \* time, in upload cycles; the timestamp of the sample collected
    pc,        \* the agent: "wait", "drain", "post", "spool", "down"
    fresh,     \* the sample of this cycle, 0 if none
    draining,  \* the queued samples drain has yet to deliver
    spool,     \* the spool file
    sent,      \* the request the agent waits for, 0 if none
    late,      \* requests the agent gave up on that the Hub may still process
    faults,    \* failures so far
    crashes,   \* how often the agent was killed
    lost,      \* history: samples evicted, not written to the spool or in hand at a kill
    collected, \* history: samples collected
    clean      \* history: no failure since this cycle began

deliveryVars == <<contractVars, now, pc, fresh, draining, spool, sent, late, faults, crashes,
          lost, collected, clean>>

This      == CHOOSE d \in Device : TRUE
Timestamp == 1..MaxTimestamp
Elements(s) == {s[i] : i \in 1..Len(s)}

Fault   == faults < MaxFaults /\ faults' = faults + 1 /\ clean' = FALSE
NoFault == UNCHANGED <<faults, clean>>

-----------------------------------------------------------------------------
(* The pending store *)

\* prune: queued samples older than maxAge are dropped.
Prune(entries) == Sublist(entries, {i \in DOMAIN entries : now - entries[i] <= MaxAge})

\* fit: the oldest entries are dropped until the rest fits.
Fit(entries) ==
    IF Len(entries) <= SpoolLimit THEN entries
    ELSE SubSeq(entries, Len(entries) - SpoolLimit + 1, Len(entries))

\* sortEntries after append: by sampling time.
Insert(entries, ts) ==
    LET older == {i \in DOMAIN entries : entries[i] <= ts}
        newer == (DOMAIN entries) \ older IN
    Sublist(entries, older) \o <<ts>> \o Sublist(entries, newer)

\* enqueue leaves a sample that is queued already where it is.
Queued(entries, ts) ==
    IF ts \in Elements(entries) THEN entries ELSE Fit(Insert(entries, ts))

-----------------------------------------------------------------------------
(* The Hub *)

\* POST /api/agent/ingest: an invalid sample has no effect, an older one is
\* acknowledged without effect.
Serve(ts) ==
    IF ts \notin Invalid /\ CanTake(This, ts) THEN Take(This, ts) ELSE UNCHANGED contractVars

\* A request the agent no longer waits for reaches the Hub.
ServeLate ==
    /\ \E ts \in late : Serve(ts) /\ late' = late \ {ts}
    /\ UNCHANGED <<now, pc, fresh, draining, spool, sent, faults, crashes, lost, collected, clean>>

-----------------------------------------------------------------------------
(* The upload loop *)

\* A cycle while recording or cloud sync is disabled, or whose sample cannot be
\* serialised.
Pause ==
    /\ pc = "wait" /\ now < MaxTimestamp
    /\ now' = now + 1
    /\ UNCHANGED <<contractVars, pc, fresh, draining, spool, sent, late, faults, crashes,
                   lost, collected, clean>>

Collect ==
    /\ pc = "wait" /\ now < MaxTimestamp
    /\ now' = now + 1
    /\ fresh' = now'
    /\ collected' = collected \cup {now'}
    /\ clean' = TRUE
    /\ pc' = "read"
    /\ UNCHANGED <<contractVars, draining, spool, sent, late, faults, crashes, lost>>

\* drain: the queue is read; the file stays as it is until the drain ends.
ReadSpool ==
    /\ pc = "read"
    /\ \/ draining' = Prune(spool) /\ pc' = "drain" /\ NoFault
       \/ Fault /\ pc' = "post" /\ UNCHANGED draining
    /\ UNCHANGED <<contractVars, now, fresh, spool, sent, late, crashes, lost, collected>>

\* postMetricsContext, from drain and from the loop.
Send ==
    /\ sent = 0
    /\ \/ pc = "drain" /\ draining # <<>> /\ sent' = Head(draining)
       \/ pc = "post" /\ sent' = fresh
    /\ UNCHANGED <<contractVars, now, pc, fresh, draining, spool, late, faults, crashes,
                   lost, collected, clean>>

\* Mutant: the failed sample is left out of what remains.
RemainingAfter(entries) == Tail(entries)

\* entries[index:], the failed sample first.
Remaining(entries) == entries

\* The drain stops at a failure and writes back what remains, or fails to; the
\* loop goes on to the sample of this cycle all the same.
StopDrain ==
    /\ pc = "drain"
    /\ pc' = "post"
    /\ draining' = <<>>
    /\ spool' \in {Remaining(draining), spool}
    /\ UNCHANGED fresh

\* The loop keeps a sample that could not be posted, whatever the error.
KeepFresh == pc = "post" /\ pc' = "spool" /\ UNCHANGED <<fresh, draining, spool>>

\* isPermanentPayloadError: the drain drops the sample and goes on.
Refused ==
    \/ pc = "drain" /\ draining' = Tail(draining) /\ UNCHANGED <<pc, fresh, spool>>
    \/ KeepFresh

Accepted ==
    \/ pc = "drain" /\ draining' = Tail(draining) /\ UNCHANGED <<pc, fresh, spool>>
    \/ pc = "post" /\ pc' = "wait" /\ fresh' = 0 /\ UNCHANGED <<draining, spool>>

\* The Hub's answer arrives: 2xx, or 400, 413, 422 for an invalid sample.
Answered ==
    /\ sent # 0
    /\ sent' = 0
    /\ Serve(sent)
    /\ IF sent \in Invalid THEN Refused ELSE Accepted
    /\ UNCHANGED <<now, late, faults, crashes, lost, collected, clean>>

\* Any other error: the request never reached the Hub, was answered 401, 429 or
\* 5xx, or is still on its way when the client's timeout ends.
Failed ==
    /\ sent # 0
    /\ sent' = 0
    /\ Fault
    /\ StopDrain \/ KeepFresh
    /\ late' \in {late, late \cup {sent}}
    /\ UNCHANGED <<contractVars, now, crashes, lost, collected>>

\* Everything was delivered or dropped: the spool file is removed.
EndDrain ==
    /\ pc = "drain" /\ draining = <<>> /\ sent = 0
    /\ pc' = "post"
    /\ \/ spool' = <<>> /\ NoFault
       \/ Fault /\ UNCHANGED spool
    /\ UNCHANGED <<contractVars, now, fresh, draining, sent, late, crashes, lost, collected>>

Enqueue ==
    LET entries == Prune(spool)  kept == Queued(entries, fresh) IN
    /\ pc = "spool"
    /\ \/ /\ spool' = kept
          /\ lost' = lost \cup ((Elements(entries) \cup {fresh}) \ Elements(kept))
          /\ NoFault
       \/ /\ Fault
          /\ lost' = lost \cup {fresh}
          /\ UNCHANGED spool
    /\ pc' = "wait"
    /\ fresh' = 0
    /\ UNCHANGED <<contractVars, now, draining, sent, late, crashes, collected>>

\* The agent is killed; the request it waits for may still arrive.
Kill ==
    /\ pc # "down" /\ crashes < MaxCrashes
    /\ crashes' = crashes + 1
    /\ pc' = "down"
    /\ fresh' = 0 /\ draining' = <<>> /\ sent' = 0
    /\ late' \in {late, late \cup ({sent} \ {0})}
    /\ lost' = lost \cup ({fresh} \ {0})
    /\ clean' = FALSE
    /\ UNCHANGED <<contractVars, now, spool, faults, collected>>

Restart ==
    /\ pc = "down"
    /\ pc' = "wait"
    /\ UNCHANGED <<contractVars, now, fresh, draining, spool, sent, late, faults, crashes,
                   lost, collected, clean>>

-----------------------------------------------------------------------------
DeliveryInit ==
    /\ Start
    /\ now = 0 /\ pc = "wait" /\ fresh = 0 /\ draining = <<>> /\ spool = <<>> /\ sent = 0
    /\ late = {} /\ faults = 0 /\ crashes = 0
    /\ lost = {} /\ collected = {} /\ clean = TRUE

Cycle == ReadSpool \/ Send \/ Answered \/ Failed \/ EndDrain \/ Enqueue

DeliveryNext == Pause \/ Collect \/ Cycle \/ ServeLate \/ Kill \/ Restart

DeliverySpec == DeliveryInit /\ [][DeliveryNext]_deliveryVars

-----------------------------------------------------------------------------
(* Properties *)

\* Types; the queue is in order of time, within its limit, and what drain still
\* has to deliver is in the file.
SpoolSound ==
    /\ pc \in {"wait", "read", "drain", "post", "spool", "down"}
    /\ now \in 0..MaxTimestamp /\ fresh \in 0..now /\ sent \in 0..now
    /\ late \subseteq 1..now /\ lost \subseteq 1..now
    /\ spool \in Seq(1..now) /\ draining \in Seq(1..now)
    /\ Elements(draining) \subseteq Elements(spool)
    /\ Len(spool) <= SpoolLimit
    /\ \A i \in 1..(Len(spool) - 1) : spool[i] < spool[i + 1]

Held(ts) == fresh = ts \/ ts \in Elements(spool)

\* A sample leaves the agent only when the Hub took it, refused it, or already
\* took a newer one, or when it was too old, evicted by newer ones, or lost to
\* the disk or a kill before it was queued.  A kill in the middle of a drain
\* loses nothing.
Accounted ==
    \A ts \in collected :
        \/ Held(ts)
        \/ ts \in taken[This] \/ ts \in Invalid \/ \E t \in taken[This] : t > ts
        \/ ts \in lost \/ now - ts > MaxAge

\* A drain that met no failure empties the queue: a sample the Hub will never
\* accept does not block the samples behind it.
NothingBlocks == pc = "post" /\ clean => spool = <<>>

\* What the agent's queue promises over refusals, lost answers, a full spool and
\* kills: no sample disappears unaccounted for, the file stays in order and
\* within its limit, and a refused sample does not hold up the ones behind it.
DeliverySound == SpoolSound /\ Accounted /\ NothingBlocks

\* Flow.astro: samples wait on the device while the link is down and are uploaded
\* in order once it is back.  So a sample the agent delivered is one the Hub took.
BackfillDelivers ==
    \A ts \in collected :
        Held(ts) \/ ts \in taken[This] \/ ts \in Invalid \/ ts \in lost \/ now - ts > MaxAge

=============================================================================
