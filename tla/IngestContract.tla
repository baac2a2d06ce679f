--------------------------- MODULE IngestContract ---------------------------
(***************************************************************************)
(* What the Hub promises an agent about the samples it uploads and about   *)
(* the device's presence.  The Hub takes a sample only if it is newer than *)
(* every sample it took since the device was added: a sample is taken at   *)
(* most once, in the order of time.  Taking one is also what makes the     *)
(* device online; it goes offline keeping its latest reading, and removal  *)
(* forgets it.                                                             *)
(*                                                                         *)
(* MetricsService implements this specification; TelemetryDelivery runs an *)
(* agent against it.                                                       *)
(***************************************************************************)
EXTENDS Integers

CONSTANTS Device, MaxTimestamp

VARIABLES
    latest,   \* the latest sample taken from each device, 0 if none
    taken,    \* the samples taken so far
    online    \* whether the device is shown online

contractVars == <<latest, taken, online>>

Start ==
    /\ latest = [d \in Device |-> 0]
    /\ taken = [d \in Device |-> {}]
    /\ online = [d \in Device |-> FALSE]

\* Only a newer sample is taken; any other one is acknowledged and ignored.
CanTake(d, ts) == ts > latest[d]

Take(d, ts) ==
    /\ CanTake(d, ts)
    /\ latest' = [latest EXCEPT ![d] = ts]
    /\ taken' = [taken EXCEPT ![d] = @ \cup {ts}]
    /\ online' = [online EXCEPT ![d] = TRUE]

Expire(d) ==
    /\ online[d]
    /\ online' = [online EXCEPT ![d] = FALSE]
    /\ UNCHANGED <<latest, taken>>

Forget(d) ==
    /\ latest' = [latest EXCEPT ![d] = 0]
    /\ online' = [online EXCEPT ![d] = FALSE]
    /\ UNCHANGED taken

Step == \E d \in Device : Expire(d) \/ Forget(d) \/ \E ts \in 1..MaxTimestamp : Take(d, ts)

Contract == Start /\ [][Step]_contractVars
=============================================================================
