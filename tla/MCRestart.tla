----------------------------- MODULE MCRestart -----------------------------
(* Three model-checking instances of MetricsService in one run. *)
EXTENDS MetricsService, TLC

\* The handler slots are interchangeable.
Slots == Permutations(Requests)

\* A process that starts on a registry with two devices whose first uploads
\* ended, with the process before it, after they were registered.
InitRegistered ==
    /\ phase = "up" /\ now = 0 /\ faults = 0 /\ restarts = 0
    /\ registry = [d \in Device |-> [status |-> "open", group |-> NoGroup]]
    /\ live = [d \in Device |-> NoLive]
    /\ series = [d \in Device |-> [w \in Window |-> EmptySeries]]
    /\ acc = [d \in Device |-> NoAccs]
    /\ row = [d \in Device |-> [k \in Kind |-> [b \in Bucket |-> <<>>]]]
    /\ ingestQ = [d \in Device |-> <<>>] /\ deviceQ = [d \in Device |-> <<>>]
    /\ req = [r \in Requests |-> Idle] /\ flush = NoFlush /\ sweep = NoSweep
    /\ view = [d \in Device |-> Reloaded(d)]
    /\ published = [d \in Device |-> {}] /\ missed = [d \in Device |-> FALSE]
    /\ cut = [d \in Device |-> [k \in Kind |-> {}]]

VARIABLE part

Serves(D, Ops) == \A r \in Requests : req[r].op \in Ops \cup {"none"} /\ req[r].devs \subseteq D

\* One new device reports a run of samples, through failures.
Uploads ==
    /\ registry[2].status = "absent" /\ restarts = 0 /\ phase = "up" /\ sweep = NoSweep
    /\ Serves({1}, {"ingest"})

\* One new device with every operation but group updates, through a failure or
\* a restart.
OneDevice ==
    /\ registry[2].status = "absent" /\ faults + restarts <= 1 /\ now <= 3
    /\ Serves({1}, {"ingest", "remove"})
    /\ \A r \in Requests : req[r].ts <= 2

\* Two devices whose groups are updated.
TwoDevices ==
    /\ faults = 0 /\ restarts = 0 /\ phase = "up" /\ flush = NoFlush /\ now <= 3
    /\ Serves(Device, {"ingest", "group"})
    /\ \A r \in Requests : req[r].ts <= 1

Parts ==
    CASE part = "uploads" -> Uploads
      [] part = "device"  -> OneDevice
      [] part = "groups"  -> TwoDevices

PartSpec ==
    /\ (part \in {"uploads", "device"} /\ Init) \/ (part = "groups" /\ InitRegistered)
    /\ [][Next /\ UNCHANGED part /\ Parts']_<<vars, part>>
=============================================================================
