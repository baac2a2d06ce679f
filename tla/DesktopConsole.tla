--------------------------- MODULE DesktopConsole ---------------------------
(***************************************************************************)
(* The main process of the desktop console: DesktopController reads the    *)
(* Hub through HubClient, keeps what it shows, and stores a snapshot for   *)
(* the next start through DesktopCacheStore.  The user signs in and out,   *)
(* moves to another Hub, edits the local Agent's configuration and changes *)
(* devices while reads, file writes and replies of the Hub are under way.  *)
(*                                                                         *)
(* The code compares counters (generation, connectionEpoch, the cache's    *)
(* epoch) captured before an await.  Only "has it moved since" matters, so *)
(* a counter is the set of waiting operations that captured its present    *)
(* value; moving the counter empties the set.  A snapshot is abstracted to *)
(* where its parts come from: the account, the version of the Hub's data   *)
(* and the view they were read for.  Continuations that follow each other  *)
(* without I/O in between are one step.                                    *)
(***************************************************************************)
EXTENDS Sublists

CONSTANTS
    None,
    Keys, Urls,
    Views,          \* device, range and calendar that a request may select
    Changes,        \* operations on the connection that the run includes
    Charts,         \* optional reads of a refresh
    MaxIdentity, MaxVersion, MaxQueue, MaxRestarts    \* bounds

VARIABLES
    accessKey, serverUrl, sessionCookie, identity,    \* HubClient
    lastIdentity,       \* identities drawn so far
    sameSession,        \* requests that captured the present connectionEpoch
    credentialWrites, credentialFile,
    safeStorage,        \* the platform encrypts credentials, in this start
    unsaved,            \* history: the credential file could not be made to follow
    agentUrl,           \* the Hub's address in the local Agent's configuration
    loaded, pending, blocked,    \* DesktopCacheStore
    sameCache,          \* reads that captured the cache's present epoch
    cacheWrites, cacheFile,
    clearReached,       \* history: the last clear was written to the file
    view, currentSnapshot, queued,      \* DesktopController
    current,            \* the running refresh captured the present generation
    refresh, opener, change, config, mutation,    \* operations under way
    hubVersion,         \* changes made to the Hub's data
    restarts,
    late, swapped, crossed    \* history: overlaps that the code does not prevent

sessionVars == <<accessKey, serverUrl, sessionCookie, identity, lastIdentity, sameSession>>
keptVars == <<credentialFile, safeStorage, unsaved>>
credentialVars == <<credentialWrites, keptVars>>
memoryVars == <<loaded, pending, blocked, sameCache>>
cacheVars == <<memoryVars, cacheWrites, cacheFile, clearReached>>
readVars == <<view, queued, current, refresh>>
userVars == <<opener, change, config>>
desktopVars == <<sessionVars, credentialVars, agentUrl, cacheVars, readVars, currentSnapshot,
                 userVars, mutation, hubVersion, restarts>>

----------------------------------------------------------------------------
(* What the variables hold.                                                *)

Accounts == Urls \X Keys
Scopes == Urls \X Nat

\* A part of a snapshot, what the console shows, and what is kept of that.
ReadParts == [account : Accounts, version : Nat, view : Views]
Snapshots == [devices : ReadParts \cup {None}, charts : ReadParts \cup {None}, live : BOOLEAN]
Envelopes == [scope : Scopes, snapshot : Snapshots \cup {None}]
Credentials == [key : Keys, identity : Nat, url : Urls \cup {None}]

CacheOps == [op : {"flush", "clear"}, same : BOOLEAN, by : {None, "change", "config"}, envelope : Envelopes \cup {None}]
CredentialOps == [op : {"save", "remove"}, same : BOOLEAN, by : {None, "change"}, value : Credentials \cup {None}]

Same == "same"    \* a request that changes nothing of the view
Idle == [at |-> "idle"]

Refreshes ==
    {Idle} \cup [at : {"cache"}, scope : Scopes \cup {None}]
           \cup [at : {"list"}, account : Accounts, cached : Snapshots \cup {None}]
           \cup [at : {"charts"}, account : Accounts \cup {None}, devices : ReadParts,
                  charts : ReadParts \cup {None}, left : 1 .. Charts]
Openers == {Idle} \cup [at : {"cache"}, scope : Scopes, request : Views \cup {Same}]
ChangePlaces == {"clearing", "cleared", "agent", "auth", "storing", "stored", "signout", "undo",
                 "leaving", "removing", "ended"}
ConnectionChanges ==
    {Idle} \cup [at : ChangePlaces, op : Changes \cup {"undo"}, key : Keys \cup {None}, url : Urls]
ConfigEdits == {Idle} \cup [at : {"read", "clearing", "cleared"}, was : Urls \cup {None}]
Mutations == {Idle, [at |-> "writing"]} \cup [at : {"rereading"}, wanted : Nat, cut : BOOLEAN]
                 \cup [at : {"done"}, fresh : BOOLEAN]

\* None is none of the values it stands beside.
ASSUME DesktopAssumption ==
    /\ None \notin Keys \cup Urls \cup Views \cup {Same, "change", "config"} /\ Same \notin Views
    /\ None \notin Accounts \cup Scopes /\ None \notin ReadParts /\ None \notin Snapshots
    /\ None \notin Envelopes /\ None \notin Credentials
    /\ Urls # {} /\ Changes \subseteq {"login", "logout", "save", "disconnect"}
    /\ Charts \in Nat /\ MaxIdentity \in Nat \ {0} /\ MaxVersion \in Nat
    /\ MaxQueue \in Nat /\ MaxRestarts \in Nat

----------------------------------------------------------------------------
(* The views of the state that the operations share.                       *)

Account == IF accessKey # None /\ serverUrl # None THEN <<serverUrl, accessKey>> ELSE None

ScopeAt(url) == IF accessKey # None /\ url # None THEN <<url, identity>> ELSE None
cacheScope == ScopeAt(serverUrl)

emptySnapshot == [devices |-> None, charts |-> None, live |-> FALSE]

\* The part of a snapshot read for account a: what the view shows of it.
Read(a) == [account |-> a, version |-> hubVersion, view |-> view]

\* Only what was read for the view v is carried over to it.
ForView(part, v) == IF part # None /\ part.view = v THEN part ELSE None

asCachedSnapshot(s, v) == [devices |-> s.devices, charts |-> ForView(s.charts, v), live |-> FALSE]

mergeSnapshotRequests(q, r) == IF r = Same /\ q # None THEN q ELSE r
hasRequestChanges(r) == r # Same /\ r # view

changing == change.at # "idle"

----------------------------------------------------------------------------
(* DesktopCacheStore.                                                      *)

Expired(op) == [op EXCEPT !.same = FALSE]

\* The queue after the epoch has moved.  A queued flush that finds another
\* epoch does nothing; only the one that is writing the file goes on.
Overtaken(ops) ==
    LET left == Sublist(ops, {i \in DOMAIN ops : ops[i].op = "clear" \/ ops[i].envelope # None})
    IN  [i \in DOMAIN left |-> Expired(left[i])]

\* A flush behind one that has not begun finds nothing left to write.
QueueFlush(ops) ==
    IF ops # <<>> /\ ops[Len(ops)].op = "flush" /\ ops[Len(ops)].envelope = None THEN ops
    ELSE Append(ops, [op |-> "flush", same |-> TRUE, by |-> None, envelope |-> None])

\* Mutant: clear empties the file without waiting for the write under way.
CacheClearAtOnce(by) ==
    /\ blocked' = TRUE
    /\ loaded' = None /\ pending' = None
    /\ cacheWrites' = <<[op |-> "clear", same |-> TRUE, by |-> by, envelope |-> None]>>
                      \o Overtaken(cacheWrites)

\* clear, on behalf of the operation by that awaits it.
CacheClear(by) ==
    /\ blocked' = TRUE
    /\ loaded' = None /\ pending' = None
    /\ cacheWrites' = Append(Overtaken(cacheWrites),
                             [op |-> "clear", same |-> TRUE, by |-> by, envelope |-> None])

\* What the store keeps of a snapshot: the version no longer matters, since a
\* cached snapshot is never taken for live data.
Kept(part) == IF part = None THEN None ELSE [part EXCEPT !.version = 0]

\* write: only what was read live under a scope is kept.  The file is written
\* when the last write is a minute old, which it may or may not be.
CacheWrite(s) ==
    IF cacheScope = None THEN UNCHANGED <<loaded, pending, blocked, cacheWrites>>
    ELSE /\ loaded' = [scope |-> cacheScope,
                       snapshot |-> [devices |-> Kept(s.devices), charts |-> Kept(s.charts), live |-> FALSE]]
         /\ pending' = loaded'
         /\ blocked' = FALSE
         /\ cacheWrites' \in {cacheWrites, QueueFlush(cacheWrites)}

\* The results that a read begun by who under the scope may end with: what the
\* store holds in memory or in its file, nothing when that is a day old.
Cached(who, scope) ==
    IF scope = None \/ blocked \/ who \notin sameCache THEN {None}
    ELSE IF loaded # None /\ loaded.scope = scope THEN {loaded.snapshot, None}
    ELSE IF cacheFile # None /\ cacheFile.scope = scope THEN {cacheFile.snapshot, None}
    ELSE {None}

\* The first operation of the queue writes the file or fails; a flush takes
\* what is pending when it begins.
FlushBegins ==
    /\ cacheWrites # <<>> /\ Head(cacheWrites).op = "flush" /\ Head(cacheWrites).envelope = None
    /\ IF pending # None
       THEN /\ cacheWrites' = [cacheWrites EXCEPT ![1].envelope = pending]
            /\ pending' = None
       ELSE cacheWrites' = Tail(cacheWrites) /\ UNCHANGED pending
    /\ UNCHANGED <<sessionVars, credentialVars, agentUrl, loaded, blocked, sameCache,
                   cacheFile, clearReached, readVars, currentSnapshot, userVars, mutation, hubVersion, restarts>>

FlushEnds ==
    /\ cacheWrites # <<>> /\ Head(cacheWrites).op = "flush" /\ Head(cacheWrites).envelope # None
    /\ \/ /\ cacheFile' = Head(cacheWrites).envelope
          /\ UNCHANGED pending
       \/ /\ pending' = IF Head(cacheWrites).same /\ pending = None
                        THEN Head(cacheWrites).envelope ELSE pending
          /\ UNCHANGED cacheFile
    /\ cacheWrites' = Tail(cacheWrites)
    /\ UNCHANGED <<sessionVars, credentialVars, agentUrl, loaded, blocked, sameCache, clearReached,
                   readVars, currentSnapshot, userVars, mutation, hubVersion, restarts>>

\* A failed clear rejects for the operation that awaits it.
ClearEnds ==
    /\ cacheWrites # <<>> /\ Head(cacheWrites).op = "clear"
    /\ \E ok \in BOOLEAN :
        LET by == Head(cacheWrites).by IN
        /\ cacheFile' = IF ok THEN None ELSE cacheFile
        /\ clearReached' = ok
        /\ change' = IF by = "change" THEN [change EXCEPT !.at = IF ok THEN "cleared" ELSE "undo"] ELSE change
        /\ config' = IF by = "config" THEN (IF ok THEN [config EXCEPT !.at = "cleared"] ELSE Idle) ELSE config
    /\ cacheWrites' = Tail(cacheWrites)
    /\ UNCHANGED <<sessionVars, credentialVars, agentUrl, memoryVars, readVars, currentSnapshot,
                   opener, mutation, hubVersion, restarts>>

----------------------------------------------------------------------------
(* HubClient.                                                              *)

\* Every move of connectionEpoch: requests under way are cut off, and a write of
\* the credential that waits finds that it is no longer wanted.  The first write
\* of the queue compared the epoch when it began, and goes on.
NewEpoch == sameSession' = {} /\ sessionCookie' = FALSE
Outdated ==
    LET left == Sublist(credentialWrites, {i \in DOMAIN credentialWrites : i = 1 \/ credentialWrites[i].by # None})
    IN  [i \in DOMAIN left |-> IF i = 1 THEN left[i] ELSE Expired(left[i])]

Credential(k) == [key |-> k, identity |-> identity, url |-> serverUrl]

persistAccessKey(k, by) == [op |-> "save", same |-> TRUE, by |-> by, value |-> Credential(k)]

\* The first write of the credential file ends, or is skipped as outdated.  A
\* save that fails rejects for the login that awaits it; a failed removal is
\* swallowed.
CredentialWrite ==
    /\ credentialWrites # <<>>
    /\ \E ok \in BOOLEAN :
        LET w == Head(credentialWrites) IN
        /\ ok \/ (w.same /\ w.by = "change" /\ (w.op = "remove" => credentialFile # None))
        /\ credentialFile' = IF ok /\ w.same THEN w.value ELSE credentialFile
        /\ unsaved' = IF w.same THEN ~ok ELSE unsaved
        /\ change' = IF w.by # "change" THEN change
                     ELSE [change EXCEPT !.at = IF w.op = "remove" THEN "ended" ELSE IF ok THEN "stored" ELSE "undo"]
    /\ credentialWrites' = Tail(credentialWrites)
    /\ UNCHANGED <<sessionVars, safeStorage, agentUrl, cacheVars, readVars, currentSnapshot,
                   opener, config, mutation, hubVersion, restarts>>

\* Mutant: only an explicit login stores the key.
SignedInOnly == sessionCookie' = TRUE /\ UNCHANGED <<credentialWrites, unsaved>>

\* A first reply under a new session: ensureSession signed in and stored the
\* key, where the platform encrypts it.
SignedIn ==
    /\ sessionCookie' = TRUE
    /\ credentialWrites' = IF sessionCookie \/ ~safeStorage THEN credentialWrites
                           ELSE Append(credentialWrites, persistAccessKey(accessKey, None))
    /\ unsaved' = (unsaved \/ (~sessionCookie /\ ~safeStorage))

\* ensureSession signed in and then could not store the key, so that what needed
\* the session fails; the session stays.
SignedInUnsaved ==
    /\ ~sessionCookie /\ safeStorage /\ credentialWrites = <<>>
    /\ sessionCookie' = TRUE /\ unsaved' = TRUE

----------------------------------------------------------------------------
(* Refreshes.                                                              *)

\* refreshOnce up to its first await, for the request r, from the Hub at url.
StartReadAt(url, r, readers) ==
    /\ view' = IF r = Same THEN view ELSE r
    /\ queued' = None
    /\ current' = TRUE
    /\ refresh' = [at |-> "cache", scope |-> ScopeAt(url)]
    /\ sameCache' = readers \cup {"refresh"}

StartRead(r, readers) == StartReadAt(serverUrl, r, readers)

\* A management write is answered with the snapshot s.
Reread(s) ==
    [at |-> "done", fresh |-> mutation.cut \/ ~s.live \/ s.devices.version >= mutation.wanted]

\* drainRefreshQueue: the loop goes on while a request is queued; otherwise the
\* callers get the snapshot that the last refresh ended with.
Finish(q, readers) ==
    IF q # None
    THEN StartRead(q, readers) /\ UNCHANGED mutation
    ELSE /\ refresh' = Idle /\ queued' = None /\ sameCache' = readers \ {"refresh"} /\ current' = FALSE
         /\ mutation' = IF mutation.at = "rereading"
                        THEN Reread(currentSnapshot')
                        ELSE mutation
         /\ UNCHANGED view

\* refresh(request), outside a change of the connection.
RefreshAt(url, r, readers) ==
    IF refresh.at # "idle"
    THEN /\ IF hasRequestChanges(r)
            THEN current' = FALSE /\ queued' = mergeSnapshotRequests(queued, r)
            ELSE UNCHANGED <<current, queued>>
         /\ sameCache' = readers
         /\ UNCHANGED <<view, refresh>>
    ELSE StartReadAt(url, mergeSnapshotRequests(queued, r), readers)

Refresh(r, readers) == RefreshAt(serverUrl, r, readers)

\* The renderer's polls, the window being shown, a selection.  A poll within
\* the time to the next automatic read is answered from what is shown.
AskRefresh ==
    /\ ~changing
    /\ \E r \in Views \cup {Same} : Refresh(r, sameCache)
    /\ UNCHANGED <<sessionVars, credentialVars, agentUrl, loaded, pending, blocked, cacheWrites,
                   cacheFile, clearReached, currentSnapshot, userVars, mutation, hubVersion, restarts>>

\* cancelSnapshot when the window is hidden, minimized or closed.
Hide ==
    /\ refresh.at # "idle" /\ current
    /\ current' = FALSE
    /\ mutation' = IF mutation.at = "rereading" THEN [mutation EXCEPT !.cut = TRUE] ELSE mutation
    /\ UNCHANGED <<sessionVars, credentialVars, agentUrl, cacheVars, view, queued, refresh,
                   currentSnapshot, userVars, hubVersion, restarts>>

\* refreshOnce fails without a denial: the cached snapshot, or nothing.
FallBack(cached) ==
    /\ currentSnapshot' = IF ~current THEN currentSnapshot
                          ELSE IF cached # None THEN asCachedSnapshot(cached, view) ELSE emptySnapshot
    /\ Finish(queued, sameCache)

\* The cache has answered; the list of devices is requested.
CacheRead ==
    /\ refresh.at = "cache"
    /\ \E cached \in Cached("refresh", refresh.scope) :
        /\ loaded' = IF refresh.scope # None /\ ~blocked /\ "refresh" \in sameCache
                     THEN [scope |-> refresh.scope, snapshot |-> cached] ELSE loaded
        /\ IF current /\ Account # None
           THEN /\ refresh' = [at |-> "list", account |-> Account, cached |-> cached]
                /\ sameSession' = sameSession \cup {"refresh"}
                /\ sameCache' = sameCache \ {"refresh"}
                /\ UNCHANGED <<view, queued, current, currentSnapshot, mutation>>
           ELSE FallBack(cached) /\ UNCHANGED sameSession
    /\ UNCHANGED <<accessKey, serverUrl, sessionCookie, identity, lastIdentity, credentialVars, agentUrl,
                   pending, blocked, cacheWrites, cacheFile, clearReached, userVars, hubVersion, restarts>>

\* The reply to the refresh is still wanted: neither a newer read nor another
\* session has taken its place (current, assertCurrent).
Answered == current /\ "refresh" \in sameSession

\* The chart reads follow one another; each captures the epoch when it begins.
Continue(devices, charts, left) ==
    IF left = 0
    THEN Finish(queued, sameCache) /\ sameSession' = sameSession \ {"refresh"}
    ELSE /\ refresh' = [at |-> "charts", account |-> Account, devices |-> devices, charts |-> charts, left |-> left]
         /\ sameSession' = sameSession \cup {"refresh"}
         /\ UNCHANGED <<view, queued, current, sameCache, mutation>>

\* readLiveData: the devices are published at once, with the charts of the
\* snapshot before them when those fit the view.
ListRead ==
    /\ refresh.at = "list" /\ Answered /\ (sessionCookie \/ Len(credentialWrites) < MaxQueue)
    /\ \E left \in 0 .. Charts :
        LET devices == Read(refresh.account)
            charts == IF currentSnapshot.live THEN ForView(currentSnapshot.charts, view) ELSE None
        IN  /\ currentSnapshot' = [devices |-> devices, charts |-> charts, live |-> TRUE]
            /\ CacheWrite(currentSnapshot')
            /\ Continue(devices, charts, left)
    /\ SignedIn
    /\ UNCHANGED <<accessKey, serverUrl, identity, lastIdentity, credentialFile, safeStorage, agentUrl,
                   cacheFile, clearReached, userVars, hubVersion, restarts>>

\* No reply within the deadline, an error, or the read was cut off.
ListFails ==
    /\ refresh.at = "list"
    /\ FallBack(refresh.cached)
    /\ sameSession' = sameSession \ {"refresh"}
    /\ \/ UNCHANGED <<sessionCookie, unsaved>>
       \/ "refresh" \in sameSession /\ SignedInUnsaved
    /\ UNCHANGED <<accessKey, serverUrl, identity, lastIdentity, credentialWrites, credentialFile, safeStorage, agentUrl,
                   loaded, pending, blocked, cacheWrites, cacheFile, clearReached, userVars, hubVersion, restarts>>

\* A chart was read, or its read failed: the rest goes on, and the refresh ends
\* with a snapshot of everything, which is shown and stored.
ChartRead ==
    /\ refresh.at = "charts"
    /\ \E charts \in {refresh.charts} \cup (IF Answered /\ refresh.account # None
                                            THEN {Read(refresh.account)} ELSE {}) :
        IF current
        THEN /\ currentSnapshot' = [devices |-> refresh.devices, charts |-> charts, live |-> TRUE]
             /\ CacheWrite(currentSnapshot')
             /\ Continue(refresh.devices, charts, refresh.left - 1)
        ELSE /\ UNCHANGED <<currentSnapshot, loaded, pending, blocked, cacheWrites>>
             /\ sameSession' = sameSession \ {"refresh"}
             /\ Finish(queued, sameCache)
    /\ UNCHANGED <<accessKey, serverUrl, sessionCookie, identity, lastIdentity, credentialVars, agentUrl,
                   cacheFile, clearReached, userVars, hubVersion, restarts>>

\* getSnapshot: a cached snapshot is shown first, then a refresh follows.
Open ==
    /\ ~changing /\ opener.at = "idle"
    /\ cacheScope # None /\ ~blocked
    /\ \E r \in Views \cup {Same} : opener' = [at |-> "cache", scope |-> cacheScope, request |-> r]
    /\ sameCache' = sameCache \cup {"opener"}
    /\ UNCHANGED <<sessionVars, credentialVars, agentUrl, loaded, pending, blocked, cacheWrites, cacheFile, clearReached,
                   readVars, currentSnapshot, change, config, mutation, hubVersion, restarts>>

Opened ==
    /\ opener.at = "cache"
    /\ \E cached \in Cached("opener", opener.scope) :
        /\ loaded' = IF ~blocked /\ "opener" \in sameCache
                     THEN [scope |-> opener.scope, snapshot |-> cached] ELSE loaded
        /\ currentSnapshot' = IF cached = None THEN currentSnapshot
                              ELSE asCachedSnapshot(cached, IF opener.request = Same THEN view ELSE opener.request)
    /\ opener' = Idle
    /\ IF changing THEN sameCache' = sameCache \ {"opener"} /\ UNCHANGED readVars
       ELSE Refresh(opener.request, sameCache \ {"opener"})
    /\ UNCHANGED <<sessionVars, credentialVars, agentUrl, pending, blocked, cacheWrites, cacheFile, clearReached,
                   change, config, mutation, hubVersion, restarts>>

----------------------------------------------------------------------------
(* Denials and management writes.                                          *)

\* Mutant: the running refresh is not told.
ClearRemoteQuietly(by) ==
    /\ queued' = None /\ UNCHANGED current
    /\ currentSnapshot' = emptySnapshot
    /\ CacheClear(by) /\ sameCache' = {}

\* clearRemote up to its await.
ClearRemote(by) ==
    /\ current' = FALSE /\ queued' = None
    /\ currentSnapshot' = emptySnapshot
    /\ CacheClear(by) /\ sameCache' = {}

\* onSessionDenied: the Hub answered 401 or 403 to a refresh, a management
\* write, or a request of the live panel.
SessionDenied(who) ==
    /\ who \in sameSession \cup {"live"} /\ Account # None /\ Len(cacheWrites) < MaxQueue
    /\ who = "refresh" => current /\ refresh.at \in {"list", "charts"}
    /\ who = "mutation" => mutation.at = "writing"
    /\ NewEpoch
    /\ credentialWrites' = Outdated
    /\ currentSnapshot' = emptySnapshot
    /\ CacheClear(None)
    /\ IF who = "refresh"
       THEN Finish(None, {})
       ELSE /\ current' = FALSE /\ queued' = None /\ sameCache' = {}
            /\ mutation' = IF who = "mutation" THEN Idle ELSE mutation
            /\ UNCHANGED <<view, refresh>>
    /\ UNCHANGED <<accessKey, serverUrl, identity, lastIdentity, keptVars, agentUrl,
                   cacheFile, clearReached, userVars, hubVersion, restarts>>

\* refreshOnce: the sign-in that a refresh needed was refused.
LoginDenied ==
    /\ refresh.at \in {"list", "charts"} /\ Answered /\ Account # None
    /\ ~sessionCookie /\ Len(cacheWrites) < MaxQueue
    /\ NewEpoch
    /\ credentialWrites' = Outdated
    /\ currentSnapshot' = emptySnapshot
    /\ CacheClear(None)
    /\ Finish(queued, {})
    /\ UNCHANGED <<accessKey, serverUrl, identity, lastIdentity, keptVars, agentUrl,
                   cacheFile, clearReached, userVars, hubVersion, restarts>>

\* saveFanNote, deleteInstance, reorderInstances, updateDeviceGroup.
Mutate ==
    /\ mutation.at \in {"idle", "done"} /\ Account # None /\ ~changing /\ hubVersion < MaxVersion
    /\ mutation' = [at |-> "writing"]
    /\ sameSession' = sameSession \cup {"mutation"}
    /\ UNCHANGED <<accessKey, serverUrl, sessionCookie, identity, lastIdentity, credentialVars, agentUrl,
                   cacheVars, readVars, currentSnapshot, userVars, hubVersion, restarts>>

Rereading(wanted) == [at |-> "rereading", wanted |-> wanted, cut |-> FALSE]

\* Mutant: the read after a write joins the refresh that is running.
RefreshJoined ==
    /\ mutation' = IF changing THEN Idle ELSE Rereading(hubVersion')
    /\ IF changing THEN UNCHANGED <<readVars, sameCache>> ELSE Refresh(Same, sameCache)

\* refreshAfterMutation: the running refresh is dropped and another is queued.
refreshAfterMutation ==
    /\ mutation' = IF changing THEN Idle ELSE Rereading(hubVersion')
    /\ IF changing \/ refresh.at # "idle"
       THEN /\ current' = FALSE /\ queued' = mergeSnapshotRequests(queued, Same)
            /\ UNCHANGED <<view, refresh, sameCache>>
       ELSE StartRead(mergeSnapshotRequests(queued, Same), sameCache)

\* The Hub made the change and says so, unless the session was replaced.
MutationReply ==
    /\ mutation.at = "writing"
    /\ hubVersion' = hubVersion + 1
    /\ IF "mutation" \in sameSession
       THEN refreshAfterMutation
       ELSE mutation' = Idle /\ UNCHANGED <<readVars, sameCache>>
    /\ sameSession' = sameSession \ {"mutation"}
    /\ UNCHANGED <<accessKey, serverUrl, sessionCookie, identity, lastIdentity, credentialVars, agentUrl, loaded, pending, blocked, cacheWrites, cacheFile, clearReached,
                   currentSnapshot, userVars, restarts>>

MutationFails ==
    /\ mutation.at = "writing"
    /\ mutation' = Idle
    /\ sameSession' = sameSession \ {"mutation"}
    /\ UNCHANGED <<accessKey, serverUrl, sessionCookie, identity, lastIdentity, credentialVars, agentUrl, cacheVars, readVars, currentSnapshot,
                   userVars, hubVersion, restarts>>

----------------------------------------------------------------------------
(* Changes of the connection.                                              *)

\* changeConnection: one at a time; what the old connection showed goes first.
ChangeStart ==
    /\ ~changing /\ lastIdentity < MaxIdentity /\ Len(cacheWrites) < MaxQueue
    /\ \E op \in Changes, k \in Keys \cup {None}, u \in Urls :
        /\ op = "login" => k # None
        /\ op \in {"logout", "disconnect"} => k = None
        /\ op # "save" => u = CHOOSE any \in Urls : TRUE
        /\ change' = [at |-> "clearing", op |-> op, key |-> k, url |-> u]
    /\ sameSession' = {} /\ credentialWrites' = Outdated
    /\ sessionCookie' = (sessionCookie /\ change'.op = "logout")
    /\ ClearRemote("change")
    /\ UNCHANGED <<accessKey, serverUrl, identity, lastIdentity, keptVars, agentUrl,
                   cacheFile, clearReached, view, refresh, opener, config, mutation, hubVersion, restarts>>

\* setServerUrl moves the epoch when the address is another one.
setServerUrl(u) ==
    /\ serverUrl' = u
    /\ IF u # serverUrl THEN NewEpoch /\ credentialWrites' = Outdated
       ELSE UNCHANGED <<sameSession, sessionCookie, credentialWrites>>

changeRest == <<cacheVars, readVars, currentSnapshot, opener, config, mutation, hubVersion, restarts>>

removeKey == [op |-> "remove", same |-> TRUE, by |-> "change", value |-> None]

\* hub.logout up to its first await: the Hub is told of the end of a session.
SignOut ==
    /\ change.at \in {"undo", "signout"} \/ (change.at = "cleared" /\ change.op = "logout")
    /\ accessKey' = None /\ identity' = 0
    /\ sameSession' = {"change"} /\ sessionCookie' = (sessionCookie /\ serverUrl # None)
    /\ credentialWrites' = IF sessionCookie' THEN Outdated ELSE Append(Outdated, removeKey)
    /\ change' = [change EXCEPT !.at = IF sessionCookie' THEN "leaving" ELSE "removing",
                               !.op = IF change.at = "undo" THEN "undo" ELSE @]
    /\ UNCHANGED <<serverUrl, lastIdentity, keptVars, agentUrl, changeRest>>

\* The Hub answered the sign-out, or cannot be reached.
SignedOut ==
    /\ change.at = "leaving"
    /\ IF "change" \in sameSession
       THEN /\ sessionCookie' = FALSE
            /\ credentialWrites' = Append(credentialWrites, removeKey)
            /\ change' = [change EXCEPT !.at = "removing"]
       ELSE change' = [change EXCEPT !.at = "ended"] /\ UNCHANGED <<sessionCookie, credentialWrites>>
    /\ UNCHANGED <<accessKey, serverUrl, identity, lastIdentity, sameSession, keptVars, agentUrl, changeRest>>

\* saveHubConnection begins with the address, before the Agent is asked.
AddressSet ==
    /\ change.at = "cleared" /\ change.op = "save"
    /\ setServerUrl(change.url)
    /\ LET key == IF change.key # None THEN change.key ELSE accessKey
       IN  change' = [change EXCEPT !.key = key, !.at = IF key = None THEN "undo" ELSE "agent"]
    /\ UNCHANGED <<accessKey, identity, lastIdentity, keptVars, agentUrl, changeRest>>

AgentFails ==
    /\ change.at \in {"agent", "stored"} \/ (change.at = "cleared" /\ change.op \in {"login", "disconnect"})
    /\ change' = [change EXCEPT !.at = "undo"]
    /\ UNCHANGED <<sessionVars, credentialVars, agentUrl, changeRest>>

\* hub.login up to its await: another key means another identity, and the key
\* that is replaced is forgotten before the new one is tried.
Login ==
    /\ identity' = IF accessKey = change.key THEN identity ELSE lastIdentity + 1
    /\ lastIdentity' = IF accessKey = change.key THEN lastIdentity ELSE lastIdentity + 1
    /\ sessionCookie' = FALSE /\ sameSession' = {"change"} /\ credentialWrites' = Outdated
    /\ accessKey' = None

\* The Agent answered.  login takes the address from it; saveHubConnection has
\* stored the address in it; disconnectAgent has taken the secret from it.
AgentAnswers ==
    \/ /\ change.at = "cleared" /\ change.op = "login"
       /\ serverUrl' = agentUrl
       /\ IF agentUrl = None
          THEN /\ change' = [change EXCEPT !.at = "undo"]
               /\ sameSession' = {} /\ sessionCookie' = FALSE /\ credentialWrites' = Outdated
               /\ UNCHANGED <<accessKey, identity, lastIdentity>>
          ELSE Login /\ change' = [change EXCEPT !.at = "auth"]
       /\ UNCHANGED <<keptVars, agentUrl, changeRest>>
    \/ /\ change.at = "agent" /\ change.op = "save"
       /\ agentUrl' = change.url
       /\ Login /\ change' = [change EXCEPT !.at = "auth"]
       /\ UNCHANGED <<serverUrl, keptVars, changeRest>>
    \/ /\ change.at = "cleared" /\ change.op = "disconnect"
       /\ change' = [change EXCEPT !.at = "signout"]
       /\ UNCHANGED <<sessionVars, credentialVars, agentUrl, changeRest>>

\* The Hub accepts the key, or it refuses it, does not answer, or the epoch moved.
LoginReply ==
    /\ change.at = "auth"
    /\ \/ /\ "change" \in sameSession
          /\ accessKey' = change.key /\ sessionCookie' = TRUE
          /\ change' = [change EXCEPT !.at = IF safeStorage THEN "storing" ELSE "stored"]
          /\ credentialWrites' = IF safeStorage THEN Append(credentialWrites, persistAccessKey(change.key, "change"))
                                 ELSE credentialWrites
          /\ unsaved' = (unsaved \/ ~safeStorage)
       \/ /\ change' = [change EXCEPT !.at = "undo"]
          /\ UNCHANGED <<accessKey, sessionCookie, credentialWrites, unsaved>>
    /\ UNCHANGED <<serverUrl, identity, lastIdentity, sameSession, credentialFile, safeStorage, agentUrl, changeRest>>

\* The accepted key goes to the Agent.
SecretStored ==
    /\ change.at = "stored"
    /\ change' = [change EXCEPT !.at = "ended"]
    /\ UNCHANGED <<sessionVars, credentialVars, agentUrl, changeRest>>

\* The change is over; the new connection is read unless it failed.
ChangeEnds ==
    /\ change.at = "ended"
    /\ change' = Idle
    /\ currentSnapshot' = IF change.op = "logout" THEN emptySnapshot ELSE currentSnapshot
    /\ IF change.op \in {"logout", "undo"} THEN UNCHANGED <<readVars, sameCache>> ELSE Refresh(Same, sameCache)
    /\ UNCHANGED <<sessionVars, credentialVars, agentUrl, loaded, pending, blocked, cacheWrites,
                   cacheFile, clearReached, opener, config, mutation, hubVersion, restarts>>

----------------------------------------------------------------------------
(* The local Agent's configuration, discovery of the address, restarts.    *)

\* updateLocalConfig: the whole configuration is read, patched and written
\* back; another address than the console's then replaces the console's.
ConfigRead ==
    /\ config.at = "idle"
    /\ config' = [at |-> "read", was |-> agentUrl]
    /\ UNCHANGED <<sessionVars, credentialVars, agentUrl, cacheVars, readVars, currentSnapshot,
                   opener, change, mutation, hubVersion, restarts>>

ConfigWritten ==
    /\ config.at = "read" /\ Len(cacheWrites) < MaxQueue
    /\ agentUrl' = config.was
    /\ IF config.was # serverUrl
       THEN ClearRemote("config") /\ config' = [config EXCEPT !.at = "clearing"] /\ UNCHANGED <<view, refresh>>
       ELSE /\ config' = Idle
            /\ IF changing THEN UNCHANGED <<readVars, sameCache>> ELSE Refresh(Same, sameCache)
            /\ UNCHANGED <<currentSnapshot, loaded, pending, blocked, cacheWrites>>
    /\ UNCHANGED <<sessionVars, credentialVars, cacheFile, clearReached, opener, change, mutation, hubVersion, restarts>>

ConfigMoves ==
    /\ config.at = "cleared"
    /\ config' = Idle
    /\ setServerUrl(config.was)
    /\ IF changing THEN UNCHANGED <<readVars, sameCache>> ELSE RefreshAt(config.was, Same, sameCache)
    /\ UNCHANGED <<accessKey, identity, lastIdentity, keptVars, agentUrl, loaded, pending, blocked,
                   cacheWrites, cacheFile, clearReached, currentSnapshot, opener, change, mutation, hubVersion, restarts>>

\* readLocalBackend fills in a missing address, never another one.
AddressDiscovered ==
    /\ serverUrl = None /\ agentUrl # None
    /\ setServerUrl(agentUrl)
    /\ IF refresh.at # "idle"
       THEN queued' = mergeSnapshotRequests(queued, Same) /\ UNCHANGED <<view, current, refresh, sameCache>>
       ELSE IF changing THEN UNCHANGED <<readVars, sameCache>> ELSE RefreshAt(agentUrl, Same, sameCache)
    /\ UNCHANGED <<accessKey, identity, lastIdentity, keptVars, agentUrl, loaded, pending, blocked,
                   cacheWrites, cacheFile, clearReached, currentSnapshot, userVars, mutation, hubVersion, restarts>>

\* shutdown: the running refresh is dropped and the last snapshot written.
Shutdown ==
    /\ pending # None /\ Len(cacheWrites) < MaxQueue
    /\ current' = FALSE
    /\ cacheWrites' = QueueFlush(cacheWrites)
    /\ mutation' = IF mutation.at = "rereading" THEN [mutation EXCEPT !.cut = TRUE] ELSE mutation
    /\ UNCHANGED <<sessionVars, credentialVars, agentUrl, memoryVars, cacheFile, clearReached, view, queued, refresh,
                   currentSnapshot, userVars, hubVersion, restarts>>

Fresh ==
    /\ sessionCookie' = FALSE /\ sameSession' = {}
    /\ credentialWrites' = <<>>
    /\ loaded' = None /\ pending' = None /\ blocked' = FALSE
    /\ sameCache' = {} /\ cacheWrites' = <<>>
    /\ queued' = None /\ current' = FALSE /\ refresh' = Idle
    /\ currentSnapshot' = emptySnapshot
    /\ opener' = Idle /\ change' = Idle /\ config' = Idle /\ mutation' = Idle

\* initialize: the credential is restored where it can be decrypted.
Decrypted == safeStorage /\ credentialFile # None

\* The address of the credential, or without one that of the Agent's
\* configuration, which may not be readable yet.
FirstAddress == IF Decrypted THEN {credentialFile.url} ELSE {agentUrl, None}

\* The process ends at any point and starts again.
Restart ==
    /\ restarts < MaxRestarts
    /\ restarts' = restarts + 1
    /\ Fresh
    /\ safeStorage' \in BOOLEAN
    /\ UNCHANGED <<lastIdentity, credentialFile, agentUrl, cacheFile, clearReached, view, hubVersion>>
    /\ accessKey' = IF Decrypted' THEN credentialFile.key ELSE None
    /\ identity' = IF Decrypted' THEN credentialFile.identity ELSE 0
    /\ serverUrl' \in FirstAddress'
    /\ unsaved' = (credentialFile # None /\ ~safeStorage')

\* A first start, or one with a credential and an address of its own.
DesktopInit ==
    /\ agentUrl \in Urls \cup {None}
    /\ credentialFile \in {None} \cup [key : Keys, identity : {1}, url : Urls]
    /\ safeStorage \in BOOLEAN /\ unsaved = (credentialFile # None /\ ~safeStorage)
    /\ accessKey = (IF Decrypted THEN credentialFile.key ELSE None)
    /\ serverUrl \in FirstAddress
    /\ identity = (IF Decrypted THEN credentialFile.identity ELSE 0)
    /\ lastIdentity = 1
    /\ sessionCookie = FALSE /\ sameSession = {} /\ credentialWrites = <<>>
    /\ loaded = None /\ pending = None /\ blocked = FALSE
    /\ sameCache = {} /\ cacheWrites = <<>> /\ cacheFile = None /\ clearReached = TRUE
    /\ view \in Views /\ queued = None /\ current = FALSE /\ refresh = Idle
    /\ currentSnapshot = emptySnapshot
    /\ opener = Idle /\ change = Idle /\ config = Idle /\ mutation = Idle
    /\ hubVersion = 0 /\ restarts = 0

DesktopNext ==
    \/ FlushBegins \/ FlushEnds \/ ClearEnds \/ CredentialWrite
    \/ AskRefresh \/ Hide \/ CacheRead \/ ListRead \/ ListFails \/ ChartRead
    \/ Open \/ Opened
    \/ \E who \in {"refresh", "mutation", "live"} : SessionDenied(who)
    \/ LoginDenied \/ Mutate \/ MutationReply \/ MutationFails
    \/ ChangeStart \/ SignOut \/ SignedOut \/ AddressSet \/ AgentFails \/ AgentAnswers
    \/ LoginReply \/ SecretStored \/ ChangeEnds
    \/ ConfigRead \/ ConfigWritten \/ ConfigMoves \/ AddressDiscovered
    \/ Shutdown \/ Restart

\* Overlaps that the code does not prevent, recorded for the properties:
\*   late      the discovery of an address queued a refresh during a change
\*   swapped   a refresh ran while an edit waited for the cache to be cleared
\*   crossed   an edit moved the address under a change of the connection, or
\*             moved it to an address that a change had replaced since it was read
Overlaps ==
    /\ late' = (late \/ (changing /\ queued = None /\ queued' # None))
    /\ swapped' = (swapped \/ (config'.at \in {"clearing", "cleared"} /\ current'))
    /\ crossed' = (crossed \/ (/\ config.at = "cleared" /\ config'.at = "idle" /\ serverUrl' # serverUrl
                               /\ changing' \/ config.was # agentUrl))

overlapVars == <<late, swapped, crossed>>

DesktopSpec ==
    /\ DesktopInit /\ late = FALSE /\ swapped = FALSE /\ crossed = FALSE
    /\ [][DesktopNext /\ Overlaps]_<<desktopVars, overlapVars>>

----------------------------------------------------------------------------
(* Properties.                                                             *)

\* Types of the state; identities and versions stay within their bounds.
DesktopTypeOK ==
    /\ accessKey \in Keys \cup {None} /\ serverUrl \in Urls \cup {None} /\ agentUrl \in Urls \cup {None}
    /\ lastIdentity \in 1 .. MaxIdentity /\ identity \in 0 .. lastIdentity
    /\ sessionCookie \in BOOLEAN /\ sameSession \subseteq {"refresh", "mutation", "change"}
    /\ credentialWrites \in Seq(CredentialOps) /\ credentialFile \in Credentials \cup {None}
    /\ safeStorage \in BOOLEAN /\ unsaved \in BOOLEAN
    /\ loaded \in Envelopes \cup {None} /\ pending \in Envelopes \cup {None} /\ cacheFile \in Envelopes \cup {None}
    /\ cacheWrites \in Seq(CacheOps) /\ sameCache \subseteq {"refresh", "opener"}
    /\ blocked \in BOOLEAN /\ clearReached \in BOOLEAN /\ current \in BOOLEAN
    /\ view \in Views /\ queued \in Views \cup {None, Same} /\ currentSnapshot \in Snapshots
    /\ refresh \in Refreshes /\ opener \in Openers /\ change \in ConnectionChanges
    /\ config \in ConfigEdits /\ mutation \in Mutations
    /\ hubVersion \in 0 .. MaxVersion /\ restarts \in 0 .. MaxRestarts

Parts(s) == {s.devices, s.charts} \ {None}

\* What the console shows was read from the Hub it is connected to, with the
\* key it is signed in with: nothing of an earlier account is left on screen
\* by a change of the connection, a denial or a reply that comes late
\* (clearRemote, the generation of refreshOnce, the epochs of HubClient).
ShownIsOwn == \A part \in Parts(currentSnapshot) : part.account = Account

\* The charts on screen are those of the selected device and range: a
\* selection drops the refresh that was reading for the one before
\* (hasRequestChanges, cancelSnapshot).
ChartsFitView ==
    currentSnapshot.live /\ currentSnapshot.charts # None
        => currentSnapshot.charts.view = currentSnapshot.devices.view

\* What a restart would show under the present scope was read from the present
\* account: the offline cache is bound to the Hub's address and the identity.
CacheIsOwn ==
    \A held \in {cacheFile, pending, loaded} \ {None} :
        held.scope = cacheScope /\ held.snapshot # None
            => \A part \in Parts(held.snapshot) : part.account = Account

\* While the connection changes nothing is shown and no read is wanted.
PausedWhileChanging == changing => ~current /\ Parts(currentSnapshot) = {}

\* However connections, denials, selections, refreshes, edits and file writes
\* overlap, what the shell shows and what a restart would show is of the
\* present account and of the view it is shown for, and nothing is shown during
\* a change - unless a refresh was queued by a late discovery, or ran while an
\* edit waited for the cache (late, swapped: see the runs latefind and hubswap).
DesktopSound ==
    /\ DesktopTypeOK /\ ChartsFitView
    /\ ~late /\ ~swapped => ShownIsOwn /\ CacheIsOwn /\ PausedWhileChanging

\* Telemetry cleared by a sign-out or a denial does not come back: once the
\* queue has run the clear, no flush queued before it rewrites the file.
ClearedStaysCleared ==
    blocked /\ clearReached /\ (\A i \in DOMAIN cacheWrites : cacheWrites[i].op # "clear")
        => cacheFile = None

\* The stored credential is that of the open session, and none is stored once
\* the user has signed out: a restart does not sign in as somebody else.  The
\* file is behind where a write of it failed or the platform encrypts nothing
\* (unsaved), and where an edit moved the address under a change (crossed).
CredentialMatches ==
    ~changing /\ credentialWrites = <<>> /\ ~unsaved /\ ~crossed =>
        /\ accessKey = None => credentialFile = None
        /\ accessKey # None /\ sessionCookie => credentialFile = Credential(accessKey)

\* Once the user has signed out, a restart finds no credential to sign in with.
SignedOutStaysOut == ~changing /\ credentialWrites = <<>> /\ ~unsaved /\ accessKey = None => credentialFile = None

\* The answer to a management write shows the Hub's data after the write,
\* unless the window was hidden or the answer is not live data at all.
WriteIsReread == mutation.at = "done" => mutation.fresh
=============================================================================
