----------------------------- MODULE WebConsole -----------------------------
(***************************************************************************)
(* One tab of the browser console: the gate of UnifiedConsole and          *)
(* bootstrapConsole, the reads of WebConsoleAdapter and the offline copy   *)
(* of OfflineSnapshotCache, which outlives the tab in IndexedDB and in a   *)
(* tombstone of localStorage.  The Hub, the network, the storage and other *)
(* tabs answer, fail or interfere between any two steps.                   *)
(*                                                                         *)
(* The adapter compares generation, sessionGeneration and sessionScope     *)
(* captured before an await.  An operation that is overtaken does nothing  *)
(* but return, so it is dropped when a counter moves; while a read of the  *)
(* view is under way sessionGeneration only moves together with            *)
(* generation.  Telemetry is abstracted to the session it was read under   *)
(* and the device it belongs to.                                           *)
(***************************************************************************)
EXTENDS Sublists

CONSTANTS
    Nobody,         \* no session, no device, no record
    Nodes,          \* devices that a view selects
    MaxSessions, MaxIdb, MaxEvents, MaxReloads    \* bounds

VARIABLES
    cookie,         \* session of the browser's cookie
    lastSession,    \* sessions opened so far
    sessionScope, identityScope, snapshot, socket,    \* WebConsoleAdapter
    check,          \* the check of the session under way
    load, pull,     \* the read of the view, the metrics pulled after a push
    saveTimer,      \* a copy of the view is about to be saved
    expiring,       \* markSessionExpired awaits the clear of the copy
    record, recordLoaded, idbQueue, idb, cleared,     \* OfflineSnapshotCache
    gate, boot, restoring,    \* UnifiedConsole and its bootstrap
    account,        \* sign-in, sign-out or forgetting under way
    resetPending,   \* another tab's reset has not been delivered yet
    cut,            \* history: a newer generation overtook an expiry, or a
                    \* sign-in was answered in a tab that has a session again
    events, reloads

scopeVars == <<sessionScope, identityScope>>
readVarsWeb == <<load, pull, saveTimer>>
copyVars == <<record, recordLoaded, idb, cleared>>
gateVars == <<gate, boot, restoring>>
worldVars == <<lastSession, resetPending, events, reloads>>
webVars == <<cookie, scopeVars, snapshot, socket, check, readVarsWeb, expiring, copyVars, idbQueue,
             gateVars, account, cut, worldVars>>

\* Telemetry: the charts of a device, a view of the workspace, a stored copy.
Metrics == [session : Nat, device : Nodes \cup {Nobody}]
TabViews == [device : Nodes \cup {Nobody}, rows : SUBSET Nat, metrics : Metrics \cup {Nobody}]
Copies == [scope : Nat, ended : BOOLEAN, views : Seq(TabViews) \ {<<>>}]

ASSUME WebConsoleAssumption ==
    /\ MaxSessions \in Nat \ {0} /\ MaxIdb \in Nat
    /\ Nobody \notin Nat /\ Nobody \notin Metrics /\ Nobody \notin Copies

Quiet == [at |-> "quiet"]
emptyConsoleSnapshot == [source |-> "empty", device |-> Nobody, rows |-> {}, metrics |-> Nobody]

Subscribed == gate = "authenticated"    \* the workspace is mounted

----------------------------------------------------------------------------
(* The offline copy.                                                       *)

Ended(r) == IF r = Nobody THEN Nobody ELSE [r EXCEPT !.ended = TRUE]

\* The queue after a clear: the operation under way goes on, a put behind it
\* does nothing, a clear behind it only returns.
Fenced(q) ==
    LET waiting == Sublist(q, {i \in 2..Len(q) : q[i].put = Nobody})
    IN  IF q = <<>> THEN q
        ELSE <<[put |-> Ended(Head(q).put), current |-> Head(q).current /\ Head(q).put = Nobody, by |-> Head(q).by]>>
             \o [i \in DOMAIN waiting |-> [waiting[i] EXCEPT !.current = FALSE]]

\* clear up to its await, on behalf of by.
ClearCopy(by) ==
    /\ cleared' = TRUE
    /\ record' = Nobody /\ recordLoaded' = TRUE
    /\ idb' = Ended(idb)
    /\ idbQueue' = Append(Fenced(idbQueue), [put |-> Nobody, current |-> TRUE, by |-> by])

\* The view of the snapshot and those it may leave in the record: the byte
\* budget drops the others, then the charts.
saveSnapshotView(scope) ==
    LET now == [device |-> snapshot.device, rows |-> snapshot.rows, metrics |-> snapshot.metrics]
        previous == IF record # Nobody /\ record.scope = scope THEN record.views ELSE <<>>
        others == Sublist(previous, {i \in DOMAIN previous : previous[i].device # now.device})
    IN  {[scope |-> scope, ended |-> FALSE, views |-> views] :
            views \in {<<now>> \o others, <<now>>, <<[now EXCEPT !.metrics = Nobody]>>}}

\* restoreSnapshotView: the latest rows, and the charts of the device d.
Restored(d) ==
    LET fit == {i \in DOMAIN record.views : record.views[i].metrics # Nobody /\ record.views[i].metrics.device = d}
    IN  [source |-> "cache", device |-> d, rows |-> Head(record.views).rows,
         metrics |-> IF fit = {} THEN Nobody ELSE Head(Sublist(record.views, fit)).metrics]

\* restore may also find that every saved view is a day old.
Restorable == record # Nobody /\ ~cleared

\* loadRecord, shared by the readers that wait for it.
CopyLoaded ==
    /\ ~recordLoaded /\ (restoring \/ check.at = "reading")
    /\ recordLoaded' = TRUE
    /\ record' \in IF cleared THEN {Nobody} ELSE {idb, Nobody}
    /\ UNCHANGED <<cookie, scopeVars, snapshot, socket, check, readVarsWeb, expiring, idb, cleared, idbQueue,
                   gateVars, account, cut, worldVars>>

\* The save scheduled by the read of the view; an unchanged view is not
\* rewritten, and one that exceeds the budget even alone clears the copy.
SaveView ==
    /\ saveTimer /\ Len(idbQueue) < MaxIdb
    /\ saveTimer' = FALSE
    /\ \/ UNCHANGED <<copyVars, idbQueue>>
       \/ /\ record' \in saveSnapshotView(sessionScope)
          /\ idbQueue' = Append(idbQueue, [put |-> record', current |-> TRUE, by |-> "save"])
          /\ UNCHANGED <<recordLoaded, idb, cleared>>
       \/ ClearCopy("save")
    /\ UNCHANGED <<cookie, scopeVars, snapshot, socket, check, load, pull, expiring, gateVars, account, cut, worldVars>>

\* Mutant: a finished put lifts the tombstone without looking at the epoch.
LiftsAlways(w, written) == written

\* A put lifts the tombstone only for the session and the view it was made for.
Lifts(w, written) == written /\ w.current

\* A put commits or not; one that timed out may have committed as well.
PutEnds ==
    /\ idbQueue # <<>> /\ Head(idbQueue).put # Nobody
    /\ idbQueue' = Tail(idbQueue)
    /\ \E committed, written \in BOOLEAN :
        /\ written => committed
        /\ idb' = IF committed THEN Head(idbQueue).put ELSE idb
        /\ cleared' = (cleared /\ ~Lifts(Head(idbQueue), written))
    /\ UNCHANGED <<cookie, scopeVars, snapshot, socket, check, readVarsWeb, expiring, record, recordLoaded,
                   gateVars, account, cut, worldVars>>

----------------------------------------------------------------------------
(* Generations and expiry.                                                 *)

\* A put of an earlier generation goes on, but lifts no tombstone.
Superseded(q) == [i \in DOMAIN q |-> [q[i] EXCEPT !.current = @ /\ q[i].put = Nobody]]

\* cancelSnapshot, and every other move of generation: what was under way for
\* the view before is dropped, and a new read takes its place.
CancelSnapshot(next) ==
    /\ load' = next
    /\ pull' = Quiet /\ saveTimer' = FALSE /\ restoring' = FALSE
    /\ expiring' = FALSE /\ cut' = (cut \/ expiring)
    /\ idbQueue' = Superseded(idbQueue)

\* markSessionExpired up to its await; the clear carries who waits for it.
MarkSessionExpired(by) ==
    /\ Len(idbQueue) < MaxIdb
    /\ load' = Quiet /\ pull' = Quiet /\ saveTimer' = FALSE /\ restoring' = FALSE
    /\ check' = Quiet /\ expiring' = TRUE /\ UNCHANGED cut
    /\ sessionScope' = Nobody /\ identityScope' = Nobody
    /\ ClearCopy(by)

\* The denial of a request expires the session; a bootstrap that waits for the
\* answer shows the sign-in form once the copy is cleared.
Denied(booting) ==
    /\ MarkSessionExpired(IF booting THEN "boot" ELSE "denial")
    /\ boot' = IF booting THEN "denied" ELSE IF boot = "pending" THEN "none" ELSE boot
    /\ account' = IF account.at = "session" THEN Quiet ELSE account
    /\ UNCHANGED <<cookie, snapshot, socket, gate, worldVars>>

Expiries == {"boot", "denial", "login", "logout", "forget"}

\* Nothing of the kind is queued behind the operation that ends.
LastOf(kinds) == \A i \in 2 .. Len(idbQueue) : idbQueue[i].by \notin kinds

\* Mutant: the snapshot is emptied only when the copy could be deleted.
EmptiedIfDeleted(written) == expiring /\ LastOf(Expiries) /\ written

\* The expiry that began last goes on behind its await, deleted or not.
Emptied(written) == expiring /\ LastOf(Expiries)

\* A clear of the copy is written, fails, or is given up; whoever awaits it
\* goes on.  A workspace that gives way to the sign-in form is unmounted.
CopyCleared ==
    /\ idbQueue # <<>> /\ Head(idbQueue).put = Nobody
    /\ LET by == Head(idbQueue).by
           denied == by = "boot" /\ boot = "denied" /\ LastOf({"boot"})
           forgotten == by = "forget" /\ account.at = "forget"
           unmounted == Subscribed /\ (denied \/ forgotten)
           waiting == expiring /\ ~(by \in Expiries /\ LastOf(Expiries))
       IN  \E written \in BOOLEAN :
            /\ written => Head(idbQueue).current
            /\ idb' = IF written THEN Nobody ELSE idb
            /\ snapshot' = IF by \in Expiries /\ Emptied(written) THEN emptyConsoleSnapshot ELSE snapshot
            /\ socket' = IF (by \in Expiries /\ Emptied(written)) \/ unmounted THEN Nobody ELSE socket
            /\ expiring' = (waiting /\ ~unmounted) /\ cut' = (cut \/ (waiting /\ unmounted))
            /\ check' = IF by = "check" /\ check.at = "clearing" THEN [check EXCEPT !.at = "cleared"] ELSE check
            /\ gate' \in IF denied THEN {"anonymous"}
                        ELSE IF forgotten THEN {"anonymous", "unavailable"} ELSE {gate}    \* navigator.onLine
            /\ boot' = IF denied THEN "none" ELSE boot
            /\ account' = IF forgotten THEN Quiet
                          ELSE IF by \in {"login", "logout"} /\ account.at = by
                          THEN [at |-> "asking", op |-> by] ELSE account
            /\ load' = IF unmounted THEN Quiet ELSE load
            /\ pull' = IF unmounted THEN Quiet ELSE pull
            /\ saveTimer' = (saveTimer /\ ~unmounted)
            /\ idbQueue' = IF unmounted THEN Superseded(Tail(idbQueue)) ELSE Tail(idbQueue)
    /\ UNCHANGED <<cookie, scopeVars, record, recordLoaded, cleared, restoring, worldVars>>

----------------------------------------------------------------------------
(* The session: bootstrap and checks.                                      *)

\* checkSession up to its await.
StartCheck == check' = [at |-> "asked", cookie |-> cookie']

\* establishSession: a check under way is shared unless it is superseded.
EstablishSession(supersede) == IF supersede \/ check = Quiet THEN StartCheck ELSE UNCHANGED check

\* UnifiedConsole's check: the copy is read while the Hub is asked.
Bootstrap ==
    /\ ~Subscribed /\ events < MaxEvents
    /\ events' = events + 1
    /\ boot' = "pending" /\ restoring' = ~cleared
    /\ gate' \in IF gate = "unavailable" THEN {gate, "loading"} ELSE {gate}
    /\ UNCHANGED cookie
    /\ \E supersede \in BOOLEAN : EstablishSession(supersede)
    /\ UNCHANGED <<lastSession, scopeVars, snapshot, socket, readVarsWeb, expiring, copyVars, idbQueue,
                   account, cut, resetPending, reloads>>

\* cacheCurrent: neither a live session nor a denial has come first.
Wanted == boot \in {"pending", "offline"}

\* The copy paints while the session is checked, or when the Hub is away.
RestoreOffline ==
    /\ restoring /\ recordLoaded
    /\ restoring' = FALSE
    /\ \/ /\ Restorable /\ Wanted
          /\ snapshot' = Restored(Head(record.views).device)
          /\ sessionScope' = Nobody /\ socket' = Nobody
          /\ gate' = "authenticated"
       \/ /\ gate' = IF boot = "offline" /\ ~Subscribed THEN "unavailable" ELSE gate
          /\ UNCHANGED <<snapshot, sessionScope, socket>>
    /\ boot' = IF boot = "offline" THEN "none" ELSE boot
    /\ UNCHANGED <<cookie, identityScope, check, readVarsWeb, expiring, copyVars, idbQueue, account, cut, worldVars>>

\* The Hub accepted the session.
Accepted == check.at = "asked" /\ check.cookie # Nobody

\* The copy has not been read yet.
CheckWaits ==
    /\ Accepted /\ ~recordLoaded
    /\ check' = [check EXCEPT !.at = "reading"]
    /\ UNCHANGED <<cookie, scopeVars, snapshot, socket, readVarsWeb, expiring, copyVars, idbQueue,
                   gateVars, account, cut, worldVars>>

\* The copy belongs to another session and is cleared first.
CopyOfAnother ==
    /\ Accepted \/ check.at = "reading"
    /\ recordLoaded /\ Len(idbQueue) < MaxIdb
    /\ record # Nobody /\ record.scope # check.cookie
    /\ ClearCopy("check")
    /\ check' = [check EXCEPT !.at = "clearing"]
    /\ UNCHANGED <<cookie, scopeVars, snapshot, socket, readVarsWeb, expiring, gateVars, account, cut, worldVars>>

\* Mutant: an identity that changed keeps the snapshot.
SameIdentity(s) == TRUE

\* The snapshot may stay: the identity is the one it was read under.
IdentityStays(s) == check.at # "cleared" /\ identityScope \in {Nobody, s}

\* The check ends well.  The read that waits for it asks for the devices; a
\* bootstrap that painted the copy starts one.
CheckEnds ==
    /\ \/ (Accepted \/ check.at = "reading") /\ recordLoaded /\ (record # Nobody => record.scope = check.cookie)
       \/ check.at = "cleared"
    /\ LET s == check.cookie IN
        /\ IF IdentityStays(s) THEN UNCHANGED <<snapshot, socket>>
           ELSE snapshot' = emptyConsoleSnapshot /\ socket' = Nobody
        /\ sessionScope' = s /\ identityScope' = s
    /\ check' = Quiet
    /\ LET resume == boot = "pending" /\ Subscribed /\ snapshot'.source = "cache" IN
        IF resume THEN CancelSnapshot([at |-> "list", device |-> snapshot.device, cookie |-> cookie])
        ELSE /\ load' = IF load.at = "session" THEN [at |-> "list", device |-> load.device, cookie |-> cookie] ELSE load
             /\ restoring' = (restoring /\ boot # "pending")
             /\ UNCHANGED <<pull, saveTimer, expiring, cut, idbQueue>>
    /\ boot' = IF boot = "pending" THEN "none" ELSE boot
    /\ gate' = IF boot = "pending" \/ account.at = "session" THEN "authenticated" ELSE gate
    /\ account' = IF account.at = "session" THEN Quiet ELSE account
    /\ UNCHANGED <<cookie, copyVars, worldVars>>

\* Without a session the Hub answers 401.
CheckDenied ==
    /\ check.at = "asked" /\ (check.cookie = Nobody \/ check.cookie # cookie)
    /\ Denied(boot = "pending")

----------------------------------------------------------------------------
(* Reads of the view.                                                      *)

\* A failed read: the session is unconfirmed, and the copy is shown if there is one.
FallBackToCopy(d) ==
    /\ sessionScope' = Nobody
    /\ load' = Quiet
    /\ \/ Restorable /\ snapshot' = Restored(d) /\ socket' = Nobody
       \/ UNCHANGED <<snapshot, socket>>

\* A bootstrap whose check failed waits for the copy.
BootUnavailable == IF boot = "pending" THEN (IF restoring THEN "offline" ELSE "none") ELSE boot

\* The Hub cannot be reached.
CheckFails ==
    /\ check.at = "asked"
    /\ check' = Quiet
    /\ IF load.at = "session" THEN FallBackToCopy(load.device) ELSE UNCHANGED <<sessionScope, load, snapshot, socket>>
    /\ boot' = BootUnavailable
    /\ gate' = IF boot = "pending" /\ ~restoring /\ ~Subscribed THEN "unavailable" ELSE gate
    /\ account' = IF account.at = "session" THEN Quiet ELSE account
    /\ UNCHANGED <<cookie, identityScope, pull, saveTimer, expiring, copyVars, idbQueue, restoring, cut, worldVars>>

\* loadSnapshot up to its first await: polls, selections and refreshes of the
\* workspace, a push that the selected device was removed, a network that is
\* back.  A recent check is good enough for a background poll.
LoadSnapshot ==
    /\ Subscribed /\ events < MaxEvents
    /\ events' = events + 1 /\ UNCHANGED cookie
    /\ \E d \in Nodes, supersede \in BOOLEAN :
        /\ account = Quiet \/ supersede
        /\ \/ /\ sessionScope # Nobody /\ ~supersede
              /\ CancelSnapshot([at |-> "list", device |-> d, cookie |-> cookie])
              /\ UNCHANGED check
           \/ /\ CancelSnapshot([at |-> "session", device |-> d])
              /\ EstablishSession(supersede)
    /\ boot' = IF check' # check /\ boot = "pending" THEN "none" ELSE boot
    /\ UNCHANGED <<lastSession, scopeVars, snapshot, socket, copyVars, gate, account, resetPending, reloads>>

\* getSnapshot while the copy is shown: another view of the copy.
ShowCopy ==
    /\ Subscribed /\ account = Quiet /\ snapshot.source = "cache" /\ sessionScope = Nobody /\ Restorable
    /\ events < MaxEvents /\ events' = events + 1
    /\ \E d \in Nodes : snapshot' = Restored(d)
    /\ CancelSnapshot(Quiet)
    /\ UNCHANGED <<cookie, lastSession, scopeVars, socket, check, copyVars, gate, boot, account, resetPending, reloads>>

\* The devices are published at once with the charts shown before, and the
\* charts of the view are read; a socket is opened if there is none.
ListPublished ==
    /\ load.at = "list" /\ load.cookie # Nobody
    /\ snapshot' = [source |-> "live", device |-> load.device, rows |-> {load.cookie},
                    metrics |-> IF snapshot.source = "live" THEN snapshot.metrics ELSE Nobody]
    /\ socket' = IF socket = Nobody THEN cookie ELSE socket
    /\ saveTimer' = TRUE
    /\ load' \in {Quiet, [at |-> "charts", device |-> load.device, cookie |-> load.cookie]}
    /\ UNCHANGED <<cookie, scopeVars, check, pull, expiring, copyVars, idbQueue, gateVars, account, cut, worldVars>>

\* An optional read is answered, or fails and leaves its chart empty.
ChartPublished ==
    /\ load.at = "charts"
    /\ \E value \in {[session |-> load.cookie, device |-> load.device], Nobody} :
        snapshot' = [snapshot EXCEPT !.metrics = value]
    /\ saveTimer' = TRUE
    /\ load' = Quiet
    /\ UNCHANGED <<cookie, scopeVars, socket, check, pull, expiring, copyVars, idbQueue, gateVars, account, cut, worldVars>>

ListFailsWeb ==
    /\ load.at = "list"
    /\ FallBackToCopy(load.device)
    /\ UNCHANGED <<cookie, identityScope, check, pull, saveTimer, expiring, copyVars, idbQueue, gateVars, account, cut, worldVars>>

\* The session of a read was revoked or signed out before the Hub answered.
ReadDenied ==
    /\ \/ load.at \in {"list", "charts"} /\ load.cookie # cookie
       \/ pull.at = "reading" /\ pull.cookie # cookie
       \/ Subscribed /\ sessionScope # Nobody /\ snapshot.source = "live" /\ cookie = Nobody    \* liveRequest
    /\ Denied(FALSE)

\* A push over the socket updates a row; one for the device on screen asks
\* for its metrics again.
Push ==
    /\ socket # Nobody /\ snapshot.source = "live" /\ sessionScope # Nobody
    /\ snapshot' = [snapshot EXCEPT !.rows = @ \cup {socket}]
    /\ pull' \in {pull, IF pull = Quiet THEN [at |-> "timer", device |-> snapshot.device] ELSE pull}
    /\ UNCHANGED <<cookie, scopeVars, socket, check, load, saveTimer, expiring, copyVars, idbQueue,
                   gateVars, account, cut, worldVars>>

PullStarts ==
    /\ pull.at = "timer"
    /\ pull' = IF sessionScope # Nobody /\ snapshot.source = "live" /\ snapshot.device = pull.device
               THEN [at |-> "reading", device |-> pull.device, cookie |-> cookie] ELSE Quiet
    /\ UNCHANGED <<cookie, scopeVars, snapshot, socket, check, load, saveTimer, expiring, copyVars, idbQueue,
                   gateVars, account, cut, worldVars>>

PullPublished ==
    /\ pull.at = "reading"
    /\ pull' = Quiet
    /\ \/ /\ pull.cookie # Nobody /\ sessionScope # Nobody /\ snapshot.device = pull.device
          /\ snapshot' = [snapshot EXCEPT !.metrics = [session |-> pull.cookie, device |-> pull.device]]
       \/ UNCHANGED snapshot
    /\ UNCHANGED <<cookie, scopeVars, socket, check, load, saveTimer, expiring, copyVars, idbQueue,
                   gateVars, account, cut, worldVars>>

----------------------------------------------------------------------------
(* The user, the browser and other tabs.                                   *)

\* Sign-in from the form, sign-out from the workspace and "forget" from the
\* menu first forget what is stored here.
Forget ==
    /\ account = Quiet /\ events < MaxEvents
    /\ events' = events + 1
    /\ \E by \in {"login", "logout", "forget"} :
        /\ by = "login" => gate = "anonymous" /\ lastSession < MaxSessions
        /\ by = "logout" => Subscribed
        /\ account' = [at |-> by, op |-> by]
        /\ socket' = IF by = "logout" THEN Nobody ELSE socket
        /\ MarkSessionExpired(by)
    /\ boot' = "none"
    /\ UNCHANGED <<cookie, lastSession, snapshot, gate, resetPending, reloads>>

\* The Hub opens or ends the session, or does not answer.
AccountAnswered ==
    /\ account.at = "asking"
    /\ \/ /\ account.op = "login" /\ lastSession < MaxSessions
          /\ cookie' = lastSession + 1 /\ lastSession' = lastSession + 1
          /\ EstablishSession(FALSE)
          /\ cut' = (cut \/ check # Quiet \/ Subscribed \/ expiring)
          /\ account' = [account EXCEPT !.at = "session"]
       \/ /\ cookie' \in IF account.op = "logout" THEN {Nobody, cookie} ELSE {cookie}
          /\ account' = Quiet
          /\ UNCHANGED <<lastSession, check, cut>>
    /\ UNCHANGED <<scopeVars, snapshot, socket, readVarsWeb, expiring, copyVars, idbQueue, gateVars,
                   resetPending, events, reloads>>

\* The tab is hidden.
HideTab ==
    /\ Subscribed /\ events < MaxEvents /\ events' = events + 1
    /\ CancelSnapshot(Quiet) /\ socket' = Nobody
    /\ UNCHANGED <<cookie, lastSession, scopeVars, snapshot, check, copyVars, gate, boot, account, resetPending, reloads>>

\* The browser goes offline.
Disconnect ==
    /\ Subscribed /\ events < MaxEvents /\ events' = events + 1
    /\ CancelSnapshot(Quiet) /\ socket' = Nobody
    /\ sessionScope' = Nobody
    /\ snapshot' = IF Restorable THEN Restored(snapshot.device) ELSE snapshot
    /\ UNCHANGED <<cookie, lastSession, identityScope, check, copyVars, gate, boot, account, resetPending, reloads>>

\* The Hub revokes the session of the cookie.
Revoke ==
    /\ cookie # Nobody /\ cookie' = Nobody
    /\ UNCHANGED <<lastSession, scopeVars, snapshot, socket, check, readVarsWeb, expiring, copyVars, idbQueue,
                   gateVars, account, cut, resetPending, events, reloads>>

\* Another tab forgets the copy they share, and its message comes later.
OtherTabForgets ==
    /\ ~resetPending /\ events < MaxEvents /\ events' = events + 1
    /\ resetPending' = TRUE
    /\ cleared' = TRUE
    /\ idb' \in {Nobody, Ended(idb)}
    /\ idbQueue' = [i \in DOMAIN idbQueue |-> [idbQueue[i] EXCEPT !.put = Ended(@)]]
    /\ cookie' \in {cookie, Nobody}
    /\ UNCHANGED <<lastSession, scopeVars, snapshot, socket, check, readVarsWeb, expiring, record, recordLoaded,
                   gateVars, account, cut, reloads>>

\* The other tab signs in again before its message comes.
OtherTabSignsIn ==
    /\ resetPending /\ lastSession < MaxSessions
    /\ lastSession' = lastSession + 1 /\ cookie' = lastSession'
    /\ UNCHANGED <<scopeVars, snapshot, socket, check, readVarsWeb, expiring, copyVars, idbQueue,
                   gateVars, account, cut, resetPending, events, reloads>>

\* The message is delivered; without a workspace nobody listens.
ResetReceived ==
    /\ resetPending
    /\ resetPending' = FALSE
    /\ IF Subscribed THEN MarkSessionExpired("denial") /\ boot' = "none"
       ELSE UNCHANGED <<scopeVars, check, readVarsWeb, expiring, copyVars, idbQueue, restoring, boot, cut>>
    /\ UNCHANGED <<cookie, lastSession, snapshot, socket, gate, account, events, reloads>>

FreshTab ==
    /\ sessionScope' = Nobody /\ identityScope' = Nobody
    /\ snapshot' = emptyConsoleSnapshot /\ socket' = Nobody
    /\ check' = Quiet /\ load' = Quiet /\ pull' = Quiet /\ saveTimer' = FALSE /\ expiring' = FALSE
    /\ record' = Nobody /\ recordLoaded' = FALSE /\ idbQueue' = <<>>
    /\ gate' = "loading" /\ boot' = "mounting" /\ restoring' = FALSE
    /\ account' = Quiet

\* The page is loaded again, whatever is under way.
Reload ==
    /\ reloads < MaxReloads /\ ~resetPending
    /\ reloads' = reloads + 1
    /\ FreshTab
    /\ idb' \in {idb} \cup (IF idbQueue = <<>> THEN {} ELSE {Head(idbQueue).put})
    /\ UNCHANGED <<cookie, lastSession, cleared, cut, resetPending, events>>

CopyFrom(s, d) ==
    [scope |-> s, ended |-> FALSE,
     views |-> <<[device |-> d, rows |-> {s}, metrics |-> [session |-> s, device |-> d]]>>]

\* A tab that was just opened: a first visit, one after an earlier session, or
\* one after a sign-out whose copy could not be deleted.
WebStart ==
    /\ cookie \in {1, Nobody}
    /\ sessionScope = Nobody /\ identityScope = Nobody
    /\ snapshot = emptyConsoleSnapshot /\ socket = Nobody
    /\ record = Nobody /\ recordLoaded = FALSE
    /\ cleared \in BOOLEAN
    /\ idb \in {Nobody} \cup {[CopyFrom(s, d) EXCEPT !.ended = cleared] : s \in 0 .. 1, d \in Nodes}
    /\ gate = "loading" /\ boot = "mounting"

\* A tab in which the workspace shows a live view that has been copied.
WebOpen ==
    /\ cookie = 1 /\ sessionScope = 1 /\ identityScope = 1
    /\ \E d \in Nodes :
        /\ snapshot = [source |-> "live", device |-> d, rows |-> {1}, metrics |-> [session |-> 1, device |-> d]]
        /\ record = CopyFrom(1, d)
    /\ socket = 1
    /\ recordLoaded = TRUE /\ cleared = FALSE /\ idb = record
    /\ gate = "authenticated" /\ boot = "none"

WebInit ==
    /\ WebStart \/ WebOpen
    /\ lastSession = 1
    /\ check = Quiet /\ load = Quiet /\ pull = Quiet /\ saveTimer = FALSE /\ expiring = FALSE
    /\ idbQueue = <<>>
    /\ restoring = FALSE
    /\ account = Quiet /\ resetPending = FALSE /\ cut = FALSE
    /\ events = 0 /\ reloads = 0

WebNext ==
    \/ CopyLoaded \/ SaveView \/ PutEnds \/ CopyCleared
    \/ Bootstrap \/ RestoreOffline \/ CheckWaits \/ CopyOfAnother \/ CheckEnds \/ CheckDenied \/ CheckFails
    \/ LoadSnapshot \/ ShowCopy \/ ListPublished \/ ChartPublished \/ ListFailsWeb \/ ReadDenied
    \/ Push \/ PullStarts \/ PullPublished
    \/ Forget \/ AccountAnswered \/ HideTab \/ Disconnect \/ Revoke \/ OtherTabForgets \/ OtherTabSignsIn
    \/ ResetReceived \/ Reload

WebSpec == WebInit /\ [][WebNext]_webVars

----------------------------------------------------------------------------
(* Properties.                                                             *)

Sources(s) == s.rows \cup (IF s.metrics = Nobody THEN {} ELSE {s.metrics.session})

\* Telemetry and pushes of an earlier session are never shown as live under a
\* later one: neither a late reply nor a check that finds that another tab has
\* signed in mixes the two (checkSession, markSessionExpired, generations),
\* unless the expiry in between was overtaken and returned before it emptied
\* the snapshot.
LiveIsOwn ==
    sessionScope # Nobody /\ ~cut =>
        /\ snapshot.source = "live" => \A s \in Sources(snapshot) : s >= sessionScope
        /\ socket # Nobody => socket >= sessionScope

\* Telemetry that was forgotten cannot come back after a reload: a stored copy
\* from before the last clear is behind the tombstone, even when the storage
\* fails, times out or commits late (clear, save, wasCleared).
ForgottenStaysForgotten == idb # Nobody /\ idb.ended => cleared \/ resetPending

\* A stored copy holds nothing older than the session it is stored for.
CopyIsOwn ==
    ~cut => \A r \in {record, idb} \ {Nobody} :
        ~r.ended => \A i \in DOMAIN r.views : \A s \in Sources(r.views[i]) : s >= r.scope

\* Under the sign-in form nothing is shown, read or copied: a denial wins over
\* a late answer of the storage (bootstrapConsole, cacheCurrent).
DenialWins ==
    gate = "anonymous" /\ boot = "none" /\ ~expiring /\ ~cut =>
        snapshot.source = "empty" /\ load = Quiet /\ socket = Nobody

\* A copy shows the charts of the device that is selected, although every view
\* is saved with whatever charts were on screen (restoreSnapshotView).
RestoredFits ==
    snapshot.source = "cache" /\ snapshot.metrics # Nobody => snapshot.metrics.device = snapshot.device

\* Types of the state, and nobody waits for nothing: whoever awaits a clear of
\* the copy has one in the queue, a bootstrap has a check or a read of the
\* copy that will end it, and the loading screen has a bootstrap (clear,
\* markSessionExpired, bootstrapConsole).
WebTypeOK ==
    /\ cookie \in 1 .. MaxSessions \cup {Nobody} /\ sessionScope \in 1 .. MaxSessions \cup {Nobody}
    /\ identityScope \in 1 .. MaxSessions \cup {Nobody}
    /\ snapshot.source \in {"empty", "live", "cache"} /\ snapshot.device \in Nodes \cup {Nobody}
    /\ check.at \in {"quiet", "asked", "reading", "clearing", "cleared"}
    /\ load.at \in {"quiet", "session", "list", "charts"} /\ pull.at \in {"quiet", "timer", "reading"}
    /\ gate \in {"loading", "authenticated", "anonymous", "unavailable"}
    /\ boot \in {"mounting", "none", "pending", "offline", "denied"}
    /\ account.at \in {"quiet", "login", "logout", "forget", "asking", "session"}
    /\ Len(idbQueue) <= MaxIdb
    /\ LET Awaited(kinds) == \E i \in DOMAIN idbQueue : idbQueue[i].put = Nobody /\ idbQueue[i].by \in kinds IN
        /\ expiring => Awaited(Expiries)
        /\ check.at = "clearing" => Awaited({"check"})
        /\ boot = "denied" => Awaited({"boot"})
        /\ boot = "pending" => check # Quiet
        /\ boot = "offline" => restoring
        /\ gate = "loading" => boot # "none" \/ account.at = "forget"
        /\ account.at \in {"login", "logout", "forget"} => Awaited({account.at})

\* However checks, reads, pushes, the storage and other tabs overlap, what a tab
\* shows or stores is of one session and fits the device it is shown for, and the
\* tab never waits for something that will not come.
TabSound == WebTypeOK /\ LiveIsOwn /\ CopyIsOwn /\ RestoredFits
=============================================================================
