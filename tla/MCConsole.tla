----------------------------- MODULE MCConsole -----------------------------
(* Model-checking instances of the consoles: the desktop shell, its way to *)
(* a local Agent, a browser tab and its read queue.  A run explores one    *)
(* part, chosen in the initial state; each combines the operations that    *)
(* can disturb one another and leaves the others out:                      *)
(*   account   every change of the desktop's connection, and a restart     *)
(*   opening   cached first paints while the user signs in                 *)
(*   writes    management writes and selections under one connection       *)
(*   settings  edits of the Agent's configuration among refreshes          *)
(*   storage   changes of the connection with credential writes that fail, *)
(*             and a platform that encrypts nothing, and a restart         *)
(*   overlap   edits of the configuration under changes of the connection  *)
(*   agent     attaching to the service of the machine or spawning         *)
(*   visit     a tab from its first paint on, and a reload                 *)
(*   tabs      a tab with a live view: sign-out, expiry, sign-in, hiding,  *)
(*             a network that comes and goes, and another tab that forgets *)
(*             and signs in                                                *)
(*   reads     the read queue                                              *)
EXTENDS DesktopConsole, AgentManager, WebConsole, ReadQueue, TLC

CONSTANT Instances    \* the parts of the run

VARIABLE part

DesktopParts == {"account", "opening", "writes", "settings", "storage", "overlap"}
WebParts == {"visit", "tabs"}

Init ==
    /\ part \in Instances
    /\ DesktopInit /\ late = FALSE /\ swapped = FALSE /\ crossed = FALSE
    /\ ManagerInit /\ WebInit /\ QueueInit
    /\ part \in {"opening", "writes"} => serverUrl = agentUrl /\ credentialFile # None
    /\ part \in {"settings", "overlap"} => credentialFile # None
    /\ IF part = "tabs" THEN WebOpen ELSE WebStart
    /\ part = "overlap" => agentUrl # None
    /\ part # "storage" => safeStorage
    \* one state of what is not explored
    /\ part \notin DesktopParts => agentUrl = None /\ credentialFile = None
    /\ part \notin WebParts => cookie = Nobody /\ idb = Nobody /\ ~cleared
    /\ part # "agent" => service /\ tokenReadable

WithinDesktop ==
    /\ part \notin {"account", "storage"} => restarts' = 0
    /\ part = "overlap" => agentUrl # None
    /\ part # "storage" => safeStorage' /\ ~unsaved'
    /\ part # "opening" => opener' = Idle
    /\ part \in {"opening", "settings", "overlap"} => Len(cacheWrites') <= 1
    /\ part \notin {"writes", "settings"} => refresh'.at # "charts"
    /\ part \in {"writes", "storage", "overlap"} => \A i \in DOMAIN cacheWrites' : cacheWrites'[i].op = "clear"
    /\ part # "writes" => mutation' = Idle /\ view' = view /\ queued' \notin Views
    /\ part = "opening" /\ change' # Idle => change'.op \in {"login", "undo"}
    /\ part \in {"overlap", "storage"} /\ change' # Idle => change'.op # "disconnect"
    /\ part = "overlap" /\ change'.at = "clearing" => (change'.op = "save" => change'.key \notin {None, accessKey})
    /\ part \in {"writes", "settings"} => change' = Idle
    /\ part \notin {"settings", "overlap"} => config' = Idle
    \* a bound of the run: nothing comes between a clear and what follows it
    /\ config.at = "cleared" => config' = Idle

WithinWeb ==
    /\ part = "tabs" => reloads' = 0
    /\ part = "visit" => ~resetPending'

Next ==
    /\ UNCHANGED part
    /\ \/ part \in DesktopParts /\ DesktopNext /\ Overlaps /\ WithinDesktop /\ UNCHANGED <<managerVars, webVars, queueVars>>
       \/ part = "agent" /\ ManagerNext /\ UNCHANGED <<desktopVars, overlapVars, webVars, queueVars>>
       \/ part \in WebParts /\ WebNext /\ WithinWeb /\ UNCHANGED <<desktopVars, overlapVars, managerVars, queueVars>>
       \/ part = "reads" /\ QueueNext /\ UNCHANGED <<desktopVars, overlapVars, managerVars, webVars>>

Spec == Init /\ [][Next]_<<desktopVars, overlapVars, managerVars, webVars, queueVars, part>>

\* Keys, addresses and views are interchangeable, and the devices of a tab and the
\* lifetimes of the queue that the configuration gives the same names.
Ids == UNION {Permutations(S) : S \in {Keys, Urls, Views}}
=============================================================================
