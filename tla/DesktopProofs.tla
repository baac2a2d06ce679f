---------------------------- MODULE DesktopProofs ---------------------------
(***************************************************************************)
(* Machine-checked theorems about DesktopConsole, for any keys, addresses, *)
(* views and bounds of a run.                                              *)
(***************************************************************************)
EXTENDS DesktopConsole, SublistLemmas

USE DEF keptVars

-----------------------------------------------------------------------------
(* The queues                                                              *)

\* The entries of q at the places P, none of them wanted any more.
Marked(q, P) == [i \in DOMAIN Sublist(q, P) |-> Expired(Sublist(q, P)[i])]

LEMMA OvertakenIsMarked ==
    ASSUME NEW q
    PROVE  Overtaken(q) = Marked(q, {i \in DOMAIN q : q[i].op = "clear" \/ q[i].envelope # None})
BY DEF Overtaken, Marked

\* Marking keeps the order of what is left.
LEMMA MarkedFacts ==
    ASSUME NEW S, NEW q \in Seq(S), NEW P \in SUBSET (DOMAIN q), \A o \in S : Expired(o) \in S
    PROVE  /\ Marked(q, P) \in Seq(S) /\ Len(Marked(q, P)) <= Len(q)
           /\ \E at : /\ at \in [DOMAIN Marked(q, P) -> P]
                      /\ \A n \in DOMAIN Marked(q, P) : Marked(q, P)[n] = Expired(q[at[n]])
                      /\ \A n, m \in DOMAIN Marked(q, P) : n < m => at[n] < at[m]
<1> DEFINE t == Sublist(q, P)
           N == Cardinality(P)
<1>1. DOMAIN q = 1 .. Len(q) /\ Len(q) \in Nat
  BY LenProperties
<1>2. P \in SUBSET (1 .. Len(q))
  BY <1>1
<1>3. t \in Seq(S) /\ Len(t) = N /\ N <= Len(q) /\ \E at : Takes(q, P, at)
  BY <1>2, SublistKeepsOrder
<1>4. DOMAIN t = 1 .. N /\ N \in Nat /\ \A n \in 1 .. N : t[n] \in S
  BY <1>3, LenProperties, ElementOfSeq
<1>5. Marked(q, P) = [i \in 1 .. N |-> Expired(t[i])]
  BY <1>4 DEF Marked
<1> HIDE DEF t, N
<1>6. Marked(q, P) \in [1 .. N -> S]
  BY <1>4, <1>5
<1>7. Marked(q, P) \in Seq(S) /\ Len(Marked(q, P)) = N /\ DOMAIN Marked(q, P) = 1 .. N
  BY <1>4, <1>6, SeqDef, LenProperties
<1>8. PICK at : /\ at \in [1 .. N -> P]
                /\ \A n \in 1 .. N : t[n] = q[at[n]]
                /\ \A n, m \in 1 .. N : n < m => at[n] < at[m]
  BY <1>3 DEF Takes, t, N
<1>9. \A n \in 1 .. N : Marked(q, P)[n] = Expired(q[at[n]])
  BY <1>5, <1>8
<1>10. QED
  BY <1>3, <1>7, <1>8, <1>9

LEMMA ExpiredCacheOp ==
    ASSUME NEW o \in CacheOps
    PROVE  /\ Expired(o) \in CacheOps /\ ~Expired(o).same
           /\ Expired(o).op = o.op /\ Expired(o).by = o.by /\ Expired(o).envelope = o.envelope
BY DEF Expired, CacheOps

LEMMA ExpiredCredentialOp ==
    ASSUME NEW o \in CredentialOps
    PROVE  /\ Expired(o) \in CredentialOps /\ ~Expired(o).same
           /\ Expired(o).op = o.op /\ Expired(o).by = o.by /\ Expired(o).value = o.value
BY DEF Expired, CredentialOps

-----------------------------------------------------------------------------
(* Types.  An operation on the connection goes through its places one by   *)
(* one, and an entry of a queue is awaited by the operation that put it    *)
(* there, so that a write that ends finds the operation where it waits.    *)

SessionTypes ==
    /\ accessKey \in Keys \cup {None} /\ serverUrl \in Urls \cup {None} /\ agentUrl \in Urls \cup {None}
    /\ lastIdentity \in 1 .. MaxIdentity /\ identity \in 0 .. lastIdentity
    /\ sessionCookie \in BOOLEAN /\ sameSession \in SUBSET {"refresh", "mutation", "change"}
CredentialTypes ==
    /\ credentialWrites \in Seq(CredentialOps) /\ credentialFile \in Credentials \cup {None}
    /\ safeStorage \in BOOLEAN /\ unsaved \in BOOLEAN
CacheTypes ==
    /\ loaded \in Envelopes \cup {None} /\ pending \in Envelopes \cup {None} /\ cacheFile \in Envelopes \cup {None}
    /\ cacheWrites \in Seq(CacheOps) /\ blocked \in BOOLEAN /\ clearReached \in BOOLEAN
ReadTypes ==
    /\ view \in Views /\ queued \in Views \cup {None, Same} /\ current \in BOOLEAN
    /\ refresh \in Refreshes /\ sameCache \in SUBSET {"refresh", "opener"}
UserTypes == opener \in Openers /\ change \in ConnectionChanges /\ config \in ConfigEdits
CountTypes ==
    /\ currentSnapshot \in Snapshots /\ mutation \in Mutations
    /\ hubVersion \in 0 .. MaxVersion /\ restarts \in 0 .. MaxRestarts

LEMMA TypesAre ==
    DesktopTypeOK <=> SessionTypes /\ CredentialTypes /\ CacheTypes /\ ReadTypes /\ UserTypes /\ CountTypes
BY DEF DesktopTypeOK, SessionTypes, CredentialTypes, CacheTypes, ReadTypes, UserTypes, CountTypes

CacheAwaited ==
    /\ \A i \in DOMAIN cacheWrites :
        /\ cacheWrites[i].by = "change" => change.at = "clearing"
        /\ cacheWrites[i].by = "config" => config.at = "clearing"
        /\ cacheWrites[i].op = "clear" => cacheWrites[i].envelope = None
    /\ \A i, j \in DOMAIN cacheWrites :
        cacheWrites[i].by # None /\ cacheWrites[i].by = cacheWrites[j].by => i = j

CredentialAwaited ==
    /\ \A i \in DOMAIN credentialWrites :
        /\ credentialWrites[i].op = "save" => credentialWrites[i].value # None
        /\ credentialWrites[i].op = "remove" => credentialWrites[i].by = "change" /\ credentialWrites[i].value = None
        /\ credentialWrites[i].by # None =>
              change.at = IF credentialWrites[i].op = "save" THEN "storing" ELSE "removing"
    /\ \A i, j \in DOMAIN credentialWrites :
        credentialWrites[i].by # None /\ credentialWrites[j].by # None => i = j

\* What a change of the connection has at its places.
ChangePlaced ==
    /\ change.at \in {"clearing", "cleared", "agent"} => lastIdentity < MaxIdentity
    /\ change.at \in {"clearing", "cleared"} /\ change.op = "login" => change.key # None
    /\ change.at \in {"agent", "auth", "storing", "stored"} => change.key # None
    /\ change.at \in {"auth", "leaving", "removing"} => accessKey = None
    /\ change.at \in {"storing", "stored"} => accessKey # None

\* A key has an identity of its own, drawn before.
Identified ==
    /\ accessKey # None \/ change.at = "auth" => identity # 0
    /\ \A i \in DOMAIN credentialWrites :
        credentialWrites[i].value # None => credentialWrites[i].value.identity \in 1 .. lastIdentity
    /\ credentialFile # None => credentialFile.identity \in 1 .. lastIdentity

\* A list that may be answered was asked for by the present account.
ReadPlaced ==
    /\ mutation.at = "writing" => hubVersion < MaxVersion
    /\ refresh.at = "list" /\ "refresh" \in sameSession => Account = refresh.account

BaseInv ==
    /\ SessionTypes /\ CredentialTypes /\ CacheTypes /\ ReadTypes /\ UserTypes /\ CountTypes
    /\ CacheAwaited /\ CredentialAwaited /\ ChangePlaced /\ Identified /\ ReadPlaced

-----------------------------------------------------------------------------
(* What the operations have in common                                      *)

LEMMA ScopeTypes ==
    ASSUME SessionTypes, NEW url \in Urls \cup {None}
    PROVE  /\ ScopeAt(url) \in Scopes \cup {None} /\ Account \in Accounts \cup {None}
           /\ (cacheScope = None <=> Account = None)
           /\ cacheScope # None => /\ accessKey \in Keys /\ serverUrl \in Urls
                                   /\ cacheScope[1] = serverUrl /\ cacheScope[2] = identity
                                   /\ Account = <<serverUrl, accessKey>>
BY DesktopAssumption DEF SessionTypes, ScopeAt, cacheScope, Account, Scopes, Accounts

\* A read has begun, with what the user now selects.
ReadBegins(url, readers) ==
    /\ current' = TRUE /\ queued' = None /\ sameCache' = readers \cup {"refresh"}
    /\ refresh' = [at |-> "cache", scope |-> ScopeAt(url)]
\* No read is under way any more.
ReadEnds(readers) ==
    /\ current' = FALSE /\ queued' = None /\ sameCache' = readers \ {"refresh"} /\ refresh' = Idle
    /\ view' = view /\ mutation' = IF mutation.at = "rereading" THEN Reread(currentSnapshot') ELSE mutation

LEMMA StartFacts ==
    ASSUME SessionTypes, ReadTypes, NEW url \in Urls \cup {None}, NEW r \in Views \cup {Same},
           NEW readers \in SUBSET {"refresh", "opener"}, StartReadAt(url, r, readers)
    PROVE  ReadTypes' /\ ReadBegins(url, readers) /\ refresh'.at = "cache" /\ refresh'.scope = ScopeAt(url)
<1>1. ReadBegins(url, readers)
  BY DEF StartReadAt, ReadBegins
<1>2. refresh' \in Refreshes /\ refresh'.at = "cache" /\ refresh'.scope = ScopeAt(url)
  BY <1>1, ScopeTypes DEF ReadBegins, Refreshes
<1>3. QED
  BY <1>1, <1>2, DesktopAssumption DEF StartReadAt, ReadBegins, ReadTypes

LEMMA FinishFacts ==
    ASSUME SessionTypes, ReadTypes, NEW q \in Views \cup {None, Same},
           NEW readers \in SUBSET {"refresh", "opener"}, Finish(q, readers)
    PROVE  /\ ReadTypes'
           /\ q # None => ReadBegins(serverUrl, readers) /\ refresh'.at = "cache" /\ mutation' = mutation
           /\ q = None => ReadEnds(readers) /\ refresh'.at = "idle"
<1>1. CASE q # None
  <2>1. StartReadAt(serverUrl, q, readers) /\ mutation' = mutation /\ q \in Views \cup {Same}
          /\ serverUrl \in Urls \cup {None}
    BY <1>1 DEF Finish, StartRead, SessionTypes
  <2>2. QED
    BY <1>1, <2>1, StartFacts
<1>2. CASE q = None
  <2>1. ReadEnds(readers)
    BY <1>2 DEF Finish, ReadEnds
  <2>2. QED
    BY <1>2, <2>1 DEF ReadEnds, ReadTypes, Refreshes, Idle
<1>3. QED
  BY <1>1, <1>2

LEMMA RefreshFacts ==
    ASSUME SessionTypes, ReadTypes, NEW url \in Urls \cup {None}, NEW r \in Views \cup {Same},
           NEW readers \in SUBSET {"refresh", "opener"}, RefreshAt(url, r, readers)
    PROVE  /\ ReadTypes'
           /\ refresh.at = "idle" => ReadBegins(url, readers) /\ refresh'.at = "cache"
                /\ refresh'.scope = ScopeAt(url)
           /\ refresh.at # "idle" =>
                 /\ refresh' = refresh /\ view' = view /\ sameCache' = readers
                 /\ \/ current' = current /\ queued' = queued
                    \/ current' = FALSE /\ queued' # None /\ r # Same
<1>1. mergeSnapshotRequests(queued, r) \in Views \cup {Same}
  BY DEF mergeSnapshotRequests, ReadTypes
<1>2. CASE refresh.at = "idle"
  <2>1. StartReadAt(url, mergeSnapshotRequests(queued, r), readers)
    BY <1>2 DEF RefreshAt
  <2>2. QED
    BY <1>1, <1>2, <2>1, StartFacts
<1>3. CASE refresh.at # "idle"
  <2>1. /\ refresh' = refresh /\ view' = view /\ sameCache' = readers
        /\ \/ current' = current /\ queued' = queued
           \/ current' = FALSE /\ r # Same /\ queued' = mergeSnapshotRequests(queued, r)
    BY <1>3 DEF RefreshAt, hasRequestChanges
  <2>2. None \notin Views \cup {Same}
    BY DesktopAssumption
  <2>3. QED
    BY <1>1, <1>3, <2>1, <2>2 DEF ReadTypes
<1>4. QED
  BY <1>2, <1>3

\* A queue that ends with a clear for by; before that, what is left of the queue
\* of now, at the places at.
EndsWithClear(t, by, at) ==
    /\ t \in Seq(CacheOps) /\ Len(t) \in Nat \ {0}
    /\ t[Len(t)].op = "clear" /\ t[Len(t)].by = by /\ t[Len(t)].same = TRUE /\ t[Len(t)].envelope = None
    /\ at \in [1 .. Len(t) - 1 -> DOMAIN cacheWrites]
    /\ \A i, j \in 1 .. Len(t) - 1 : i < j => at[i] < at[j]
    /\ \A i \in 1 .. Len(t) - 1 :
         /\ t[i].op = cacheWrites[at[i]].op /\ t[i].by = cacheWrites[at[i]].by
         /\ t[i].envelope = cacheWrites[at[i]].envelope /\ ~t[i].same
         /\ t[i].op = "clear" \/ t[i].envelope # None

LEMMA ClearFacts ==
    ASSUME CacheTypes, NEW by \in {None, "change", "config"}, CacheClear(by)
    PROVE  /\ blocked' = TRUE /\ loaded' = None /\ pending' = None
           /\ \E at : EndsWithClear(cacheWrites', by, at)
<1> DEFINE P == {i \in DOMAIN cacheWrites : cacheWrites[i].op = "clear" \/ cacheWrites[i].envelope # None}
           t == Overtaken(cacheWrites)
           last == [op |-> "clear", same |-> TRUE, by |-> by, envelope |-> None]
<1>1. t = Marked(cacheWrites, P)
  BY OvertakenIsMarked
<1>2. cacheWrites \in Seq(CacheOps) /\ P \in SUBSET (DOMAIN cacheWrites)
  BY DEF CacheTypes
<1>3. last \in CacheOps /\ last.op = "clear" /\ last.by = by /\ last.same = TRUE /\ last.envelope = None
  BY DEF CacheOps
<1>4. cacheWrites' = Append(t, last) /\ blocked' = TRUE /\ loaded' = None /\ pending' = None
  BY DEF CacheClear
<1> HIDE DEF t, last
<1>5. /\ t \in Seq(CacheOps)
      /\ \E at : /\ at \in [DOMAIN t -> P]
                 /\ \A n \in DOMAIN t : t[n] = Expired(cacheWrites[at[n]])
                 /\ \A n, m \in DOMAIN t : n < m => at[n] < at[m]
  <2> HIDE DEF P
  <2>1. \A o \in CacheOps : Expired(o) \in CacheOps
    BY ExpiredCacheOp
  <2>2. QED
    BY <1>1, <1>2, <2>1, MarkedFacts
<1>6. PICK at : /\ at \in [DOMAIN t -> P]
                /\ \A n \in DOMAIN t : t[n] = Expired(cacheWrites[at[n]])
                /\ \A n, m \in DOMAIN t : n < m => at[n] < at[m]
  BY <1>5
<1>7. Len(t) \in Nat /\ DOMAIN t = 1 .. Len(t)
  BY <1>5, LenProperties
<1>8. /\ cacheWrites' \in Seq(CacheOps) /\ Len(cacheWrites') = Len(t) + 1
      /\ cacheWrites'[Len(t) + 1] = last /\ \A i \in 1 .. Len(t) : cacheWrites'[i] = t[i]
  BY <1>3, <1>4, <1>5, AppendProperties
<1>9. at \in [1 .. Len(t) -> DOMAIN cacheWrites]
  BY <1>6, <1>7
<1>10. ASSUME NEW i \in 1 .. Len(t)
       PROVE  /\ cacheWrites'[i].op = cacheWrites[at[i]].op /\ cacheWrites'[i].by = cacheWrites[at[i]].by
              /\ cacheWrites'[i].envelope = cacheWrites[at[i]].envelope /\ ~cacheWrites'[i].same
              /\ cacheWrites'[i].op = "clear" \/ cacheWrites'[i].envelope # None
  <2>1. at[i] \in P /\ cacheWrites'[i] = Expired(cacheWrites[at[i]])
    BY <1>6, <1>7, <1>8
  <2>2. cacheWrites[at[i]] \in CacheOps
    BY <1>2, <2>1, ElementOfSeq
  <2>3. QED
    BY <2>1, <2>2, ExpiredCacheOp
<1>11. EndsWithClear(cacheWrites', by, at)
  <2>1. Len(cacheWrites') - 1 = Len(t) /\ Len(cacheWrites') \in Nat \ {0}
    BY <1>7, <1>8
  <2>2. \A i, j \in 1 .. Len(t) : i < j => at[i] < at[j]
    BY <1>6, <1>7
  <2>3. QED
    BY <1>3, <1>8, <1>9, <1>10, <2>1, <2>2 DEF EndsWithClear
<1>12. QED
  BY <1>4, <1>11

\* What the move of the epoch leaves of the writes of the credential file: the
\* one that has begun as it is, and those that are awaited, which find out.
Awaiting(t) ==
    /\ t \in Seq(CredentialOps)
    /\ \E at \in [DOMAIN t -> DOMAIN credentialWrites] :
         /\ \A i, j \in DOMAIN t : i < j => at[i] < at[j]
         /\ \A i \in DOMAIN t :
              /\ t[i].op = credentialWrites[at[i]].op /\ t[i].by = credentialWrites[at[i]].by
              /\ t[i].value = credentialWrites[at[i]].value /\ (t[i].same => credentialWrites[at[i]].same)
              /\ i # 1 => ~t[i].same /\ t[i].by # None

LEMMA OutdatedFacts == ASSUME CredentialTypes PROVE Awaiting(Outdated)
<1> DEFINE P == {i \in DOMAIN credentialWrites : i = 1 \/ credentialWrites[i].by # None}
           s == Sublist(credentialWrites, P)
           t == Outdated
           N == Cardinality(P)
<1>1. credentialWrites \in Seq(CredentialOps) /\ DOMAIN credentialWrites = 1 .. Len(credentialWrites)
        /\ Len(credentialWrites) \in Nat /\ P \in SUBSET (1 .. Len(credentialWrites))
  BY LenProperties DEF CredentialTypes
<1>2. s \in Seq(CredentialOps) /\ Len(s) = N /\ \E at : Takes(credentialWrites, P, at)
  <2> HIDE DEF P
  <2>1. QED
    BY <1>1, SublistKeepsOrder
<1>3. DOMAIN s = 1 .. N /\ N \in Nat /\ \A i \in 1 .. N : s[i] \in CredentialOps
  BY <1>2, LenProperties, ElementOfSeq
<1>4. t = [i \in 1 .. N |-> IF i = 1 THEN s[i] ELSE Expired(s[i])]
  BY <1>3 DEF Outdated
<1>5. PICK at : /\ at \in [1 .. N -> P]
                /\ \A i \in 1 .. N : s[i] = credentialWrites[at[i]]
                /\ \A i, j \in 1 .. N : i < j => at[i] < at[j]
  BY <1>2 DEF Takes
<1> HIDE DEF s, t, N
<1>6. ASSUME NEW i \in 1 .. N
      PROVE  /\ t[i] \in CredentialOps
             /\ t[i].op = credentialWrites[at[i]].op /\ t[i].by = credentialWrites[at[i]].by
             /\ t[i].value = credentialWrites[at[i]].value /\ (t[i].same => credentialWrites[at[i]].same)
             /\ i # 1 => ~t[i].same
  <2>1. s[i] \in CredentialOps /\ s[i] = credentialWrites[at[i]]
    BY <1>3, <1>5
  <2>2. t[i] = IF i = 1 THEN s[i] ELSE Expired(s[i])
    BY <1>4
  <2>3. /\ Expired(s[i]) \in CredentialOps /\ ~Expired(s[i]).same
        /\ Expired(s[i]).op = s[i].op /\ Expired(s[i]).by = s[i].by /\ Expired(s[i]).value = s[i].value
    BY <2>1, ExpiredCredentialOp
  <2>4. CASE i = 1
    BY <2>1, <2>2, <2>4
  <2>5. CASE i # 1
    BY <2>1, <2>2, <2>3, <2>5
  <2>6. QED
    BY <2>4, <2>5
<1>7. ASSUME NEW i \in 1 .. N, i # 1 PROVE t[i].by # None
  <2>1. 1 \in 1 .. N /\ 1 < i
    BY <1>3, <1>7
  <2>2. at[1] \in P /\ at[i] \in P /\ at[1] < at[i]
    BY <1>5, <2>1
  <2>3. at[1] \in Nat /\ at[i] \in Nat /\ at[1] >= 1
    BY <1>1, <2>2
  <2>4. credentialWrites[at[i]].by # None
    BY <2>2, <2>3
  <2>5. QED
    BY <1>6, <2>4
<1>8. t \in [1 .. N -> CredentialOps] /\ DOMAIN t = 1 .. N
  BY <1>4, <1>6
<1>9. t \in Seq(CredentialOps)
  BY <1>3, <1>8, SeqDef
<1>10. at \in [1 .. N -> DOMAIN credentialWrites]
  BY <1>5
<1>11. Awaiting(t)
  <2>1. at \in [DOMAIN t -> DOMAIN credentialWrites] /\ \A i, j \in DOMAIN t : i < j => at[i] < at[j]
    BY <1>5, <1>8, <1>10
  <2>2. \A i \in DOMAIN t :
          /\ t[i].op = credentialWrites[at[i]].op /\ t[i].by = credentialWrites[at[i]].by
          /\ t[i].value = credentialWrites[at[i]].value /\ (t[i].same => credentialWrites[at[i]].same)
          /\ i # 1 => ~t[i].same /\ t[i].by # None
    BY <1>6, <1>7, <1>8
  <2>3. QED
    BY <1>9, <2>1, <2>2 DEF Awaiting
<1>12. QED
  BY <1>11 DEF t

\* A clear is awaited once.
LEMMA ClearAwaited ==
    ASSUME CacheTypes, CacheAwaited, NEW by \in {None, "change", "config"}, CacheClear(by),
           change.at = "clearing" => change'.at = "clearing",
           config.at = "clearing" => config'.at = "clearing",
           by = "change" => change.at # "clearing" /\ change'.at = "clearing",
           by = "config" => config.at # "clearing" /\ config'.at = "clearing"
    PROVE  CacheAwaited' /\ cacheWrites' \in Seq(CacheOps) /\ blocked' = TRUE /\ loaded' = None /\ pending' = None
<1>1. blocked' = TRUE /\ loaded' = None /\ pending' = None /\ \E at : EndsWithClear(cacheWrites', by, at)
  BY ClearFacts
<1>2. PICK at : EndsWithClear(cacheWrites', by, at)
  BY <1>1
<1> DEFINE t == cacheWrites'
           N == Len(cacheWrites')
<1>3. N \in Nat \ {0} /\ DOMAIN t = 1 .. N /\ t \in Seq(CacheOps)
  BY <1>2, LenProperties DEF EndsWithClear
<1>4. /\ t[N].op = "clear" /\ t[N].by = by /\ t[N].envelope = None
      /\ \A i \in 1 .. N - 1 :
           /\ at[i] \in DOMAIN cacheWrites /\ t[i].op = cacheWrites[at[i]].op /\ t[i].by = cacheWrites[at[i]].by
           /\ t[i].envelope = cacheWrites[at[i]].envelope
      /\ \A i, j \in 1 .. N - 1 : at[i] = at[j] => i = j
  <2>1. \A i \in 1 .. N - 1 : at[i] \in DOMAIN cacheWrites
    BY <1>2 DEF EndsWithClear
  <2>2. DOMAIN cacheWrites \in SUBSET Nat
    BY LenProperties DEF CacheTypes
  <2>3. \A i, j \in 1 .. N - 1 : i < j => at[i] < at[j]
    BY <1>2 DEF EndsWithClear
  <2>4. ASSUME NEW i \in 1 .. N - 1, NEW j \in 1 .. N - 1, at[i] = at[j], i # j PROVE FALSE
    <3>1. i < j \/ j < i
      BY <1>3, <2>4
    <3>2. at[i] < at[j] \/ at[j] < at[i]
      BY <2>3, <3>1
    <3>3. at[i] \in Nat /\ at[j] \in Nat
      BY <2>1, <2>2
    <3>4. QED
      BY <2>4, <3>2, <3>3
  <2>5. QED
    BY <1>2, <2>1, <2>4 DEF EndsWithClear
<1> HIDE DEF t, N
<1>5. \A i \in DOMAIN t : i = N \/ i \in 1 .. N - 1
  BY <1>3
<1>6. ASSUME NEW i \in DOMAIN t
      PROVE  /\ t[i].by = "change" => change'.at = "clearing"
             /\ t[i].by = "config" => config'.at = "clearing"
             /\ t[i].op = "clear" => t[i].envelope = None
  BY <1>4, <1>5 DEF CacheAwaited
<1>7. ASSUME NEW i \in DOMAIN t, NEW j \in DOMAIN t, t[i].by # None, t[i].by = t[j].by PROVE i = j
  <2>1. t[i].by \in {"change", "config"}
    <3>1. t[i] \in CacheOps
      BY <1>3, ElementOfSeq
    <3>2. QED
      BY <1>7, <3>1 DEF CacheOps
  <2>2. ASSUME NEW k \in 1 .. N - 1, t[k].by = by, by # None PROVE FALSE
    BY <1>4, <2>2 DEF CacheAwaited
  <2>3. CASE i = N \/ j = N
    BY <1>4, <1>5, <1>7, <2>2, <2>3
  <2>4. CASE i \in 1 .. N - 1 /\ j \in 1 .. N - 1
    BY <1>4, <1>7, <2>4 DEF CacheAwaited
  <2>5. QED
    BY <1>5, <2>3, <2>4
<1>8. CacheAwaited'
  BY <1>6, <1>7 DEF CacheAwaited, t
<1>9. QED
  BY <1>1, <1>3, <1>8 DEF t

\* The writes of the credential file after a move of the epoch.
Known(t, last) == \A i \in DOMAIN t : t[i].value # None => t[i].value.identity \in 1 .. last

LEMMA OutdatedAwaited ==
    ASSUME CredentialTypes, CredentialAwaited, credentialWrites' = Outdated, Known(credentialWrites, lastIdentity),
           lastIdentity \in Nat, lastIdentity' \in Nat, lastIdentity <= lastIdentity',
           change.at \in {"storing", "removing"} => change'.at = change.at
    PROVE  /\ credentialWrites' \in Seq(CredentialOps) /\ CredentialAwaited'
             /\ Known(credentialWrites', lastIdentity')
           /\ \A i \in DOMAIN credentialWrites' : i # 1 => ~credentialWrites'[i].same
<1> DEFINE t == Outdated
<1>1. Awaiting(t) /\ credentialWrites' = t
  BY OutdatedFacts
<1> HIDE DEF t
<1>2. PICK at \in [DOMAIN t -> DOMAIN credentialWrites] :
         /\ \A i, j \in DOMAIN t : i < j => at[i] < at[j]
         /\ \A i \in DOMAIN t :
              /\ t[i].op = credentialWrites[at[i]].op /\ t[i].by = credentialWrites[at[i]].by
              /\ t[i].value = credentialWrites[at[i]].value /\ (i # 1 => ~t[i].same)
  BY <1>1 DEF Awaiting
<1>3. t \in Seq(CredentialOps)
  BY <1>1 DEF Awaiting
<1>4. \A i \in DOMAIN t : at[i] \in DOMAIN credentialWrites
  BY <1>2
<1>5. ASSUME NEW i \in DOMAIN t, NEW j \in DOMAIN t, t[i].by # None, t[j].by # None PROVE at[i] = at[j]
  BY <1>2, <1>4, <1>5 DEF CredentialAwaited
<1>6. ASSUME NEW i \in DOMAIN t, NEW j \in DOMAIN t, t[i].by # None, t[j].by # None, i # j PROVE FALSE
  <2>1. i \in Nat /\ j \in Nat
    BY <1>3, LenProperties
  <2>2. i < j \/ j < i
    BY <1>6, <2>1
  <2>3. at[i] < at[j] \/ at[j] < at[i]
    BY <1>2, <2>2
  <2>4. at[i] \in Nat /\ at[i] = at[j]
    BY <1>4, <1>5, <1>6, LenProperties DEF CredentialTypes
  <2>5. QED
    BY <2>3, <2>4
<1>7. \A i \in DOMAIN t : t[i].value # None => t[i].value.identity \in 1 .. lastIdentity'
  BY <1>2, <1>4 DEF Known
<1>8. ASSUME NEW i \in DOMAIN t
      PROVE  /\ t[i].op = "save" => t[i].value # None
             /\ t[i].op = "remove" => t[i].by = "change" /\ t[i].value = None
             /\ t[i].by # None => change'.at = IF t[i].op = "save" THEN "storing" ELSE "removing"
  <2>1. t[i].by # None => change.at = IF t[i].op = "save" THEN "storing" ELSE "removing"
    BY <1>2, <1>4 DEF CredentialAwaited
  <2>2. QED
    BY <1>2, <1>4, <2>1 DEF CredentialAwaited
<1>9. CredentialAwaited'
  BY <1>1, <1>6, <1>8 DEF CredentialAwaited
<1>10. QED
  BY <1>1, <1>2, <1>3, <1>6, <1>7, <1>9 DEF Known

\* A write is appended; one that is awaited is the only one of its kind.
LEMMA AppendAwaited ==
    ASSUME CredentialTypes, CredentialAwaited, NEW w \in CredentialOps,
           credentialWrites' = Append(credentialWrites, w), Known(credentialWrites, lastIdentity),
           lastIdentity' = lastIdentity, w.value # None => w.value.identity \in 1 .. lastIdentity,
           w.op = "save" => w.value # None, w.op = "remove" => w.by = "change" /\ w.value = None,
           w.by = None => change' = change,
           w.by # None => /\ change.at \notin {"storing", "removing"}
                          /\ change'.at = IF w.op = "save" THEN "storing" ELSE "removing"
    PROVE  credentialWrites' \in Seq(CredentialOps) /\ CredentialAwaited' /\ Known(credentialWrites', lastIdentity')
<1> DEFINE t == credentialWrites'
           N == Len(credentialWrites)
<1>1. /\ t \in Seq(CredentialOps) /\ N \in Nat /\ DOMAIN t = 1 .. N + 1 /\ DOMAIN credentialWrites = 1 .. N
      /\ t[N + 1] = w /\ \A i \in 1 .. N : t[i] = credentialWrites[i]
  BY AppendProperties, LenProperties DEF CredentialTypes
<1> HIDE DEF t, N
<1>2. \A i \in DOMAIN t : (i = N + 1 /\ t[i] = w) \/ (i \in 1 .. N /\ t[i] = credentialWrites[i])
  BY <1>1
<1>3. w.by # None => \A i \in 1 .. N : credentialWrites[i].by = None
  BY <1>1 DEF CredentialAwaited
<1>4. Known(t, lastIdentity')
  BY <1>1, <1>2 DEF Known
<1>5. ASSUME NEW i \in DOMAIN t
      PROVE  /\ t[i].op = "save" => t[i].value # None
             /\ t[i].op = "remove" => t[i].by = "change" /\ t[i].value = None
             /\ t[i].by # None => change'.at = IF t[i].op = "save" THEN "storing" ELSE "removing"
  BY <1>1, <1>2, <1>3 DEF CredentialAwaited
<1>6. ASSUME NEW i \in DOMAIN t, NEW j \in DOMAIN t, t[i].by # None, t[j].by # None PROVE i = j
  BY <1>1, <1>2, <1>3, <1>6 DEF CredentialAwaited
<1>7. CredentialAwaited'
  BY <1>5, <1>6 DEF CredentialAwaited, t
<1>8. QED
  BY <1>1, <1>4, <1>7 DEF t

LEMMA RemovalFacts ==
    /\ removeKey \in CredentialOps /\ removeKey.op = "remove" /\ removeKey.same = TRUE
    /\ removeKey.by = "change" /\ removeKey.value = None
BY DEF removeKey, CredentialOps

\* A removal is queued behind what a move of the epoch leaves.
LEMMA RemovalAwaited ==
    ASSUME CredentialTypes, CredentialAwaited, credentialWrites' = Append(Outdated, removeKey),
           Known(credentialWrites, lastIdentity), lastIdentity' = lastIdentity, lastIdentity \in Nat,
           change.at \notin {"storing", "removing"}, change'.at = "removing"
    PROVE  credentialWrites' \in Seq(CredentialOps) /\ CredentialAwaited' /\ Known(credentialWrites', lastIdentity')
<1> DEFINE t == Outdated
           N == Len(Outdated)
           new == credentialWrites'
<1>1. PICK at \in [DOMAIN t -> DOMAIN credentialWrites] :
         \A i \in DOMAIN t :
              /\ t[i].op = credentialWrites[at[i]].op /\ t[i].by = credentialWrites[at[i]].by
              /\ t[i].value = credentialWrites[at[i]].value
  BY OutdatedFacts DEF Awaiting
<1>2. t \in Seq(CredentialOps)
  BY OutdatedFacts DEF Awaiting
<1>3. /\ new \in Seq(CredentialOps) /\ N \in Nat /\ DOMAIN new = 1 .. N + 1 /\ DOMAIN t = 1 .. N
      /\ new[N + 1] = removeKey /\ \A i \in 1 .. N : new[i] = t[i]
  BY <1>2, RemovalFacts, AppendProperties, LenProperties
<1> HIDE DEF t, N, new
<1>4. \A i \in DOMAIN new : (i = N + 1 /\ new[i] = removeKey) \/ (i \in DOMAIN t /\ new[i] = t[i])
  BY <1>3
<1>5. \A i \in DOMAIN t : at[i] \in DOMAIN credentialWrites
  BY <1>1
<1>6. ASSUME NEW i \in DOMAIN t
      PROVE  /\ t[i].by = None /\ (t[i].op = "save" => t[i].value # None) /\ t[i].op # "remove"
             /\ t[i].value # None => t[i].value.identity \in 1 .. lastIdentity
  BY <1>1, <1>5, DesktopAssumption DEF CredentialAwaited, Known
<1>7. CredentialAwaited'
  BY <1>4, <1>6, RemovalFacts DEF CredentialAwaited, new
<1>8. Known(new, lastIdentity')
  BY <1>4, <1>6, RemovalFacts DEF Known
<1>9. QED
  BY <1>3, <1>7, <1>8 DEF new

\* The rest of a queue whose first entry is done.
LEMMA TailFacts ==
    ASSUME NEW S, NEW q \in Seq(S), q # <<>>
    PROVE  /\ Tail(q) \in Seq(S) /\ Head(q) = q[1] /\ q[1] \in S /\ 1 \in DOMAIN q
           /\ Len(q) \in Nat \ {0} /\ DOMAIN q = 1 .. Len(q)
           /\ DOMAIN Tail(q) = 1 .. Len(q) - 1
           /\ \A i \in DOMAIN Tail(q) : i + 1 \in DOMAIN q /\ Tail(q)[i] = q[i + 1] /\ i + 1 # 1
<1>1. Len(q) \in Nat /\ DOMAIN q = 1 .. Len(q) /\ Len(q) # 0
  BY LenProperties, EmptySeq
<1>2. Tail(q) \in Seq(S) /\ Len(Tail(q)) = Len(q) - 1 /\ \A i \in 1 .. Len(Tail(q)) : Tail(q)[i] = q[i + 1]
  BY HeadTailProperties
<1>3. Head(q) = q[1] /\ 1 \in DOMAIN q /\ q[1] \in S
  BY <1>1, HeadTailProperties, ElementOfSeq
<1>4. DOMAIN Tail(q) = 1 .. Len(q) - 1
  BY <1>1, <1>2, LenProperties
<1>5. QED
  BY <1>1, <1>2, <1>3, <1>4

\* A flush is appended at most.
FlushOp == [op |-> "flush", same |-> TRUE, by |-> None, envelope |-> None]

LEMMA FlushQueued ==
    ASSUME CacheTypes, CacheAwaited, change' = change, config' = config,
           cacheWrites' \in {cacheWrites, QueueFlush(cacheWrites)}
    PROVE  /\ cacheWrites' \in Seq(CacheOps) /\ CacheAwaited'
           /\ cacheWrites' = cacheWrites \/ cacheWrites' = Append(cacheWrites, FlushOp)
<1>1. cacheWrites' = cacheWrites \/ cacheWrites' = Append(cacheWrites, FlushOp)
  BY DEF QueueFlush, FlushOp
<1>2. CASE cacheWrites' = cacheWrites
  BY <1>2 DEF CacheTypes, CacheAwaited
<1>3. CASE cacheWrites' = Append(cacheWrites, FlushOp)
  <2>1. FlushOp \in CacheOps /\ FlushOp.by = None /\ FlushOp.op = "flush"
    BY DEF FlushOp, CacheOps
  <2>2. /\ cacheWrites' \in Seq(CacheOps) /\ DOMAIN cacheWrites' = 1 .. Len(cacheWrites) + 1
             /\ Len(cacheWrites) \in Nat
        /\ DOMAIN cacheWrites = 1 .. Len(cacheWrites) /\ cacheWrites'[Len(cacheWrites) + 1] = FlushOp
        /\ \A i \in 1 .. Len(cacheWrites) : cacheWrites'[i] = cacheWrites[i]
    BY <1>3, <2>1, AppendProperties, LenProperties DEF CacheTypes
  <2>3. \A i \in DOMAIN cacheWrites' :
          \/ cacheWrites'[i] = FlushOp
          \/ i \in DOMAIN cacheWrites /\ cacheWrites'[i] = cacheWrites[i]
    BY <2>2
  <2>4. CacheAwaited'
    BY <2>1, <2>3, DesktopAssumption DEF CacheAwaited
  <2>5. QED
    BY <1>3, <2>2, <2>4
<1>4. QED
  BY <1>1, <1>2, <1>3

\* What the store keeps is what was shown, under the present scope.
LEMMA WriteFacts ==
    ASSUME SessionTypes, CacheTypes, CacheAwaited, change' = change, config' = config, NEW s \in Snapshots, CacheWrite(s)
    PROVE  /\ loaded' \in Envelopes \cup {None} /\ pending' \in Envelopes \cup {None} /\ blocked' \in BOOLEAN
           /\ cacheWrites' \in Seq(CacheOps) /\ CacheAwaited'
           /\ cacheScope = None => UNCHANGED <<loaded, pending, blocked, cacheWrites>>
           /\ cacheScope # None =>
                /\ loaded' \in Envelopes /\ pending' = loaded' /\ blocked' = FALSE
                /\ loaded'.scope = cacheScope /\ loaded'.snapshot \in Snapshots
                /\ \A part \in Parts(loaded'.snapshot) : \E shown \in Parts(s) : part.account = shown.account
                /\ cacheWrites' = cacheWrites \/ cacheWrites' = Append(cacheWrites, FlushOp)
<1>1. CASE cacheScope = None
  BY <1>1 DEF CacheWrite, CacheTypes, CacheAwaited
<1>2. CASE cacheScope # None
  <2> DEFINE kept == [devices |-> Kept(s.devices), charts |-> Kept(s.charts), live |-> FALSE]
  <2>1. ASSUME NEW p \in ReadParts \cup {None}
        PROVE  /\ Kept(p) \in ReadParts \cup {None} /\ (Kept(p) = None <=> p = None)
               /\ p # None => Kept(p).account = p.account
    BY DesktopAssumption DEF Kept, ReadParts
  <2>2. s.devices \in ReadParts \cup {None} /\ s.charts \in ReadParts \cup {None}
    BY DEF Snapshots
  <2>3. kept \in Snapshots /\ \A part \in Parts(kept) : \E shown \in Parts(s) : part.account = shown.account
    <3>1. kept \in Snapshots
      BY <2>1, <2>2 DEF Snapshots
    <3>2. ASSUME NEW part \in Parts(kept) PROVE \E shown \in Parts(s) : part.account = shown.account
      <4>1. (part = Kept(s.devices) \/ part = Kept(s.charts)) /\ part # None
        BY DEF Parts
      <4>2. CASE part = Kept(s.devices)
        BY <2>1, <2>2, <4>1, <4>2 DEF Parts
      <4>3. CASE part = Kept(s.charts)
        BY <2>1, <2>2, <4>1, <4>3 DEF Parts
      <4>4. QED
        BY <4>1, <4>2, <4>3
    <3>3. QED
      BY <3>1, <3>2
  <2>4. /\ loaded' = [scope |-> cacheScope, snapshot |-> kept] /\ pending' = loaded' /\ blocked' = FALSE
        /\ cacheWrites' \in {cacheWrites, QueueFlush(cacheWrites)}
    BY <1>2 DEF CacheWrite
  <2> HIDE DEF kept
  <2>5. cacheScope \in Scopes
    <3>1. serverUrl \in Urls \cup {None}
      BY DEF SessionTypes
    <3>2. QED
      BY <1>2, <3>1, ScopeTypes DEF cacheScope
  <2>6. loaded' \in Envelopes /\ loaded'.scope = cacheScope /\ loaded'.snapshot = kept
    BY <2>3, <2>4, <2>5 DEF Envelopes
  <2>7. QED
    BY <1>2, <2>3, <2>4, <2>6, FlushQueued
<1>3. QED
  BY <1>1, <1>2

LEMMA RereadTypes == ASSUME NEW s PROVE Reread(s) \in Mutations /\ Reread(s).at = "done"
<1> DEFINE f == mutation.cut \/ ~s.live \/ s.devices.version >= mutation.wanted
<1>1. f \in BOOLEAN
  OBVIOUS
<1>2. Reread(s) = [at |-> "done", fresh |-> f]
  BY DEF Reread
<1> HIDE DEF f
<1>3. QED
  BY <1>1, <1>2 DEF Mutations

\* What a read of the cache may end with was held for its scope.
LEMMA CachedFacts ==
    ASSUME CacheTypes, NEW who, NEW scope \in Scopes \cup {None}, NEW cached \in Cached(who, scope)
    PROVE  /\ cached \in Snapshots \cup {None}
           /\ cached # None => /\ scope \in Scopes /\ who \in sameCache /\ ~blocked
                               /\ \E held \in {loaded, cacheFile} : held # None /\ held.scope = scope
                                    /\ held.snapshot = cached
BY DesktopAssumption DEF Cached, CacheTypes, Envelopes

\* What is shown of a snapshot is a part of it.
LEMMA ShownFacts ==
    ASSUME NEW s \in Snapshots, NEW v \in Views
    PROVE  asCachedSnapshot(s, v) \in Snapshots /\ Parts(asCachedSnapshot(s, v)) \subseteq Parts(s)
             /\ ~asCachedSnapshot(s, v).live
<1>1. ForView(s.charts, v) \in {s.charts, None}
  BY DEF ForView
<1>2. asCachedSnapshot(s, v) = [devices |-> s.devices, charts |-> ForView(s.charts, v), live |-> FALSE]
  BY DEF asCachedSnapshot
<1>3. QED
  BY <1>1, <1>2 DEF Snapshots, Parts

LEMMA EmptyFacts == emptySnapshot \in Snapshots /\ Parts(emptySnapshot) = {} /\ ~emptySnapshot.live
BY DEF emptySnapshot, Snapshots, Parts

LEMMA FinishTypes ==
    ASSUME SessionTypes, ReadTypes, CountTypes, NEW q \in Views \cup {None, Same},
           NEW readers \in SUBSET {"refresh", "opener"}, Finish(q, readers)
    PROVE  /\ ReadTypes' /\ refresh'.at \in {"cache", "idle"}
           /\ mutation' \in Mutations /\ (mutation' = mutation \/ mutation'.at = "done")
<1>1. CASE q # None
  BY <1>1, FinishFacts DEF CountTypes
<1>2. CASE q = None
  <2>1. ReadTypes' /\ ReadEnds(readers) /\ refresh'.at = "idle"
    BY <1>2, FinishFacts
  <2>2. mutation' = mutation \/ mutation' = Reread(currentSnapshot')
    BY <2>1 DEF ReadEnds
  <2>3. QED
    BY <2>1, <2>2, RereadTypes DEF CountTypes
<1>3. QED
  BY <1>1, <1>2

LEMMA MutationTypes ==
    /\ Idle \in Mutations /\ Idle.at = "idle"
    /\ \A n \in Nat : Rereading(n) \in Mutations /\ Rereading(n).at = "rereading" /\ Rereading(n).wanted = n
         /\ ~Rereading(n).cut
BY DEF Mutations, Idle, Rereading

LEMMA AddressMoves ==
    ASSUME SessionTypes, CredentialTypes, CredentialAwaited, Known(credentialWrites, lastIdentity),
           NEW u \in Urls \cup {None}, setServerUrl(u), lastIdentity' = lastIdentity,
           change.at \in {"storing", "removing"} => change'.at = change.at
    PROVE  /\ serverUrl' = u /\ sameSession' \in SUBSET {"refresh", "mutation", "change"}
             /\ sessionCookie' \in BOOLEAN
           /\ u = serverUrl => UNCHANGED <<serverUrl, sameSession, sessionCookie, credentialWrites>>
           /\ u # serverUrl => sameSession' = {} /\ sessionCookie' = FALSE /\ credentialWrites' = Outdated
           /\ credentialWrites' \in Seq(CredentialOps) /\ CredentialAwaited'
                /\ Known(credentialWrites', lastIdentity')
<1>1. CASE u = serverUrl
  <2>1. UNCHANGED <<serverUrl, sameSession, sessionCookie, credentialWrites>>
    BY <1>1 DEF setServerUrl
  <2>2. QED
    BY <1>1, <2>1 DEF SessionTypes, CredentialTypes, CredentialAwaited, Known
<1>2. CASE u # serverUrl
  <2>1. serverUrl' = u /\ sameSession' = {} /\ sessionCookie' = FALSE /\ credentialWrites' = Outdated
    BY <1>2 DEF setServerUrl, NewEpoch
  <2>2. lastIdentity \in Nat
    BY DEF SessionTypes
  <2>3. credentialWrites' \in Seq(CredentialOps) /\ CredentialAwaited' /\ Known(credentialWrites', lastIdentity')
    BY <2>1, <2>2, OutdatedAwaited
  <2>4. QED
    BY <1>2, <2>1, <2>3
<1>3. QED
  BY <1>1, <1>2

\* What keeps each part of the invariant.
LEMMA Untouched ==
    ASSUME BaseInv
    PROVE  /\ UNCHANGED <<accessKey, serverUrl, agentUrl, lastIdentity, identity, sessionCookie, sameSession>>
             => SessionTypes'
           /\ UNCHANGED <<credentialWrites, keptVars>> => CredentialTypes'
           /\ UNCHANGED <<loaded, pending, cacheFile, cacheWrites, blocked, clearReached>> => CacheTypes'
           /\ UNCHANGED <<view, queued, current, refresh, sameCache>> => ReadTypes'
           /\ UNCHANGED <<opener, change, config>> => UserTypes'
           /\ UNCHANGED <<currentSnapshot, mutation, hubVersion, restarts>> => CountTypes'
           /\ UNCHANGED <<cacheWrites, change, config>> => CacheAwaited'
           /\ UNCHANGED <<credentialWrites, change>> => CredentialAwaited'
           /\ UNCHANGED <<change, accessKey, lastIdentity>> => ChangePlaced'
           /\ UNCHANGED <<accessKey, change, identity, lastIdentity, credentialWrites, credentialFile>> => Identified'
           /\ UNCHANGED <<mutation, hubVersion, refresh, sameSession, accessKey, serverUrl>> => ReadPlaced'
<1>1. UNCHANGED <<accessKey, serverUrl, agentUrl, lastIdentity, identity, sessionCookie, sameSession>>
        => SessionTypes'
  BY DEF BaseInv, SessionTypes
<1>2. UNCHANGED <<credentialWrites, keptVars>> => CredentialTypes'
  BY DEF BaseInv, CredentialTypes
<1>3. UNCHANGED <<loaded, pending, cacheFile, cacheWrites, blocked, clearReached>> => CacheTypes'
  BY DEF BaseInv, CacheTypes
<1>4. UNCHANGED <<view, queued, current, refresh, sameCache>> => ReadTypes'
  BY DEF BaseInv, ReadTypes
<1>5. UNCHANGED <<opener, change, config>> => UserTypes'
  BY DEF BaseInv, UserTypes
<1>6. UNCHANGED <<currentSnapshot, mutation, hubVersion, restarts>> => CountTypes'
  BY DEF BaseInv, CountTypes
<1>7. UNCHANGED <<cacheWrites, change, config>> => CacheAwaited'
  BY DEF BaseInv, CacheAwaited
<1>8. UNCHANGED <<credentialWrites, change>> => CredentialAwaited'
  BY DEF BaseInv, CredentialAwaited
<1>9. UNCHANGED <<change, accessKey, lastIdentity>> => ChangePlaced'
  BY DEF BaseInv, ChangePlaced
<1>10. UNCHANGED <<accessKey, change, identity, lastIdentity, credentialWrites, credentialFile>> => Identified'
  BY DEF BaseInv, Identified
<1>11. UNCHANGED <<mutation, hubVersion, refresh, sameSession, accessKey, serverUrl>> => ReadPlaced'
  BY DEF BaseInv, ReadPlaced, Account
<1>12. QED
  BY <1>1, <1>2, <1>3, <1>4, <1>5, <1>6, <1>7, <1>8, <1>9, <1>10, <1>11

LEMMA HideTypes == ASSUME BaseInv, Hide PROVE BaseInv'
<1>1. UNCHANGED <<accessKey, serverUrl, sessionCookie, identity, lastIdentity, sameSession, credentialWrites,
                  keptVars, agentUrl, loaded, pending, blocked, cacheWrites, cacheFile, clearReached,
                  opener, change, config>>
  BY DEF Hide, sessionVars, credentialVars, cacheVars, memoryVars, userVars
<1>2. ReadTypes'
  BY <1>1, DesktopAssumption DEF BaseInv, ReadTypes, SessionTypes, Refreshes, Hide, sessionVars, credentialVars,
      cacheVars, memoryVars, userVars, Idle
<1>3. CountTypes'
  BY <1>1, DesktopAssumption DEF BaseInv, CountTypes, ReadPlaced, Snapshots, Mutations, Hide, sessionVars,
      credentialVars, cacheVars, memoryVars, userVars, Idle
<1>4. ReadPlaced'
  BY <1>1 DEF BaseInv, ReadPlaced, Account, Hide
<1>5. QED
  BY <1>1, <1>2, <1>3, <1>4, Untouched DEF BaseInv

LEMMA MutationFailsTypes == ASSUME BaseInv, MutationFails PROVE BaseInv'
<1>1. UNCHANGED <<accessKey, identity, lastIdentity, credentialWrites, keptVars, loaded, pending,
                  blocked, sameCache, cacheWrites, cacheFile, clearReached, view, queued, current, refresh,
                  opener, change, config>>
  BY DEF MutationFails, credentialVars, cacheVars, memoryVars, readVars, userVars
<1>2. SessionTypes'
  BY DEF BaseInv, SessionTypes, MutationFails
<1>3. CountTypes'
  BY DEF BaseInv, CountTypes, Mutations, MutationFails
<1>4. ReadPlaced'
  BY <1>1 DEF BaseInv, ReadPlaced, Account, MutationFails
<1>5. QED
  BY <1>1, <1>2, <1>3, <1>4, Untouched DEF BaseInv

LEMMA MutateTypes == ASSUME BaseInv, Mutate PROVE BaseInv'
<1>1. UNCHANGED <<accessKey, identity, lastIdentity, credentialWrites, keptVars, loaded, pending,
                  blocked, sameCache, cacheWrites, cacheFile, clearReached, view, queued, current, refresh,
                  opener, change, config>>
  BY DEF Mutate, credentialVars, cacheVars, memoryVars, readVars, userVars
<1>2. SessionTypes'
  BY DEF BaseInv, SessionTypes, Mutate
<1>3. CountTypes'
  BY DEF BaseInv, CountTypes, Mutations, Mutate
<1>4. ReadPlaced'
  BY <1>1 DEF BaseInv, ReadPlaced, Account, Mutate
<1>5. QED
  BY <1>1, <1>2, <1>3, <1>4, Untouched DEF BaseInv

LEMMA ConfigReadTypes == ASSUME BaseInv, ConfigRead PROVE BaseInv'
<1>1. UNCHANGED <<accessKey, serverUrl, sessionCookie, identity, lastIdentity, sameSession, credentialWrites,
                  keptVars, agentUrl, loaded, pending, blocked, sameCache, cacheWrites, cacheFile,
                  clearReached, view, queued, current, refresh, currentSnapshot, change, mutation,
                  hubVersion, restarts>>
  BY DEF ConfigRead, sessionVars, credentialVars, cacheVars, memoryVars, readVars
<1>2. UserTypes'
  BY DEF BaseInv, UserTypes, SessionTypes, ConfigEdits, ConfigRead
<1>3. CacheAwaited'
  BY <1>1 DEF BaseInv, CacheAwaited, ConfigRead
<1>4. QED
  BY <1>1, <1>2, <1>3, Untouched DEF BaseInv

LEMMA AgentFailsTypes == ASSUME BaseInv, AgentFails PROVE BaseInv'
<1>1. UNCHANGED <<accessKey, serverUrl, sessionCookie, identity, lastIdentity, sameSession, credentialWrites,
                  keptVars, agentUrl, loaded, pending, blocked, sameCache, cacheWrites, cacheFile,
                  clearReached, view, queued, current, refresh, currentSnapshot, mutation, hubVersion,
                  restarts>>
  BY DEF AgentFails, sessionVars, credentialVars, changeRest, cacheVars, memoryVars, readVars
<1>2. UserTypes'
  BY DEF BaseInv, UserTypes, ChangePlaces, ConnectionChanges, AgentFails, changeRest, Idle
<1>3. CacheAwaited'
  BY <1>1 DEF BaseInv, CacheAwaited, AgentFails, changeRest
<1>4. CredentialAwaited'
  BY <1>1 DEF BaseInv, CredentialAwaited, AgentFails
<1>5. ChangePlaced'
  BY DEF ChangePlaced, AgentFails
<1>6. Identified'
  BY <1>1 DEF BaseInv, Identified, AgentFails
<1>7. QED
  BY <1>1, <1>2, <1>3, <1>4, <1>5, <1>6, Untouched DEF BaseInv

LEMMA SecretStoredTypes == ASSUME BaseInv, SecretStored PROVE BaseInv'
<1>1. UNCHANGED <<accessKey, serverUrl, sessionCookie, identity, lastIdentity, sameSession, credentialWrites,
                  keptVars, agentUrl, loaded, pending, blocked, sameCache, cacheWrites, cacheFile,
                  clearReached, view, queued, current, refresh, currentSnapshot, mutation, hubVersion,
                  restarts>>
  BY DEF SecretStored, sessionVars, credentialVars, changeRest, cacheVars, memoryVars, readVars
<1>2. UserTypes'
  BY DEF BaseInv, UserTypes, ChangePlaces, ConnectionChanges, SecretStored, changeRest, Idle
<1>3. CacheAwaited'
  BY <1>1 DEF BaseInv, CacheAwaited, SecretStored, changeRest
<1>4. CredentialAwaited'
  BY <1>1 DEF BaseInv, CredentialAwaited, SecretStored
<1>5. ChangePlaced'
  BY DEF ChangePlaced, SecretStored
<1>6. Identified'
  BY <1>1 DEF BaseInv, Identified, SecretStored
<1>7. QED
  BY <1>1, <1>2, <1>3, <1>4, <1>5, <1>6, Untouched DEF BaseInv

LEMMA SignOutTypes == ASSUME BaseInv, SignOut PROVE BaseInv'
<1>1. UNCHANGED <<loaded, pending, blocked, sameCache, cacheWrites, cacheFile, clearReached, view, queued,
                  current, refresh, currentSnapshot, mutation, hubVersion, restarts>>
  BY DEF SignOut, changeRest, cacheVars, memoryVars, readVars
<1>2. credentialWrites' \in Seq(CredentialOps) /\ CredentialAwaited' /\ Known(credentialWrites', lastIdentity')
  <2>1. /\ CredentialTypes /\ CredentialAwaited /\ lastIdentity \in Nat /\ Known(credentialWrites, lastIdentity)
        /\ lastIdentity' = lastIdentity /\ change.at \notin {"storing", "removing"}
    BY DEF BaseInv, SessionTypes, Identified, Known, SignOut
  <2>2. CASE sessionCookie'
    BY <2>1, <2>2, OutdatedAwaited DEF SignOut
  <2>3. CASE ~sessionCookie'
    <3>1. credentialWrites' = Append(Outdated, removeKey) /\ change'.at = "removing"
      BY <2>3 DEF SignOut, BaseInv, UserTypes, ConnectionChanges, Idle
    <3>2. QED
      BY <2>1, <3>1, RemovalAwaited DEF BaseInv
  <2>4. QED
    BY <2>2, <2>3
<1>3. change' \in ConnectionChanges
  <2>1. change \in [at : ChangePlaces, op : Changes \cup {"undo"}, key : Keys \cup {None}, url : Urls]
    BY DEF BaseInv, UserTypes, ConnectionChanges, SignOut, Idle
  <2>2. (IF change.at = "undo" THEN "undo" ELSE change.op) \in Changes \cup {"undo"}
    BY <2>1
  <2>3. change' = [change EXCEPT !.at = IF sessionCookie' THEN "leaving" ELSE "removing",
                                 !.op = IF change.at = "undo" THEN "undo" ELSE change.op]
    BY DEF SignOut
  <2>4. QED
    BY <2>1, <2>2, <2>3 DEF ConnectionChanges, ChangePlaces
<1>4. SessionTypes'
  BY DEF BaseInv, SessionTypes, SignOut
<1>5. CredentialTypes'
  BY <1>2 DEF BaseInv, CredentialTypes, SignOut
<1>6. UserTypes'
  BY <1>3 DEF BaseInv, UserTypes, SignOut, changeRest
<1>7. CacheAwaited'
  BY <1>1 DEF BaseInv, CacheAwaited, SignOut, changeRest
<1>8. CredentialAwaited'
  BY <1>2 DEF CredentialAwaited
<1>9. ChangePlaced'
  BY DEF ChangePlaced, SignOut
<1>10. Identified'
  BY <1>2 DEF BaseInv, Identified, Known, SignOut
<1>11. ReadPlaced'
  BY <1>1 DEF BaseInv, ReadPlaced, SignOut
<1>12. QED
  BY <1>1, <1>4, <1>5, <1>6, <1>7, <1>8, <1>9, <1>10, <1>11, Untouched DEF BaseInv

LEMMA SignedOutTypes == ASSUME BaseInv, SignedOut PROVE BaseInv'
<1>1. UNCHANGED <<accessKey, serverUrl, sameSession, loaded, pending, blocked, sameCache, cacheWrites,
                  cacheFile, clearReached, view, queued, current, refresh, currentSnapshot, mutation,
                  hubVersion, restarts>>
  BY DEF SignedOut, changeRest, cacheVars, memoryVars, readVars
<1>2. credentialWrites' \in Seq(CredentialOps) /\ CredentialAwaited' /\ Known(credentialWrites', lastIdentity')
  <2> DEFINE w == removeKey
  <2>1. w \in CredentialOps /\ w.op = "remove" /\ w.by = "change" /\ w.value = None
    BY RemovalFacts
  <2>2. change.at = "leaving" /\ lastIdentity' = lastIdentity /\ Known(credentialWrites, lastIdentity)
    BY DEF SignedOut, BaseInv, Identified, Known
  <2>3. CASE "change" \in sameSession
    <3>1. credentialWrites' = Append(credentialWrites, w) /\ change'.at = "removing"
      BY <2>2, <2>3 DEF SignedOut, BaseInv, UserTypes, ConnectionChanges, Idle
    <3> HIDE DEF w
    <3>2. QED
      BY <2>1, <2>2, <3>1, AppendAwaited, DesktopAssumption DEF BaseInv
  <2>4. CASE "change" \notin sameSession
    BY <2>2, <2>4 DEF SignedOut, BaseInv, CredentialTypes, CredentialAwaited, Known
  <2>5. QED
    BY <2>3, <2>4
<1>3. SessionTypes'
  BY <1>1, <1>2, DesktopAssumption DEF BaseInv, SessionTypes, ChangePlaced, UserTypes, ConnectionChanges,
      ChangePlaces, SignedOut, changeRest, cacheVars, memoryVars, readVars, Idle
<1>4. CredentialTypes'
  BY <1>2 DEF BaseInv, CredentialTypes, SignedOut
<1>5. UserTypes'
  BY DEF BaseInv, UserTypes, ChangePlaces, ConnectionChanges, SignedOut, changeRest, Idle
<1>6. CacheAwaited'
  BY <1>1 DEF BaseInv, CacheAwaited, SignedOut, changeRest
<1>7. CredentialAwaited'
  BY <1>2 DEF CredentialAwaited
<1>8. ChangePlaced'
  BY DEF BaseInv, ChangePlaced, UserTypes, ConnectionChanges, SignedOut, Idle
<1>9. Identified'
  BY <1>2 DEF BaseInv, Identified, UserTypes, ConnectionChanges, Known, SignedOut, Idle
<1>10. QED
  BY <1>1, <1>3, <1>4, <1>5, <1>6, <1>7, <1>8, <1>9, Untouched DEF BaseInv

LEMMA FlushEndsTypes == ASSUME BaseInv, FlushEnds PROVE BaseInv'
<1>1. UNCHANGED <<accessKey, serverUrl, sessionCookie, identity, lastIdentity, sameSession, credentialWrites,
                  keptVars, agentUrl, sameCache, view, queued, current, refresh, currentSnapshot,
                  opener, change, config, mutation, hubVersion, restarts>>
  BY DEF FlushEnds, sessionVars, credentialVars, readVars, userVars
<1>2. /\ Tail(cacheWrites) \in Seq(CacheOps) /\ Head(cacheWrites) \in CacheOps /\ cacheWrites' = Tail(cacheWrites)
      /\ \A i \in DOMAIN cacheWrites' : i + 1 \in DOMAIN cacheWrites /\ cacheWrites'[i] = cacheWrites[i + 1]
           /\ i \in Nat
  <2>1. cacheWrites \in Seq(CacheOps) /\ cacheWrites # <<>> /\ cacheWrites' = Tail(cacheWrites)
    BY DEF BaseInv, CacheTypes, FlushEnds
  <2>2. QED
    BY <2>1, TailFacts
<1>3. CacheTypes'
  BY <1>2 DEF BaseInv, CacheTypes, CacheOps, FlushEnds
<1>4. CacheAwaited'
  BY <1>1, <1>2 DEF BaseInv, CacheAwaited
<1>5. QED
  BY <1>1, <1>3, <1>4, Untouched DEF BaseInv

LEMMA FlushBeginsTypes == ASSUME BaseInv, FlushBegins PROVE BaseInv'
<1>1. UNCHANGED <<accessKey, serverUrl, sessionCookie, identity, lastIdentity, sameSession, credentialWrites,
                  keptVars, agentUrl, sameCache, view, queued, current, refresh, currentSnapshot,
                  opener, change, config, mutation, hubVersion, restarts>>
  BY DEF FlushBegins, sessionVars, credentialVars, readVars, userVars
<1>2. cacheWrites \in Seq(CacheOps) /\ cacheWrites # <<>> /\ pending \in Envelopes \cup {None}
  BY DEF BaseInv, CacheTypes, FlushBegins
<1>3. cacheWrites' \in Seq(CacheOps) /\ pending' \in {pending, None} /\ CacheAwaited'
  <2>1. CASE pending = None
    <3>1. cacheWrites' = Tail(cacheWrites) /\ pending' = pending /\ config' = config /\ change' = change
      BY <2>1 DEF FlushBegins, userVars
    <3>2. QED
      BY <1>2, <3>1, TailFacts DEF BaseInv, CacheAwaited
  <2>2. CASE pending # None
    <3> DEFINE next == [cacheWrites[1] EXCEPT !.envelope = pending]
    <3>1. cacheWrites[1] \in CacheOps /\ cacheWrites[1].op = "flush" /\ 1 \in DOMAIN cacheWrites
      BY <1>2, TailFacts DEF FlushBegins
    <3>2. next \in CacheOps /\ next.op = "flush" /\ next.by = cacheWrites[1].by
      BY <1>2, <3>1 DEF CacheOps
    <3>3. cacheWrites' = [cacheWrites EXCEPT ![1] = next] /\ pending' = None /\ config' = config /\ change' = change
      BY <2>2 DEF FlushBegins, userVars
    <3> HIDE DEF next
    <3>4. cacheWrites' \in Seq(CacheOps) /\ Len(cacheWrites') = Len(cacheWrites)
            /\ DOMAIN cacheWrites' = DOMAIN cacheWrites
      BY <1>2, <3>1, <3>2, <3>3, ExceptSeq
    <3>5. \A i \in DOMAIN cacheWrites : cacheWrites'[i] = IF i = 1 THEN next ELSE cacheWrites[i]
      BY <1>2, <3>1, <3>3
    <3>6. QED
      BY <3>1, <3>2, <3>3, <3>4, <3>5 DEF BaseInv, CacheAwaited
  <2>3. QED
    BY <2>1, <2>2
<1>4. CacheTypes'
  BY <1>3 DEF BaseInv, CacheTypes, FlushBegins
<1>5. CacheAwaited'
  BY <1>3 DEF CacheAwaited
<1>6. QED
  BY <1>1, <1>4, <1>5, Untouched DEF BaseInv

LEMMA ClearEndsTypes == ASSUME BaseInv, ClearEnds PROVE BaseInv'
<1>1. UNCHANGED <<accessKey, serverUrl, sessionCookie, identity, lastIdentity, sameSession, credentialWrites,
                  keptVars, agentUrl, sameCache, view, queued, current, refresh, currentSnapshot,
                  mutation, hubVersion, restarts>>
  BY DEF ClearEnds, sessionVars, credentialVars, memoryVars, readVars
<1>2. /\ Tail(cacheWrites) \in Seq(CacheOps) /\ Head(cacheWrites) \in CacheOps /\ cacheWrites' = Tail(cacheWrites)
      /\ \A i \in DOMAIN cacheWrites' : i + 1 \in DOMAIN cacheWrites /\ cacheWrites'[i] = cacheWrites[i + 1]
           /\ i \in Nat
  <2>1. cacheWrites \in Seq(CacheOps) /\ cacheWrites # <<>> /\ cacheWrites' = Tail(cacheWrites)
    BY DEF BaseInv, CacheTypes, ClearEnds
  <2>2. QED
    BY <2>1, TailFacts
<1>3. /\ 1 \in DOMAIN cacheWrites /\ Head(cacheWrites) = cacheWrites[1]
      /\ Head(cacheWrites).by = "change" => change.at = "clearing"
      /\ Head(cacheWrites).by = "config" => config.at = "clearing"
      /\ \A i \in DOMAIN cacheWrites' : cacheWrites'[i].by # None => cacheWrites'[i].by # Head(cacheWrites).by
  <2>1. cacheWrites \in Seq(CacheOps) /\ cacheWrites # <<>> /\ cacheWrites' = Tail(cacheWrites)
    BY DEF BaseInv, CacheTypes, ClearEnds
  <2>2. /\ 1 \in DOMAIN cacheWrites /\ Head(cacheWrites) = cacheWrites[1]
        /\ \A i \in DOMAIN cacheWrites' : i + 1 \in DOMAIN cacheWrites /\ cacheWrites'[i] = cacheWrites[i + 1]
             /\ i + 1 # 1
    BY <2>1, TailFacts
  <2>3. QED
    BY <2>2 DEF BaseInv, CacheAwaited
<1>4. /\ change' \in ConnectionChanges /\ (Head(cacheWrites).by # "change" => change' = change)
      /\ change' = change
           \/ (change.at = "clearing" /\ change'.at \in {"cleared", "undo"} /\ change'.op = change.op
           /\ change'.key = change.key)
      /\ config' \in ConfigEdits /\ (Head(cacheWrites).by # "config" => config' = config)
  <2>1. change' \in {change, [change EXCEPT !.at = "cleared"], [change EXCEPT !.at = "undo"]}
          /\ (Head(cacheWrites).by # "change" => change' = change)
    BY DEF ClearEnds
  <2>2. config' \in {config, [config EXCEPT !.at = "cleared"], Idle}
          /\ (Head(cacheWrites).by # "config" => config' = config)
    BY DEF ClearEnds
  <2>3. change' \in ConnectionChanges
          /\ (change' = change
          \/ (change.at = "clearing" /\ change'.at \in {"cleared", "undo"} /\ change'.op = change.op
          /\ change'.key = change.key))
    BY <1>3, <2>1 DEF BaseInv, UserTypes, ConnectionChanges, ChangePlaces, Idle
  <2>4. config' \in ConfigEdits
    BY <1>3, <2>2 DEF BaseInv, UserTypes, ConfigEdits, Idle
  <2>5. QED
    BY <2>1, <2>2, <2>3, <2>4
<1>5. CacheTypes'
  BY DEF BaseInv, CacheTypes, ClearEnds, memoryVars
<1>6. UserTypes'
  BY <1>4 DEF BaseInv, UserTypes, ClearEnds
<1>7. CacheAwaited'
  BY <1>1, <1>2, <1>3, <1>4, DesktopAssumption DEF BaseInv, CacheAwaited, UserTypes, CacheTypes, ConnectionChanges,
      ChangePlaces, ClearEnds, sessionVars, credentialVars, memoryVars, readVars
<1>8. CredentialAwaited'
  BY <1>1, <1>3 DEF BaseInv, CredentialAwaited, ClearEnds
<1>9. ChangePlaced'
  BY <1>1, <1>3 DEF BaseInv, ChangePlaced, ClearEnds
<1>10. Identified'
  BY <1>1 DEF BaseInv, Identified, ClearEnds
<1>11. QED
  BY <1>1, <1>5, <1>6, <1>7, <1>8, <1>9, <1>10, Untouched DEF BaseInv

LEMMA CredentialWriteTypes == ASSUME BaseInv, CredentialWrite PROVE BaseInv'
<1>1. UNCHANGED <<accessKey, serverUrl, sessionCookie, identity, lastIdentity, sameSession, agentUrl, loaded,
                  pending, blocked, sameCache, cacheWrites, cacheFile, clearReached, view, queued, current,
                  refresh, currentSnapshot, mutation, hubVersion, restarts>>
  BY DEF CredentialWrite, sessionVars, cacheVars, memoryVars, readVars
<1>2. /\ Tail(credentialWrites) \in Seq(CredentialOps) /\ credentialWrites' = Tail(credentialWrites)
      /\ \A i \in DOMAIN credentialWrites' :
           i + 1 \in DOMAIN credentialWrites /\ credentialWrites'[i] = credentialWrites[i + 1] /\ i \in Nat
             /\ i + 1 # 1
      /\ 1 \in DOMAIN credentialWrites /\ Head(credentialWrites) = credentialWrites[1]
           /\ credentialWrites[1] \in CredentialOps
  <2>1. credentialWrites \in Seq(CredentialOps) /\ credentialWrites # <<>>
          /\ credentialWrites' = Tail(credentialWrites)
    BY DEF BaseInv, CredentialTypes, CredentialWrite
  <2>2. QED
    BY <2>1, TailFacts
<1>3. Head(credentialWrites).by # None => \A i \in DOMAIN credentialWrites' : credentialWrites'[i].by = None
  BY <1>2 DEF BaseInv, CredentialAwaited
<1>4. change' = change \/ change.at \in {"storing", "removing"}
  BY <1>2, DesktopAssumption DEF BaseInv, CredentialAwaited, CredentialWrite
<1>5. CredentialTypes'
  BY <1>2 DEF BaseInv, CredentialTypes, CredentialOps, CredentialWrite
<1>6. UserTypes'
  BY <1>1, <1>2, <1>3, <1>4, DesktopAssumption DEF BaseInv, UserTypes, CacheAwaited, CredentialAwaited, ChangePlaced,
      SessionTypes, Openers, ConfigEdits, ChangePlaces, ConnectionChanges, CredentialWrite, sessionVars, cacheVars,
      memoryVars, readVars, Idle
<1>7. CacheAwaited'
  BY <1>1, <1>4 DEF BaseInv, CacheAwaited, UserTypes, ConnectionChanges, CredentialWrite, Idle
<1>8. CredentialAwaited'
  BY <1>1, <1>2, <1>3, <1>4, DesktopAssumption DEF BaseInv, CredentialAwaited, UserTypes, CredentialTypes,
      ConnectionChanges, ChangePlaces, CredentialWrite, sessionVars, cacheVars, memoryVars, readVars, Idle
<1>9. ChangePlaced'
  <2>1. /\ UNCHANGED <<accessKey, lastIdentity>>
        /\ change' = change \/ \E place \in {"stored", "undo", "ended"} : change' = [change EXCEPT !.at = place]
    BY DEF CredentialWrite, sessionVars
  <2>2. CASE change' = change
    BY <2>1, <2>2 DEF BaseInv, ChangePlaced
  <2>3. CASE change' # change
    <3>1. change \in [at : ChangePlaces, op : Changes \cup {"undo"}, key : Keys \cup {None}, url : Urls]
      BY <1>4, <2>3 DEF BaseInv, UserTypes, ConnectionChanges, Idle
    <3>2. change'.key = change.key /\ change'.at \in {"stored", "undo", "ended"}
      BY <2>1, <2>3, <3>1
    <3>3. change'.at = "stored" => change.at = "storing"
      <4>1. change'.at = "stored" => Head(credentialWrites).by = "change" /\ Head(credentialWrites).op # "remove"
        BY <2>3, <3>1 DEF CredentialWrite
      <4>2. Head(credentialWrites).op \in {"save", "remove"}
        BY <1>2 DEF CredentialOps
      <4>3. QED
        BY <1>2, <4>1, <4>2, DesktopAssumption DEF BaseInv, CredentialAwaited
    <3>4. QED
      BY <2>1, <3>2, <3>3 DEF BaseInv, ChangePlaced
  <2>4. QED
    BY <2>2, <2>3
<1>10. Identified'
  BY <1>1, <1>2 DEF BaseInv, Identified, CredentialWrite
<1>11. QED
  BY <1>1, <1>5, <1>6, <1>7, <1>8, <1>9, <1>10, Untouched DEF BaseInv

LEMMA AskRefreshTypes == ASSUME BaseInv, AskRefresh PROVE BaseInv'
<1>1. UNCHANGED <<accessKey, serverUrl, sessionCookie, identity, lastIdentity, sameSession, credentialWrites,
                  keptVars, agentUrl, loaded, pending, blocked, cacheWrites, cacheFile, clearReached,
                  currentSnapshot, opener, change, config, mutation, hubVersion, restarts>>
  BY DEF AskRefresh, sessionVars, credentialVars, userVars
<1>2. ReadTypes' /\ (refresh' = refresh \/ refresh'.at = "cache")
  <2>1. PICK r \in Views \cup {Same} : RefreshAt(serverUrl, r, sameCache)
    BY DEF AskRefresh, Refresh
  <2>2. SessionTypes /\ ReadTypes /\ serverUrl \in Urls \cup {None} /\ sameCache \in SUBSET {"refresh", "opener"}
    BY DEF BaseInv, SessionTypes, ReadTypes
  <2>3. QED
    BY <2>1, <2>2, RefreshFacts
<1>3. ReadTypes'
  BY <1>2
<1>4. ReadPlaced'
  BY <1>1, <1>2 DEF BaseInv, ReadPlaced, Account
<1>5. QED
  BY <1>1, <1>3, <1>4, Untouched DEF BaseInv

LEMMA CacheReadTypes == ASSUME BaseInv, CacheRead PROVE BaseInv'
<1>1. UNCHANGED <<accessKey, identity, lastIdentity, credentialWrites, keptVars, cacheWrites, opener,
                  change, config>>
  BY DEF CacheRead, credentialVars, userVars
<1>2. /\ ReadTypes' /\ sameSession' \in SUBSET {"refresh", "mutation", "change"}
      /\ refresh'.at = "list" => refresh'.account = Account
      /\ currentSnapshot' \in Snapshots /\ mutation' \in Mutations /\ (mutation' = mutation \/ mutation'.at = "done")
      /\ loaded' \in Envelopes \cup {None}
  <2>1. /\ SessionTypes /\ ReadTypes /\ CountTypes /\ CacheTypes /\ queued \in Views \cup {None, Same}
        /\ sameCache \in SUBSET {"refresh", "opener"} /\ sameSession \in SUBSET {"refresh", "mutation", "change"}
        /\ refresh.at = "cache" /\ refresh.scope \in Scopes \cup {None} /\ view \in Views
             /\ loaded \in Envelopes \cup {None}
        /\ currentSnapshot \in Snapshots /\ mutation \in Mutations
    BY DEF BaseInv, SessionTypes, ReadTypes, CountTypes, CacheTypes, CacheRead, Refreshes, Idle
  <2>2. PICK cached \in Cached("refresh", refresh.scope) :
          /\ loaded' = IF refresh.scope # None /\ ~blocked /\ "refresh" \in sameCache
                       THEN [scope |-> refresh.scope, snapshot |-> cached] ELSE loaded
          /\ IF current /\ Account # None
             THEN /\ refresh' = [at |-> "list", account |-> Account, cached |-> cached]
                  /\ sameSession' = sameSession \cup {"refresh"}
                  /\ sameCache' = sameCache \ {"refresh"}
                  /\ UNCHANGED <<view, queued, current, currentSnapshot, mutation>>
             ELSE FallBack(cached) /\ UNCHANGED sameSession
    BY DEF CacheRead
  <2>3. cached \in Snapshots \cup {None}
    BY <2>1, CachedFacts
  <2>4. loaded' \in Envelopes \cup {None}
    BY <2>1, <2>2, <2>3 DEF Envelopes
  <2>5. CASE current /\ Account # None
    <3>1. refresh' = [at |-> "list", account |-> Account, cached |-> cached] /\ Account \in Accounts
      BY <2>1, <2>2, <2>5, ScopeTypes
    <3>2. refresh' \in Refreshes /\ refresh'.at = "list" /\ refresh'.account = Account
      BY <2>3, <3>1 DEF Refreshes
    <3>3. QED
      BY <2>1, <2>2, <2>4, <2>5, <3>2 DEF ReadTypes
  <2>6. CASE ~(current /\ Account # None)
    <3>1. FallBack(cached) /\ sameSession' = sameSession
      BY <2>2, <2>6
    <3>2. currentSnapshot' \in Snapshots
      BY <2>1, <2>3, <3>1, ShownFacts, EmptyFacts DEF FallBack
    <3>3. Finish(queued, sameCache)
      BY <3>1 DEF FallBack
    <3>4. QED
      BY <2>1, <2>4, <3>1, <3>2, <3>3, FinishTypes
  <2>7. QED
    BY <2>5, <2>6
<1>3. SessionTypes'
  BY <1>2 DEF BaseInv, SessionTypes, CacheRead
<1>4. CacheTypes'
  BY <1>2 DEF BaseInv, CacheTypes, CacheRead
<1>5. ReadTypes'
  BY <1>2
<1>6. CountTypes'
  BY <1>2 DEF BaseInv, CountTypes, CacheRead
<1>7. ReadPlaced'
  BY <1>2 DEF BaseInv, ReadPlaced, Account, CacheRead
<1>8. QED
  BY <1>1, <1>3, <1>4, <1>5, <1>6, <1>7, Untouched DEF BaseInv

LEMMA ListFailsTypes == ASSUME BaseInv, ListFails PROVE BaseInv'
<1>1. UNCHANGED <<accessKey, identity, lastIdentity, credentialWrites, credentialFile, loaded, pending,
                  blocked, cacheWrites, cacheFile, clearReached, opener, change, config>>
  BY DEF ListFails, credentialVars, userVars
<1>2. /\ ReadTypes' /\ refresh'.at \in {"cache", "idle"}
      /\ currentSnapshot' \in Snapshots /\ mutation' \in Mutations /\ (mutation' = mutation \/ mutation'.at = "done")
  <2>1. /\ SessionTypes /\ ReadTypes /\ CountTypes /\ queued \in Views \cup {None, Same}
        /\ sameCache \in SUBSET {"refresh", "opener"} /\ refresh.cached \in Snapshots \cup {None}
        /\ view \in Views /\ currentSnapshot \in Snapshots
    BY DEF BaseInv, ReadTypes, CountTypes, ListFails, Refreshes, Idle
  <2>2. FallBack(refresh.cached)
    BY DEF ListFails
  <2>3. currentSnapshot' \in Snapshots
    BY <2>1, <2>2, ShownFacts, EmptyFacts DEF FallBack
  <2>4. Finish(queued, sameCache)
    BY <2>2 DEF FallBack
  <2>5. QED
    BY <2>1, <2>3, <2>4, FinishTypes
<1>3. SessionTypes'
  BY DEF BaseInv, SessionTypes, ListFails, SignedInUnsaved
<1>4. ReadTypes'
  BY <1>2
<1>5. CountTypes'
  BY <1>2 DEF BaseInv, CountTypes, ListFails
<1>6. ReadPlaced'
  BY <1>2 DEF BaseInv, ReadPlaced, ListFails
<1>7. CredentialTypes'
  BY DEF BaseInv, CredentialTypes, ListFails, SignedInUnsaved
<1>8. QED
  BY <1>1, <1>3, <1>4, <1>5, <1>6, <1>7, Untouched DEF BaseInv

LEMMA ListReadTypes == ASSUME BaseInv, ListRead PROVE BaseInv'
<1>1. UNCHANGED <<accessKey, lastIdentity, opener, change, config>>
  BY DEF ListRead, userVars
<1>2. /\ ReadTypes' /\ refresh'.at # "list"
      /\ currentSnapshot' \in Snapshots /\ mutation' \in Mutations /\ (mutation' = mutation \/ mutation'.at = "done")
      /\ sameSession' \in SUBSET {"refresh", "mutation", "change"}
      /\ loaded' \in Envelopes \cup {None} /\ pending' \in Envelopes \cup {None} /\ blocked' \in BOOLEAN
      /\ cacheWrites' \in Seq(CacheOps) /\ CacheAwaited'
  <2>1. /\ SessionTypes /\ ReadTypes /\ CountTypes /\ CacheTypes /\ CacheAwaited /\ queued \in Views \cup {None, Same}
        /\ sameCache \in SUBSET {"refresh", "opener"} /\ sameSession \in SUBSET {"refresh", "mutation", "change"}
        /\ refresh.at = "list" /\ refresh.account \in Accounts /\ view \in Views /\ hubVersion \in Nat
        /\ change' = change /\ config' = config
    BY DEF BaseInv, SessionTypes, ReadTypes, CountTypes, ListRead, Refreshes, Idle, userVars
  <2>2. PICK left \in 0 .. Charts :
          LET devices == Read(refresh.account)
              charts == IF currentSnapshot.live THEN ForView(currentSnapshot.charts, view) ELSE None
          IN  /\ currentSnapshot' = [devices |-> devices, charts |-> charts, live |-> TRUE]
              /\ CacheWrite(currentSnapshot')
              /\ Continue(devices, charts, left)
    BY DEF ListRead
  <2> DEFINE devices == Read(refresh.account)
             charts == IF currentSnapshot.live THEN ForView(currentSnapshot.charts, view) ELSE None
  <2>3. devices \in ReadParts
    BY <2>1 DEF Read, ReadParts
  <2>4. charts \in ReadParts \cup {None}
    BY <2>1 DEF ForView, CountTypes, Snapshots
  <2>5. currentSnapshot' = [devices |-> devices, charts |-> charts, live |-> TRUE]
          /\ CacheWrite(currentSnapshot') /\ Continue(devices, charts, left)
    BY <2>2
  <2> HIDE DEF devices, charts
  <2>6. currentSnapshot' \in Snapshots
    BY <2>3, <2>4, <2>5 DEF Snapshots
  <2>7. /\ loaded' \in Envelopes \cup {None} /\ pending' \in Envelopes \cup {None} /\ blocked' \in BOOLEAN
        /\ cacheWrites' \in Seq(CacheOps) /\ CacheAwaited'
    BY <2>1, <2>5, <2>6, WriteFacts
  <2>8. CASE left = 0
    <3>1. Finish(queued, sameCache) /\ sameSession' = sameSession \ {"refresh"}
      BY <2>5, <2>8 DEF Continue
    <3>2. ReadTypes' /\ refresh'.at \in {"cache", "idle"} /\ mutation' \in Mutations
            /\ (mutation' = mutation \/ mutation'.at = "done")
      BY <2>1, <3>1, FinishTypes
    <3>3. QED
      BY <2>1, <2>6, <2>7, <3>1, <3>2
  <2>9. CASE left # 0
    <3>1. /\ refresh' = [at |-> "charts", account |-> Account, devices |-> devices, charts |-> charts, left |-> left]
          /\ sameSession' = sameSession \cup {"refresh"} /\ UNCHANGED <<view, queued, current, sameCache, mutation>>
      BY <2>5, <2>9 DEF Continue
    <3>2. Account \in Accounts \cup {None} /\ left \in 1 .. Charts
      BY <2>1, <2>2, <2>9, ScopeTypes, DesktopAssumption
    <3>3. refresh' \in Refreshes /\ refresh'.at = "charts"
      BY <2>3, <2>4, <3>1, <3>2 DEF Refreshes
    <3>4. ReadTypes' /\ mutation' \in Mutations
      BY <3>1, <3>3, <2>1 DEF ReadTypes, CountTypes
    <3>5. QED
      BY <2>1, <2>6, <2>7, <3>1, <3>3, <3>4
  <2>10. QED
    BY <2>8, <2>9
<1>3. credentialWrites' \in Seq(CredentialOps) /\ CredentialAwaited' /\ Known(credentialWrites', lastIdentity')
  <2> DEFINE w == persistAccessKey(accessKey, None)
  <2>1. /\ refresh.at = "list" /\ "refresh" \in sameSession /\ change' = change /\ lastIdentity' = lastIdentity
        /\ credentialWrites' \in {credentialWrites, Append(credentialWrites, w)}
    BY DEF ListRead, Answered, SignedIn, userVars
  <2>2. refresh.account \in Accounts /\ Account = refresh.account
    BY <2>1 DEF BaseInv, ReadPlaced, ReadTypes, Refreshes, Idle
  <2>3. accessKey \in Keys /\ serverUrl \in Urls
    BY <2>2, DesktopAssumption DEF BaseInv, SessionTypes, Account
  <2>4. identity \in Nat /\ lastIdentity \in Nat /\ identity \in 1 .. lastIdentity
          /\ Known(credentialWrites, lastIdentity)
    BY <2>3, DesktopAssumption DEF BaseInv, SessionTypes, Identified, Known
  <2>5. w \in CredentialOps /\ w.op = "save" /\ w.by = None /\ w.value \in Credentials /\ w.value.identity = identity
    BY <2>3, <2>4 DEF persistAccessKey, Credential, CredentialOps, Credentials
  <2> HIDE DEF w
  <2>6. CASE credentialWrites' = credentialWrites
    BY <2>1, <2>4, <2>6 DEF BaseInv, CredentialTypes, CredentialAwaited, Known
  <2>7. CASE credentialWrites' = Append(credentialWrites, w)
    BY <2>1, <2>4, <2>5, <2>7, AppendAwaited, DesktopAssumption DEF BaseInv
  <2>8. QED
    BY <2>1, <2>6, <2>7
<1>4. SessionTypes'
  BY <1>2 DEF BaseInv, SessionTypes, ListRead, SignedIn
<1>5. CredentialTypes'
  BY <1>3 DEF BaseInv, CredentialTypes, ListRead, SignedIn
<1>6. CacheTypes'
  BY <1>2 DEF BaseInv, CacheTypes, ListRead
<1>7. ReadTypes'
  BY <1>2
<1>8. CountTypes'
  BY <1>2 DEF BaseInv, CountTypes, ListRead
<1>9. CacheAwaited'
  BY <1>2
<1>10. CredentialAwaited'
  BY <1>3
<1>11. Identified'
  BY <1>1, <1>3 DEF BaseInv, Identified, Known, ListRead
<1>12. ReadPlaced'
  BY <1>2 DEF BaseInv, ReadPlaced, ListRead
<1>13. QED
  BY <1>1, <1>4, <1>5, <1>6, <1>7, <1>8, <1>9, <1>10, <1>11, <1>12, Untouched DEF BaseInv

LEMMA ChartReadTypes == ASSUME BaseInv, ChartRead PROVE BaseInv'
<1>1. UNCHANGED <<accessKey, identity, lastIdentity, credentialWrites, keptVars, opener, change,
                  config>>
  BY DEF ChartRead, credentialVars, userVars
<1>2. /\ ReadTypes' /\ refresh'.at # "list"
      /\ currentSnapshot' \in Snapshots /\ mutation' \in Mutations /\ (mutation' = mutation \/ mutation'.at = "done")
      /\ sameSession' \in SUBSET {"refresh", "mutation", "change"}
      /\ loaded' \in Envelopes \cup {None} /\ pending' \in Envelopes \cup {None} /\ blocked' \in BOOLEAN
      /\ cacheWrites' \in Seq(CacheOps) /\ CacheAwaited'
  <2>1. /\ SessionTypes /\ ReadTypes /\ CountTypes /\ CacheTypes /\ CacheAwaited /\ queued \in Views \cup {None, Same}
        /\ sameCache \in SUBSET {"refresh", "opener"} /\ sameSession \in SUBSET {"refresh", "mutation", "change"}
        /\ refresh.devices \in ReadParts /\ refresh.charts \in ReadParts \cup {None} /\ refresh.left \in 1 .. Charts
        /\ refresh.account \in Accounts \cup {None} /\ view \in Views /\ hubVersion \in Nat
        /\ change' = change /\ config' = config /\ currentSnapshot \in Snapshots
    BY DEF BaseInv, SessionTypes, ReadTypes, CountTypes, ChartRead, Refreshes, Idle, userVars
  <2>2. PICK charts \in {refresh.charts} \cup (IF Answered /\ refresh.account # None
                                               THEN {Read(refresh.account)} ELSE {}) :
          IF current
          THEN /\ currentSnapshot' = [devices |-> refresh.devices, charts |-> charts, live |-> TRUE]
               /\ CacheWrite(currentSnapshot')
               /\ Continue(refresh.devices, charts, refresh.left - 1)
          ELSE /\ UNCHANGED <<currentSnapshot, loaded, pending, blocked, cacheWrites>>
               /\ sameSession' = sameSession \ {"refresh"}
               /\ Finish(queued, sameCache)
    BY DEF ChartRead
  <2>3. charts \in ReadParts \cup {None}
    <3>1. refresh.account # None => Read(refresh.account) \in ReadParts
      BY <2>1 DEF Read, ReadParts
    <3>2. QED
      BY <2>1, <3>1
  <2>4. CASE ~current
    <3>1. UNCHANGED <<currentSnapshot, loaded, pending, blocked, cacheWrites>>
            /\ sameSession' = sameSession \ {"refresh"} /\ Finish(queued, sameCache)
      BY <2>2, <2>4
    <3>2. ReadTypes' /\ refresh'.at \in {"cache", "idle"} /\ mutation' \in Mutations
            /\ (mutation' = mutation \/ mutation'.at = "done")
      BY <2>1, <3>1, FinishTypes
    <3>3. QED
      BY <2>1, <3>1, <3>2 DEF CacheTypes, CacheAwaited
  <2>5. CASE current
    <3> DEFINE left == refresh.left - 1
    <3>1. currentSnapshot' = [devices |-> refresh.devices, charts |-> charts, live |-> TRUE]
            /\ CacheWrite(currentSnapshot') /\ Continue(refresh.devices, charts, left)
      BY <2>2, <2>5
    <3>2. left \in 0 .. Charts
      BY <2>1, DesktopAssumption
    <3> HIDE DEF left
    <3>3. currentSnapshot' \in Snapshots
      BY <2>1, <2>3, <3>1 DEF Snapshots
    <3>4. /\ loaded' \in Envelopes \cup {None} /\ pending' \in Envelopes \cup {None} /\ blocked' \in BOOLEAN
          /\ cacheWrites' \in Seq(CacheOps) /\ CacheAwaited'
      BY <2>1, <3>1, <3>3, WriteFacts
    <3>5. CASE left = 0
      <4>1. Finish(queued, sameCache) /\ sameSession' = sameSession \ {"refresh"}
        BY <3>1, <3>5 DEF Continue
      <4>2. ReadTypes' /\ refresh'.at \in {"cache", "idle"} /\ mutation' \in Mutations
              /\ (mutation' = mutation \/ mutation'.at = "done")
        BY <2>1, <4>1, FinishTypes
      <4>3. QED
        BY <2>1, <3>3, <3>4, <4>1, <4>2
    <3>6. CASE left # 0
      <4>1. /\ refresh' = [at |-> "charts", account |-> Account, devices |-> refresh.devices, charts |-> charts, left |-> left]
            /\ sameSession' = sameSession \cup {"refresh"} /\ UNCHANGED <<view, queued, current, sameCache, mutation>>
        BY <3>1, <3>6 DEF Continue
      <4>2. Account \in Accounts \cup {None} /\ left \in 1 .. Charts
        BY <2>1, <3>2, <3>6, ScopeTypes, DesktopAssumption
      <4>3. refresh' \in Refreshes /\ refresh'.at = "charts"
        BY <2>1, <2>3, <4>1, <4>2 DEF Refreshes
      <4>4. ReadTypes' /\ mutation' \in Mutations
        BY <4>1, <4>3, <2>1 DEF ReadTypes, CountTypes
      <4>5. QED
        BY <2>1, <3>3, <3>4, <4>1, <4>3, <4>4
    <3>7. QED
      BY <3>5, <3>6
  <2>6. QED
    BY <2>4, <2>5
<1>3. SessionTypes'
  BY <1>2 DEF BaseInv, SessionTypes, ChartRead
<1>4. CacheTypes'
  BY <1>2 DEF BaseInv, CacheTypes, ChartRead
<1>5. ReadTypes'
  BY <1>2
<1>6. CountTypes'
  BY <1>2 DEF BaseInv, CountTypes, ChartRead
<1>7. CacheAwaited'
  BY <1>2
<1>8. ReadPlaced'
  BY <1>2 DEF BaseInv, ReadPlaced, ChartRead
<1>9. QED
  BY <1>1, <1>3, <1>4, <1>5, <1>6, <1>7, <1>8, Untouched DEF BaseInv

LEMMA OpenTypes == ASSUME BaseInv, Open PROVE BaseInv'
<1>1. UNCHANGED <<accessKey, serverUrl, sessionCookie, identity, lastIdentity, sameSession, credentialWrites,
                  keptVars, agentUrl, loaded, pending, blocked, cacheWrites, cacheFile, clearReached,
                  refresh, currentSnapshot, change, config, mutation, hubVersion, restarts>>
  BY DEF Open, sessionVars, credentialVars, readVars
<1>2. opener' \in Openers
  <2>1. cacheScope \in Scopes
    <3>1. cacheScope # None /\ serverUrl \in Urls \cup {None} /\ SessionTypes
      BY DEF Open, BaseInv, SessionTypes
    <3>2. QED
      BY <3>1, ScopeTypes DEF cacheScope
  <2>2. QED
    BY <2>1 DEF Open, Openers
<1>3. ReadTypes'
  BY DEF BaseInv, ReadTypes, Open, readVars
<1>4. UserTypes'
  BY <1>2 DEF BaseInv, UserTypes, Open
<1>5. QED
  BY <1>1, <1>3, <1>4, Untouched DEF BaseInv

LEMMA OpenedTypes == ASSUME BaseInv, Opened PROVE BaseInv'
<1>1. UNCHANGED <<accessKey, serverUrl, sessionCookie, identity, lastIdentity, sameSession, credentialWrites,
                  keptVars, agentUrl, cacheWrites, change, config>>
  BY DEF Opened, sessionVars, credentialVars
<1>2. /\ ReadTypes' /\ (refresh' = refresh \/ refresh'.at = "cache")
      /\ currentSnapshot' \in Snapshots /\ loaded' \in Envelopes \cup {None} /\ opener' = Idle
           /\ change' = change /\ config' = config
  <2>1. /\ SessionTypes /\ ReadTypes /\ CountTypes /\ CacheTypes /\ serverUrl \in Urls \cup {None}
        /\ opener.scope \in Scopes /\ opener.request \in Views \cup {Same} /\ view \in Views
             /\ loaded \in Envelopes \cup {None}
        /\ sameCache \ {"opener"} \in SUBSET {"refresh", "opener"}
        /\ (opener.request = Same \/ opener.request \in Views) /\ currentSnapshot \in Snapshots
    BY DEF BaseInv, SessionTypes, ReadTypes, UserTypes, CountTypes, CacheTypes, Opened, Openers, Idle
  <2>2. PICK cached \in Cached("opener", opener.scope) :
          /\ loaded' = IF ~blocked /\ "opener" \in sameCache
                       THEN [scope |-> opener.scope, snapshot |-> cached] ELSE loaded
          /\ currentSnapshot' = IF cached = None THEN currentSnapshot
                                ELSE asCachedSnapshot(cached, IF opener.request = Same THEN view ELSE opener.request)
    BY DEF Opened
  <2>3. cached \in Snapshots \cup {None}
    BY <2>1, CachedFacts
  <2>4. loaded' \in Envelopes \cup {None}
    BY <2>1, <2>2, <2>3 DEF Envelopes
  <2>5. currentSnapshot' \in Snapshots
    BY <2>1, <2>2, <2>3, ShownFacts
  <2>6. ReadTypes' /\ (refresh' = refresh \/ refresh'.at = "cache")
    <3>1. CASE changing
      BY <2>1, <3>1 DEF Opened, ReadTypes, readVars
    <3>2. CASE ~changing
      <4>1. RefreshAt(serverUrl, opener.request, sameCache \ {"opener"})
        BY <3>2 DEF Opened, Refresh
      <4>2. QED
        BY <2>1, <4>1, RefreshFacts
    <3>3. QED
      BY <3>1, <3>2
  <2>7. QED
    BY <2>4, <2>5, <2>6 DEF Opened
<1>3. CacheTypes'
  BY <1>2 DEF BaseInv, CacheTypes, Opened
<1>4. ReadTypes'
  BY <1>2
<1>5. UserTypes'
  BY DEF BaseInv, UserTypes, Openers, Opened
<1>6. CountTypes'
  BY <1>2 DEF BaseInv, CountTypes, Opened
<1>7. ReadPlaced'
  BY <1>1, <1>2 DEF BaseInv, ReadPlaced, Account, Opened
<1>8. QED
  BY <1>1, <1>3, <1>4, <1>5, <1>6, <1>7, Untouched DEF BaseInv

LEMMA SessionDeniedTypes == ASSUME BaseInv, NEW who \in {"refresh", "mutation", "live"}, SessionDenied(who) PROVE BaseInv'
<1>1. UNCHANGED <<accessKey, lastIdentity, opener, change, config>>
  BY DEF SessionDenied, userVars
<1>2. /\ ReadTypes' /\ (refresh' = refresh \/ refresh'.at # "list")
      /\ currentSnapshot' = emptySnapshot /\ mutation' \in Mutations
           /\ (mutation' = mutation \/ mutation'.at \in {"done", "idle"})
      /\ loaded' = None /\ pending' = None /\ blocked' = TRUE /\ cacheWrites' \in Seq(CacheOps) /\ CacheAwaited'
  <2>1. /\ SessionTypes /\ ReadTypes /\ CountTypes /\ CacheTypes /\ CacheAwaited
        /\ change' = change /\ config' = config /\ currentSnapshot' = emptySnapshot /\ CacheClear(None)
    BY DEF BaseInv, SessionDenied, userVars
  <2>2. cacheWrites' \in Seq(CacheOps) /\ CacheAwaited' /\ blocked' = TRUE /\ loaded' = None /\ pending' = None
    BY <2>1, ClearAwaited, DesktopAssumption
  <2>3. CASE who = "refresh"
    <3>1. Finish(None, {})
      BY <2>3 DEF SessionDenied
    <3>2. ReadTypes' /\ refresh'.at \in {"cache", "idle"} /\ mutation' \in Mutations
            /\ (mutation' = mutation \/ mutation'.at = "done")
      BY <2>1, <3>1, FinishTypes
    <3>3. QED
      BY <2>1, <2>2, <3>2
  <2>4. CASE who # "refresh"
    <3>1. /\ current' = FALSE /\ queued' = None /\ sameCache' = {} /\ view' = view /\ refresh' = refresh
          /\ mutation' \in {mutation, Idle}
      BY <2>4 DEF SessionDenied
    <3>2. ReadTypes' /\ mutation' \in Mutations /\ (mutation' = mutation \/ mutation'.at = "idle")
      BY <2>1, <3>1, MutationTypes DEF ReadTypes, CountTypes
    <3>3. QED
      BY <2>1, <2>2, <3>1, <3>2
  <2>5. QED
    BY <2>3, <2>4
<1>3. credentialWrites' \in Seq(CredentialOps) /\ CredentialAwaited' /\ Known(credentialWrites', lastIdentity')
  <2>1. /\ CredentialTypes /\ CredentialAwaited /\ lastIdentity \in Nat /\ Known(credentialWrites, lastIdentity)
        /\ credentialWrites' = Outdated /\ lastIdentity' = lastIdentity /\ change' = change
    BY DEF BaseInv, SessionTypes, Identified, Known, SessionDenied, userVars
  <2>2. QED
    BY <2>1, OutdatedAwaited
<1>4. SessionTypes'
  BY <1>1, <1>2, <1>3, EmptyFacts, DesktopAssumption DEF BaseInv, SessionTypes, ChangePlaced, UserTypes,
      ConnectionChanges, ChangePlaces, SessionDenied, userVars, Idle, Account, NewEpoch
<1>5. CredentialTypes'
  <2>1. UNCHANGED keptVars
    BY DEF SessionDenied
  <2>2. QED
    BY <1>3, <2>1 DEF BaseInv, CredentialTypes
<1>6. CacheTypes'
  BY <1>2 DEF BaseInv, CacheTypes, SessionDenied
<1>7. ReadTypes'
  BY <1>2
<1>8. CountTypes'
  BY <1>2, EmptyFacts DEF BaseInv, CountTypes, SessionDenied
<1>9. CacheAwaited'
  BY <1>2
<1>10. CredentialAwaited'
  BY <1>3
<1>11. Identified'
  BY <1>3 DEF BaseInv, Identified, Known, SessionDenied, Account
<1>12. ReadPlaced'
  BY <1>2 DEF BaseInv, ReadPlaced, SessionDenied, NewEpoch
<1>13. QED
  BY <1>1, <1>4, <1>5, <1>6, <1>7, <1>8, <1>9, <1>10, <1>11, <1>12, Untouched DEF BaseInv

LEMMA LoginDeniedTypes == ASSUME BaseInv, LoginDenied PROVE BaseInv'
<1>1. UNCHANGED <<accessKey, lastIdentity, opener, change, config>>
  BY DEF LoginDenied, userVars
<1>2. /\ ReadTypes' /\ (refresh' = refresh \/ refresh'.at # "list")
      /\ currentSnapshot' = emptySnapshot /\ mutation' \in Mutations
           /\ (mutation' = mutation \/ mutation'.at \in {"done", "idle"})
      /\ loaded' = None /\ pending' = None /\ blocked' = TRUE /\ cacheWrites' \in Seq(CacheOps) /\ CacheAwaited'
  <2>1. /\ SessionTypes /\ ReadTypes /\ CountTypes /\ CacheTypes /\ CacheAwaited
        /\ change' = change /\ config' = config /\ currentSnapshot' = emptySnapshot /\ CacheClear(None)
    BY DEF BaseInv, LoginDenied, userVars
  <2>2. cacheWrites' \in Seq(CacheOps) /\ CacheAwaited' /\ blocked' = TRUE /\ loaded' = None /\ pending' = None
    BY <2>1, ClearAwaited, DesktopAssumption
  <2>3. Finish(queued, {}) /\ queued \in Views \cup {None, Same}
    BY <2>1 DEF LoginDenied, ReadTypes
  <2>4. ReadTypes' /\ refresh'.at \in {"cache", "idle"} /\ mutation' \in Mutations
          /\ (mutation' = mutation \/ mutation'.at = "done")
    BY <2>1, <2>3, FinishTypes
  <2>5. QED
    BY <2>1, <2>2, <2>4
<1>3. credentialWrites' \in Seq(CredentialOps) /\ CredentialAwaited' /\ Known(credentialWrites', lastIdentity')
  <2>1. /\ CredentialTypes /\ CredentialAwaited /\ lastIdentity \in Nat /\ Known(credentialWrites, lastIdentity)
        /\ credentialWrites' = Outdated /\ lastIdentity' = lastIdentity /\ change' = change
    BY DEF BaseInv, SessionTypes, Identified, Known, LoginDenied, userVars
  <2>2. QED
    BY <2>1, OutdatedAwaited
<1>4. SessionTypes'
  BY <1>1, <1>2, <1>3, EmptyFacts, DesktopAssumption DEF BaseInv, SessionTypes, ChangePlaced, UserTypes,
      ConnectionChanges, ChangePlaces, LoginDenied, userVars, Account, NewEpoch, Idle
<1>5. CredentialTypes'
  <2>1. UNCHANGED keptVars
    BY DEF LoginDenied
  <2>2. QED
    BY <1>3, <2>1 DEF BaseInv, CredentialTypes
<1>6. CacheTypes'
  BY <1>2 DEF BaseInv, CacheTypes, LoginDenied
<1>7. ReadTypes'
  BY <1>2
<1>8. CountTypes'
  BY <1>2, EmptyFacts DEF BaseInv, CountTypes, LoginDenied
<1>9. CacheAwaited'
  BY <1>2
<1>10. CredentialAwaited'
  BY <1>3
<1>11. Identified'
  BY <1>3 DEF BaseInv, Identified, Known, LoginDenied, Account
<1>12. ReadPlaced'
  BY <1>2 DEF BaseInv, ReadPlaced, LoginDenied, NewEpoch
<1>13. QED
  BY <1>1, <1>4, <1>5, <1>6, <1>7, <1>8, <1>9, <1>10, <1>11, <1>12, Untouched DEF BaseInv

LEMMA MutationReplyTypes == ASSUME BaseInv, MutationReply PROVE BaseInv'
<1>1. UNCHANGED <<accessKey, identity, lastIdentity, credentialWrites, keptVars, loaded, pending,
                  blocked, cacheWrites, cacheFile, clearReached, opener, change, config>>
  BY DEF MutationReply, credentialVars, userVars
<1>2. ReadTypes' /\ (refresh' = refresh \/ refresh'.at = "cache") /\ mutation' \in Mutations
        /\ mutation'.at # "writing" /\ hubVersion' \in 0 .. MaxVersion
  <2>1. /\ SessionTypes /\ ReadTypes /\ CountTypes /\ serverUrl \in Urls \cup {None}
             /\ sameCache \in SUBSET {"refresh", "opener"}
        /\ queued \in Views \cup {None, Same} /\ hubVersion \in 0 .. MaxVersion /\ hubVersion < MaxVersion
    BY DEF BaseInv, SessionTypes, ReadTypes, CountTypes, MutationReply, ReadPlaced
  <2>2. hubVersion' \in 0 .. MaxVersion /\ hubVersion' \in Nat
    BY <2>1, DesktopAssumption DEF MutationReply
  <2>3. mergeSnapshotRequests(queued, Same) \in Views \cup {Same}
    BY <2>1 DEF mergeSnapshotRequests
  <2>4. CASE "mutation" \notin sameSession
    <3>1. mutation' = Idle /\ UNCHANGED <<readVars, sameCache>>
      BY <2>4 DEF MutationReply
    <3>2. mutation' \in Mutations /\ mutation'.at # "writing"
      BY <3>1 DEF Mutations, Idle
    <3>3. QED
      BY <2>1, <2>2, <3>1, <3>2 DEF ReadTypes, readVars
  <2>5. CASE "mutation" \in sameSession
    <3>1. refreshAfterMutation
      BY <2>5 DEF MutationReply
    <3>2. mutation' \in {Idle, Rereading(hubVersion')}
      BY <3>1 DEF refreshAfterMutation
    <3>3. mutation' \in Mutations /\ mutation'.at # "writing"
      BY <2>2, <3>2, MutationTypes
    <3>4. CASE changing \/ refresh.at # "idle"
      <4>1. /\ current' = FALSE /\ queued' = mergeSnapshotRequests(queued, Same)
            /\ UNCHANGED <<view, refresh, sameCache>>
        BY <3>1, <3>4 DEF refreshAfterMutation
      <4>2. QED
        BY <2>1, <2>2, <2>3, <3>3, <4>1 DEF ReadTypes
    <3>5. CASE ~(changing \/ refresh.at # "idle")
      <4>1. StartReadAt(serverUrl, mergeSnapshotRequests(queued, Same), sameCache)
        BY <3>1, <3>5 DEF refreshAfterMutation, StartRead
      <4>2. QED
        BY <2>1, <2>2, <2>3, <3>3, <4>1, StartFacts
    <3>6. QED
      BY <3>4, <3>5
  <2>6. QED
    BY <2>4, <2>5
<1>3. SessionTypes'
  BY DEF BaseInv, SessionTypes, MutationReply
<1>4. ReadTypes'
  BY <1>2
<1>5. CountTypes'
  BY <1>2 DEF BaseInv, CountTypes, MutationReply
<1>6. ReadPlaced'
  BY <1>2 DEF BaseInv, ReadPlaced, Account, MutationReply
<1>7. QED
  BY <1>1, <1>3, <1>4, <1>5, <1>6, Untouched DEF BaseInv

LEMMA ChangeStartTypes ==
    ASSUME BaseInv, ChangeStart
    PROVE  BaseInv'
<1>1. /\ change' \in ConnectionChanges /\ change'.at = "clearing" /\ change.at = "idle" /\ lastIdentity < MaxIdentity
      /\ change'.op = "login" => change'.key # None
      /\ sessionCookie' \in BOOLEAN
  <2>1. PICK op \in Changes, k \in Keys \cup {None}, u \in Urls :
          /\ op = "login" => k # None
          /\ change' = [at |-> "clearing", op |-> op, key |-> k, url |-> u]
    BY DEF ChangeStart
  <2>2. /\ change' \in ConnectionChanges /\ change'.at = "clearing" /\ (change'.op = "login" => change'.key # None)
    BY <2>1 DEF ConnectionChanges, ChangePlaces
  <2> DEFINE signed == sessionCookie /\ change'.op = "logout"
  <2>3. signed \in BOOLEAN
    BY DEF BaseInv, SessionTypes
  <2>4. sessionCookie' = signed
    BY DEF ChangeStart
  <2> HIDE DEF signed
  <2>5. change.at = "idle" /\ lastIdentity < MaxIdentity
    BY DEF ChangeStart, changing
  <2>6. QED
    BY <2>2, <2>3, <2>4, <2>5
<1>2. credentialWrites' \in Seq(CredentialOps) /\ CredentialAwaited' /\ Known(credentialWrites', lastIdentity')
  <2>1. /\ CredentialTypes /\ CredentialAwaited /\ lastIdentity \in Nat /\ Known(credentialWrites, lastIdentity)
        /\ credentialWrites' = Outdated /\ lastIdentity' = lastIdentity
    BY DEF BaseInv, SessionTypes, Identified, Known, ChangeStart
  <2>2. QED
    BY <1>1, <2>1, OutdatedAwaited
<1>3. cacheWrites' \in Seq(CacheOps) /\ CacheAwaited' /\ blocked' = TRUE /\ loaded' = None /\ pending' = None
  <2>1. CacheTypes /\ CacheAwaited /\ CacheClear("change") /\ config' = config
    BY DEF BaseInv, ChangeStart, ClearRemote
  <2>2. QED
    BY <1>1, <2>1, ClearAwaited
<1>4. current' = FALSE /\ queued' = None /\ currentSnapshot' = emptySnapshot /\ sameCache' = {}
  BY DEF ChangeStart, ClearRemote
<1>5. SessionTypes'
  BY DEF BaseInv, SessionTypes, ChangeStart
<1>6. CredentialTypes'
  BY <1>2 DEF BaseInv, CredentialTypes, ChangeStart
<1>7. CacheTypes'
  BY <1>3 DEF BaseInv, CacheTypes, ChangeStart
<1>8. ReadTypes'
  BY <1>1, <1>2, <1>3, <1>4, EmptyFacts, DesktopAssumption DEF BaseInv, ReadTypes, SessionTypes, Refreshes,
      ChangeStart, changing, Idle
<1>9. UserTypes'
  BY <1>1 DEF BaseInv, UserTypes, ChangeStart
<1>10. CountTypes'
  BY <1>4, EmptyFacts DEF BaseInv, CountTypes, ChangeStart
<1>11. CacheAwaited'
  BY <1>3
<1>12. CredentialAwaited'
  BY <1>2
<1>13. ChangePlaced'
  BY DEF ChangePlaced, ChangeStart
<1>14. Identified'
  BY <1>2 DEF BaseInv, Identified, Known, ChangeStart
<1>15. ReadPlaced'
  BY DEF BaseInv, ReadPlaced, ChangeStart
<1>16. QED
  BY <1>5, <1>6, <1>7, <1>8, <1>9, <1>10, <1>11, <1>12, <1>13, <1>14, <1>15 DEF BaseInv

LEMMA AddressSetTypes == ASSUME BaseInv, AddressSet PROVE BaseInv'
<1>1. UNCHANGED <<loaded, pending, blocked, sameCache, cacheWrites, cacheFile, clearReached, view, queued,
                  current, refresh, currentSnapshot, mutation, hubVersion, restarts>>
  BY DEF AddressSet, changeRest, cacheVars, memoryVars, readVars
<1>2. /\ serverUrl' = change.url /\ sameSession' \in SUBSET {"refresh", "mutation", "change"}
           /\ sessionCookie' \in BOOLEAN
      /\ serverUrl' \in Urls \cup {None}
      /\ serverUrl' = serverUrl => sameSession' = sameSession
      /\ serverUrl' # serverUrl => sameSession' = {}
      /\ credentialWrites' \in Seq(CredentialOps) /\ CredentialAwaited' /\ Known(credentialWrites', lastIdentity')
  <2>1. /\ SessionTypes /\ CredentialTypes /\ CredentialAwaited /\ Known(credentialWrites, lastIdentity)
             /\ lastIdentity' = lastIdentity
        /\ setServerUrl(change.url) /\ change.url \in Urls \cup {None}
             /\ (change.at \in {"storing", "removing"} => change'.at = change.at)
    BY DEF BaseInv, UserTypes, Identified, Known, ConnectionChanges, Idle, AddressSet
  <2>2. QED
    BY <2>1, AddressMoves
<1>3. change' \in ConnectionChanges /\ change'.at \in {"undo", "agent"}
        /\ (change'.at = "agent" => change'.key # None)
  <2> DEFINE key == IF change.key # None THEN change.key ELSE accessKey
             at == IF key = None THEN "undo" ELSE "agent"
  <2>1. change \in [at : ChangePlaces, op : Changes \cup {"undo"}, key : Keys \cup {None}, url : Urls]
    BY DEF BaseInv, UserTypes, ConnectionChanges, AddressSet, Idle
  <2>2. key \in Keys \cup {None}
    BY <2>1 DEF BaseInv, SessionTypes
  <2>3. at \in {"undo", "agent"} /\ (at = "agent" => key # None)
    OBVIOUS
  <2>4. change' = [change EXCEPT !.key = key, !.at = at]
    BY DEF AddressSet
  <2> HIDE DEF key, at
  <2>5. QED
    BY <2>1, <2>2, <2>3, <2>4 DEF ConnectionChanges, ChangePlaces
<1>4. SessionTypes'
  BY <1>2 DEF BaseInv, SessionTypes, AddressSet
<1>5. CredentialTypes'
  BY <1>2 DEF BaseInv, CredentialTypes, AddressSet
<1>6. UserTypes'
  BY <1>3 DEF BaseInv, UserTypes, AddressSet, changeRest
<1>7. CacheAwaited'
  BY <1>1 DEF BaseInv, CacheAwaited, AddressSet, changeRest
<1>8. CredentialAwaited'
  BY <1>2
<1>9. ChangePlaced'
  BY DEF BaseInv, ChangePlaced, AddressSet
<1>10. Identified'
  BY <1>2 DEF BaseInv, Identified, Known, AddressSet
<1>11. ReadPlaced'
  BY <1>1, <1>2, <1>3, DesktopAssumption DEF BaseInv, ReadPlaced, CountTypes, SessionTypes, ReadTypes, Mutations,
      Refreshes, Account, AddressSet, changeRest, cacheVars, memoryVars, readVars, Idle
<1>12. QED
  BY <1>1, <1>4, <1>5, <1>6, <1>7, <1>8, <1>9, <1>10, <1>11, Untouched DEF BaseInv

LEMMA AgentAnswersTypes ==
    ASSUME BaseInv, AgentAnswers
    PROVE  BaseInv'
<1>1. ASSUME Login, change'.at = "auth", change.key \in Keys, lastIdentity < MaxIdentity, change.at \notin {"storing", "removing"}
      PROVE  /\ identity' \in 1 .. lastIdentity' /\ lastIdentity' \in 1 .. MaxIdentity
               /\ lastIdentity \in 1 .. lastIdentity'
             /\ sessionCookie' = FALSE /\ sameSession' = {"change"} /\ accessKey' = None
             /\ credentialWrites' \in Seq(CredentialOps) /\ CredentialAwaited'
                  /\ Known(credentialWrites', lastIdentity')
  <2>1. /\ sessionCookie' = FALSE /\ sameSession' = {"change"} /\ accessKey' = None
        /\ identity \in 0 .. lastIdentity /\ lastIdentity \in 1 .. MaxIdentity /\ MaxIdentity \in Nat
        /\ (accessKey # None => identity # 0)
    BY <1>1, DesktopAssumption DEF Login, BaseInv, SessionTypes, Identified
  <2>2. \/ identity' = lastIdentity + 1 /\ lastIdentity' = lastIdentity + 1
        \/ identity' = identity /\ lastIdentity' = lastIdentity /\ accessKey # None
    BY <1>1, DesktopAssumption DEF Login
  <2>3. identity' \in 1 .. lastIdentity' /\ lastIdentity' \in 1 .. MaxIdentity /\ lastIdentity \in 1 .. lastIdentity'
    BY <1>1, <2>1, <2>2
  <2>4. /\ CredentialTypes /\ CredentialAwaited /\ Known(credentialWrites, lastIdentity)
             /\ credentialWrites' = Outdated
        /\ lastIdentity \in Nat /\ lastIdentity' \in Nat /\ lastIdentity <= lastIdentity'
    BY <1>1, <2>1, <2>3 DEF Login, BaseInv, Identified, Known
  <2>5. credentialWrites' \in Seq(CredentialOps) /\ CredentialAwaited' /\ Known(credentialWrites', lastIdentity')
    BY <1>1, <2>4, OutdatedAwaited
  <2>6. QED
    BY <2>1, <2>3, <2>5
<1>2. /\ lastIdentity \in 1 .. lastIdentity' /\ lastIdentity' \in 1 .. MaxIdentity /\ identity' \in 0 .. lastIdentity'
      /\ accessKey' \in Keys \cup {None} /\ serverUrl' \in Urls \cup {None} /\ agentUrl' \in Urls \cup {None}
      /\ sessionCookie' \in BOOLEAN /\ sameSession' \in SUBSET {"refresh", "mutation", "change"}
      /\ credentialWrites' \in Seq(CredentialOps) /\ CredentialAwaited' /\ Known(credentialWrites', lastIdentity')
      /\ change' \in ConnectionChanges /\ change'.at \in {"undo", "auth", "signout"}
           /\ change.at \in {"cleared", "agent"}
      /\ change'.at = "auth" => identity' # 0 /\ accessKey' = None /\ change'.key # None
      /\ accessKey' # None => identity' # 0
      /\ UNCHANGED <<accessKey, serverUrl, sameSession>> \/ sameSession' \in {{}, {"change"}}
      /\ UNCHANGED <<keptVars, changeRest>>
  <2>1. /\ change \in [at : ChangePlaces, op : Changes \cup {"undo"}, key : Keys \cup {None}, url : Urls]
        /\ lastIdentity \in 1 .. MaxIdentity /\ lastIdentity \in 1 .. lastIdentity
             /\ change.at \in {"cleared", "agent"}
    BY DEF BaseInv, SessionTypes, UserTypes, ConnectionChanges, AgentAnswers, Idle
  <2>2. \A place \in {"undo", "auth", "signout"} :
          LET c == [change EXCEPT !.at = place]
          IN  c \in ConnectionChanges /\ c.at = place /\ c.key = change.key
    BY <2>1 DEF ConnectionChanges, ChangePlaces
  <2>3. CASE /\ change.at = "cleared" /\ change.op = "login" /\ serverUrl' = agentUrl /\ agentUrl = None
             /\ change' = [change EXCEPT !.at = "undo"]
             /\ sameSession' = {} /\ sessionCookie' = FALSE /\ credentialWrites' = Outdated
             /\ UNCHANGED <<accessKey, identity, lastIdentity>> /\ UNCHANGED <<keptVars, agentUrl, changeRest>>
    <3>1. CredentialTypes /\ CredentialAwaited /\ Known(credentialWrites, lastIdentity) /\ lastIdentity \in Nat
            /\ lastIdentity' = lastIdentity
      BY <2>3 DEF BaseInv, SessionTypes, Identified, Known
    <3>2. credentialWrites' \in Seq(CredentialOps) /\ CredentialAwaited' /\ Known(credentialWrites', lastIdentity')
      BY <2>3, <3>1, OutdatedAwaited
    <3>3. QED
      BY <2>1, <2>2, <2>3, <3>2 DEF BaseInv, SessionTypes, Identified
  <2>4. CASE /\ change.at = "cleared" /\ change.op = "login" /\ serverUrl' = agentUrl
             /\ Login /\ change' = [change EXCEPT !.at = "auth"]
             /\ UNCHANGED <<keptVars, agentUrl, changeRest>>
    <3>1. change.key \in Keys /\ lastIdentity < MaxIdentity
      BY <2>1, <2>4 DEF BaseInv, ChangePlaced
    <3>2. change' \in ConnectionChanges /\ change'.at = "auth" /\ change'.key # None
      BY <2>2, <2>4, <3>1, DesktopAssumption
    <3>3. /\ identity' \in 1 .. lastIdentity' /\ lastIdentity' \in 1 .. MaxIdentity
               /\ lastIdentity \in 1 .. lastIdentity'
          /\ sessionCookie' = FALSE /\ sameSession' = {"change"} /\ accessKey' = None
          /\ credentialWrites' \in Seq(CredentialOps) /\ CredentialAwaited' /\ Known(credentialWrites', lastIdentity')
      BY <1>1, <2>1, <2>4, <3>1, <3>2
    <3>4. identity' \in 0 .. lastIdentity' /\ identity' # 0
      BY <3>3
    <3>5. /\ serverUrl' \in Urls \cup {None} /\ agentUrl' \in Urls \cup {None} /\ change.at \in {"cleared", "agent"}
          /\ UNCHANGED <<keptVars, changeRest>>
      BY <2>4, <3>2 DEF BaseInv, SessionTypes
    <3>6. /\ accessKey' \in Keys \cup {None} /\ sessionCookie' \in BOOLEAN
          /\ sameSession' \in SUBSET {"refresh", "mutation", "change"} /\ sameSession' \in {{}, {"change"}}
      BY <3>3
    <3>7. QED
      BY <3>2, <3>3, <3>4, <3>5, <3>6
  <2>5. CASE /\ change.at = "agent" /\ change.op = "save" /\ agentUrl' = change.url
             /\ Login /\ change' = [change EXCEPT !.at = "auth"]
             /\ UNCHANGED <<serverUrl, keptVars, changeRest>>
    <3>1. change.key \in Keys /\ lastIdentity < MaxIdentity
      BY <2>1, <2>5 DEF BaseInv, ChangePlaced
    <3>2. change' \in ConnectionChanges /\ change'.at = "auth" /\ change'.key # None /\ change.url \in Urls
      BY <2>1, <2>2, <2>5, <3>1, DesktopAssumption
    <3>3. /\ identity' \in 1 .. lastIdentity' /\ lastIdentity' \in 1 .. MaxIdentity
               /\ lastIdentity \in 1 .. lastIdentity'
          /\ sessionCookie' = FALSE /\ sameSession' = {"change"} /\ accessKey' = None
          /\ credentialWrites' \in Seq(CredentialOps) /\ CredentialAwaited' /\ Known(credentialWrites', lastIdentity')
      BY <1>1, <2>1, <2>5, <3>1, <3>2
    <3>4. identity' \in 0 .. lastIdentity' /\ identity' # 0
      BY <3>3
    <3>5. /\ serverUrl' \in Urls \cup {None} /\ agentUrl' \in Urls \cup {None} /\ change.at \in {"cleared", "agent"}
          /\ UNCHANGED <<keptVars, changeRest>>
      BY <2>5, <3>2 DEF BaseInv, SessionTypes
    <3>6. /\ accessKey' \in Keys \cup {None} /\ sessionCookie' \in BOOLEAN
          /\ sameSession' \in SUBSET {"refresh", "mutation", "change"} /\ sameSession' \in {{}, {"change"}}
      BY <3>3
    <3>7. QED
      BY <3>2, <3>3, <3>4, <3>5, <3>6
  <2>6. CASE /\ change.at = "cleared" /\ change.op = "disconnect" /\ change' = [change EXCEPT !.at = "signout"]
             /\ UNCHANGED <<sessionVars, credentialVars, agentUrl, changeRest>>
    <3>1. CredentialAwaited'
      BY <2>1, <2>2, <2>6 DEF BaseInv, CredentialAwaited, credentialVars
    <3>2. QED
      BY <2>2, <2>6, <3>1 DEF BaseInv, SessionTypes, Identified, CredentialTypes, Known, sessionVars, credentialVars
  <2>7. QED
    BY <2>3, <2>4, <2>5, <2>6 DEF AgentAnswers
<1>3. SessionTypes'
  BY <1>2 DEF SessionTypes
<1>4. CredentialTypes'
  BY <1>2 DEF BaseInv, CredentialTypes
<1>5. CacheTypes'
  BY DEF BaseInv, CacheTypes, AgentAnswers, changeRest, cacheVars, memoryVars
<1>6. ReadTypes'
  BY DEF BaseInv, ReadTypes, AgentAnswers, changeRest, cacheVars, memoryVars, readVars
<1>7. UserTypes'
  BY <1>2 DEF BaseInv, UserTypes, changeRest
<1>8. CountTypes'
  BY DEF BaseInv, CountTypes, AgentAnswers, changeRest
<1>9. CacheAwaited'
  BY DEF BaseInv, CacheAwaited, AgentAnswers, changeRest, cacheVars
<1>10. CredentialAwaited'
  BY <1>2
<1>11. ChangePlaced'
  BY <1>2 DEF ChangePlaced
<1>12. Identified'
  BY <1>2 DEF BaseInv, Identified, Known
<1>13. ReadPlaced'
  BY <1>2 DEF BaseInv, ReadPlaced, Account, sessionVars, changeRest, cacheVars, readVars
<1>14. QED
  BY <1>3, <1>4, <1>5, <1>6, <1>7, <1>8, <1>9, <1>10, <1>11, <1>12, <1>13 DEF BaseInv

LEMMA LoginReplyTypes == ASSUME BaseInv, LoginReply PROVE BaseInv'
<1>1. UNCHANGED <<loaded, pending, blocked, sameCache, cacheWrites, cacheFile, clearReached, view, queued,
                  current, refresh, currentSnapshot, mutation, hubVersion, restarts>>
  BY DEF LoginReply, changeRest, cacheVars, memoryVars, readVars
<1>2. change \in [at : ChangePlaces, op : Changes \cup {"undo"}, key : Keys \cup {None}, url : Urls]
  BY DEF BaseInv, UserTypes, ConnectionChanges, LoginReply, Idle
<1>3. change.at = "auth" /\ change.key \in Keys /\ accessKey = None /\ identity \in 1 .. lastIdentity
        /\ identity \in Nat /\ lastIdentity' = lastIdentity
      /\ Known(credentialWrites, lastIdentity)
  BY <1>2 DEF LoginReply, BaseInv, SessionTypes, ChangePlaced, Identified, Known
<1>4. \A place \in {"undo", "storing", "stored"} :
        LET c == [change EXCEPT !.at = place]
        IN  c \in ConnectionChanges /\ c.at = place /\ c.key = change.key
  BY <1>2 DEF ConnectionChanges, ChangePlaces
<1>5. /\ change' \in ConnectionChanges /\ change'.at \in {"undo", "storing", "stored"} /\ change'.key # None
      /\ accessKey' \in {accessKey, change.key} /\ (change'.at # "undo" => accessKey' # None)
      /\ sessionCookie' \in BOOLEAN /\ unsaved' \in BOOLEAN
      /\ credentialWrites' \in Seq(CredentialOps) /\ CredentialAwaited' /\ Known(credentialWrites', lastIdentity')
  <2>1. CASE /\ accessKey' = change.key /\ sessionCookie' = TRUE
             /\ credentialWrites' = Append(credentialWrites, persistAccessKey(change.key, "change"))
             /\ change' = [change EXCEPT !.at = "storing"] /\ unsaved' = (unsaved \/ ~safeStorage)
    <3> DEFINE w == persistAccessKey(change.key, "change")
    <3>1. w \in CredentialOps /\ w.op = "save" /\ w.by = "change" /\ w.value \in Credentials
            /\ w.value.identity = identity
      <4>1. serverUrl \in Urls \cup {None}
        BY DEF BaseInv, SessionTypes
      <4>2. QED
        BY <1>3, <4>1 DEF persistAccessKey, Credential, CredentialOps, Credentials
    <3>2. credentialWrites' = Append(credentialWrites, w)
      BY <2>1
    <3> HIDE DEF w
    <3>3. credentialWrites' \in Seq(CredentialOps) /\ CredentialAwaited' /\ Known(credentialWrites', lastIdentity')
      BY <1>3, <1>4, <2>1, <3>1, <3>2, AppendAwaited, DesktopAssumption DEF BaseInv
    <3>4. QED
      BY <1>3, <1>4, <2>1, <3>3, DesktopAssumption DEF BaseInv, CredentialTypes
  <2>2. CASE /\ \/ change' = [change EXCEPT !.at = "undo"] /\ UNCHANGED <<accessKey, sessionCookie, unsaved>>
                \/ /\ change' = [change EXCEPT !.at = "stored"] /\ accessKey' = change.key /\ sessionCookie' = TRUE
                   /\ unsaved' = (unsaved \/ ~safeStorage)
             /\ UNCHANGED credentialWrites
    <3>1. CredentialAwaited'
      BY <1>3, <1>4, <2>2 DEF BaseInv, CredentialAwaited
    <3>2. QED
      BY <1>3, <1>4, <2>2, <3>1, DesktopAssumption DEF BaseInv, SessionTypes, CredentialTypes, Known
  <2>3. QED
    BY <2>1, <2>2 DEF LoginReply, BaseInv, CredentialTypes
<1>6. SessionTypes'
  BY <1>3, <1>5 DEF BaseInv, SessionTypes, LoginReply
<1>7. CredentialTypes'
  BY <1>5 DEF BaseInv, CredentialTypes, LoginReply
<1>8. UserTypes'
  BY <1>5 DEF BaseInv, UserTypes, LoginReply, changeRest
<1>9. CacheAwaited'
  BY <1>1 DEF BaseInv, CacheAwaited, LoginReply, changeRest
<1>10. CredentialAwaited'
  BY <1>5
<1>11. ChangePlaced'
  BY <1>5 DEF ChangePlaced
<1>12. Identified'
  BY <1>5 DEF BaseInv, Identified, Known, LoginReply
<1>13. ReadPlaced'
  BY <1>3, DesktopAssumption DEF BaseInv, ReadPlaced, ReadTypes, Refreshes, Account, LoginReply, changeRest,
      cacheVars, readVars, Idle
<1>14. QED
  BY <1>1, <1>6, <1>7, <1>8, <1>9, <1>10, <1>11, <1>12, <1>13, Untouched DEF BaseInv

LEMMA ChangeEndsTypes == ASSUME BaseInv, ChangeEnds PROVE BaseInv'
<1>1. UNCHANGED <<accessKey, serverUrl, sessionCookie, identity, lastIdentity, sameSession, credentialWrites,
                  keptVars, agentUrl, loaded, pending, blocked, cacheWrites, cacheFile, clearReached>>
  BY DEF ChangeEnds, sessionVars, credentialVars
<1>2. ReadTypes' /\ (refresh' = refresh \/ refresh'.at = "cache")
  <2>1. /\ SessionTypes /\ ReadTypes /\ serverUrl \in Urls \cup {None} /\ sameCache \in SUBSET {"refresh", "opener"}
    BY DEF BaseInv, SessionTypes, ReadTypes
  <2>2. ReadTypes' /\ (refresh' = refresh \/ refresh'.at = "cache")
    <3>1. CASE UNCHANGED <<readVars, sameCache>>
      BY <2>1, <3>1 DEF ReadTypes, readVars
    <3>2. CASE RefreshAt(serverUrl, Same, sameCache)
      BY <2>1, <3>2, RefreshFacts
    <3>3. QED
      BY <3>1, <3>2 DEF ChangeEnds, Refresh
  <2>3. QED
    BY <2>2
<1>3. currentSnapshot' \in Snapshots /\ change' = Idle /\ change.at = "ended"
  BY EmptyFacts DEF BaseInv, CountTypes, ChangeEnds
<1>4. ReadTypes'
  BY <1>2
<1>5. UserTypes'
  BY DEF BaseInv, UserTypes, ConnectionChanges, ChangeEnds
<1>6. CountTypes'
  BY <1>3 DEF BaseInv, CountTypes, ChangeEnds
<1>7. CacheAwaited'
  BY DEF BaseInv, CacheAwaited, ChangeEnds
<1>8. CredentialAwaited'
  BY <1>1 DEF BaseInv, CredentialAwaited, ChangeEnds
<1>9. ChangePlaced'
  BY DEF ChangePlaced, ChangeEnds, Idle
<1>10. Identified'
  BY <1>1 DEF BaseInv, Identified, ChangeEnds, Idle
<1>11. ReadPlaced'
  BY <1>1, <1>2 DEF BaseInv, ReadPlaced, Account, ChangeEnds
<1>12. QED
  BY <1>1, <1>4, <1>5, <1>6, <1>7, <1>8, <1>9, <1>10, <1>11, Untouched DEF BaseInv

LEMMA ConfigWrittenTypes == ASSUME BaseInv, ConfigWritten PROVE BaseInv'
<1>1. UNCHANGED <<accessKey, identity, lastIdentity, credentialWrites, keptVars, change>>
  BY DEF ConfigWritten, sessionVars, credentialVars
<1>2. /\ ReadTypes' /\ (refresh' = refresh \/ refresh'.at = "cache")
      /\ config' \in ConfigEdits /\ change' = change /\ agentUrl' \in Urls \cup {None}
           /\ currentSnapshot' \in Snapshots
      /\ loaded' \in Envelopes \cup {None} /\ pending' \in Envelopes \cup {None} /\ blocked' \in BOOLEAN
      /\ cacheWrites' \in Seq(CacheOps) /\ CacheAwaited'
  <2>1. /\ SessionTypes /\ ReadTypes /\ serverUrl \in Urls \cup {None} /\ sameCache \in SUBSET {"refresh", "opener"}
        /\ config \in [at : {"read", "clearing", "cleared"}, was : Urls \cup {None}] /\ config.at = "read"
        /\ agentUrl' = config.was /\ change' = change
        /\ CacheTypes /\ CacheAwaited /\ currentSnapshot \in Snapshots
    BY DEF BaseInv, SessionTypes, ReadTypes, ConfigWritten, UserTypes, ConfigEdits, Idle, CountTypes
  <2>2. CASE config.was # serverUrl
    <3>1. ClearRemote("config") /\ config' = [config EXCEPT !.at = "clearing"] /\ UNCHANGED <<view, refresh>>
      BY <2>2 DEF ConfigWritten
    <3>2. config' \in ConfigEdits /\ config'.at = "clearing"
      BY <2>1, <3>1 DEF ConfigEdits
    <3>3. current' = FALSE /\ queued' = None /\ currentSnapshot' = emptySnapshot /\ CacheClear("config")
            /\ sameCache' = {}
      BY <3>1 DEF ClearRemote
    <3>4. CacheAwaited' /\ cacheWrites' \in Seq(CacheOps) /\ blocked' = TRUE /\ loaded' = None /\ pending' = None
      BY <2>1, <3>2, <3>3, ClearAwaited
    <3>5. ReadTypes' /\ refresh' = refresh
      BY <2>1, <3>1, <3>3 DEF ReadTypes
    <3>6. QED
      BY <2>1, <3>2, <3>3, <3>4, <3>5, EmptyFacts
  <2>3. CASE config.was = serverUrl
    <3>1. /\ config' = Idle /\ UNCHANGED <<currentSnapshot, loaded, pending, blocked, cacheWrites>>
          /\ (UNCHANGED <<readVars, sameCache>> \/ RefreshAt(serverUrl, Same, sameCache))
      BY <2>3 DEF ConfigWritten, Refresh
    <3>2. ReadTypes' /\ (refresh' = refresh \/ refresh'.at = "cache")
      <4>1. CASE UNCHANGED <<readVars, sameCache>>
        BY <2>1, <4>1 DEF ReadTypes, readVars
      <4>2. CASE RefreshAt(serverUrl, Same, sameCache)
        BY <2>1, <4>2, RefreshFacts
      <4>3. QED
        BY <3>1, <4>1, <4>2
    <3>3. CacheAwaited'
      BY <2>1, <3>1 DEF CacheAwaited
    <3>4. QED
      BY <2>1, <3>1, <3>2, <3>3 DEF CacheTypes, ConfigEdits
  <2>4. QED
    BY <2>2, <2>3
<1>3. SessionTypes'
  BY <1>2 DEF BaseInv, SessionTypes, ConfigWritten, sessionVars
<1>4. CacheTypes'
  BY <1>2 DEF BaseInv, CacheTypes, ConfigWritten
<1>5. ReadTypes'
  BY <1>2
<1>6. UserTypes'
  BY <1>2 DEF BaseInv, UserTypes, ConfigWritten
<1>7. CountTypes'
  BY <1>2 DEF BaseInv, CountTypes, ConfigWritten
<1>8. CacheAwaited'
  BY <1>2
<1>9. ReadPlaced'
  BY <1>2 DEF BaseInv, ReadPlaced, Account, ConfigWritten, sessionVars
<1>10. QED
  BY <1>1, <1>3, <1>4, <1>5, <1>6, <1>7, <1>8, <1>9, Untouched DEF BaseInv

LEMMA ConfigMovesTypes == ASSUME BaseInv, ConfigMoves PROVE BaseInv'
<1>1. UNCHANGED <<accessKey, lastIdentity, loaded, pending, blocked, cacheWrites, cacheFile, clearReached,
                  currentSnapshot, change, mutation, hubVersion, restarts>>
  BY DEF ConfigMoves
<1>2. /\ serverUrl' = config.was /\ sameSession' \in SUBSET {"refresh", "mutation", "change"}
           /\ sessionCookie' \in BOOLEAN
      /\ serverUrl' \in Urls \cup {None}
      /\ serverUrl' = serverUrl => sameSession' = sameSession
      /\ serverUrl' # serverUrl => sameSession' = {}
      /\ credentialWrites' \in Seq(CredentialOps) /\ CredentialAwaited' /\ Known(credentialWrites', lastIdentity')
  <2>1. /\ SessionTypes /\ CredentialTypes /\ CredentialAwaited /\ Known(credentialWrites, lastIdentity)
             /\ lastIdentity' = lastIdentity
        /\ setServerUrl(config.was) /\ config.was \in Urls \cup {None}
             /\ (change.at \in {"storing", "removing"} => change'.at = change.at)
    BY DEF BaseInv, UserTypes, Identified, Known, ConfigEdits, Idle, ConfigMoves
  <2>2. QED
    BY <2>1, AddressMoves
<1>3. ReadTypes' /\ (refresh' = refresh \/ refresh'.at = "cache")
  <2>1. /\ SessionTypes /\ ReadTypes /\ serverUrl \in Urls \cup {None} /\ sameCache \in SUBSET {"refresh", "opener"}
        /\ config.was \in Urls \cup {None}
    BY DEF BaseInv, SessionTypes, ReadTypes, UserTypes, ConfigEdits, ConfigMoves, Idle
  <2>2. ReadTypes' /\ (refresh' = refresh \/ refresh'.at = "cache")
    <3>1. CASE UNCHANGED <<readVars, sameCache>>
      BY <2>1, <3>1 DEF ReadTypes, readVars
    <3>2. CASE RefreshAt(config.was, Same, sameCache)
      BY <2>1, <3>2, RefreshFacts
    <3>3. QED
      BY <3>1, <3>2 DEF ConfigMoves, Refresh
  <2>3. QED
    BY <2>2
<1>4. SessionTypes'
  BY <1>2 DEF BaseInv, SessionTypes, ConfigMoves
<1>5. CredentialTypes'
  BY <1>2 DEF BaseInv, CredentialTypes, ConfigMoves
<1>6. ReadTypes'
  BY <1>3
<1>7. UserTypes'
  BY DEF BaseInv, UserTypes, ConfigEdits, ConfigMoves
<1>8. CacheAwaited'
  BY DEF BaseInv, CacheAwaited, ConfigMoves
<1>9. CredentialAwaited'
  BY <1>2
<1>10. Identified'
  BY <1>2 DEF BaseInv, Identified, Known, ConfigMoves
<1>11. ReadPlaced'
  BY <1>2, <1>3 DEF BaseInv, ReadPlaced, Account, ConfigMoves
<1>12. QED
  BY <1>1, <1>4, <1>5, <1>6, <1>7, <1>8, <1>9, <1>10, <1>11, Untouched DEF BaseInv

LEMMA AddressDiscoveredTypes == ASSUME BaseInv, AddressDiscovered PROVE BaseInv'
<1>1. UNCHANGED <<accessKey, lastIdentity, loaded, pending, blocked, cacheWrites, cacheFile, clearReached,
                  currentSnapshot, opener, change, config, mutation, hubVersion, restarts>>
  BY DEF AddressDiscovered, userVars
<1>2. /\ serverUrl' = agentUrl /\ sameSession' \in SUBSET {"refresh", "mutation", "change"}
           /\ sessionCookie' \in BOOLEAN
      /\ serverUrl' \in Urls \cup {None}
      /\ serverUrl' = serverUrl => sameSession' = sameSession
      /\ serverUrl' # serverUrl => sameSession' = {}
      /\ credentialWrites' \in Seq(CredentialOps) /\ CredentialAwaited' /\ Known(credentialWrites', lastIdentity')
  <2>1. /\ SessionTypes /\ CredentialTypes /\ CredentialAwaited /\ Known(credentialWrites, lastIdentity)
             /\ lastIdentity' = lastIdentity
        /\ setServerUrl(agentUrl) /\ agentUrl \in Urls \cup {None}
             /\ (change.at \in {"storing", "removing"} => change'.at = change.at)
    BY DEF BaseInv, SessionTypes, Identified, Known, AddressDiscovered, userVars
  <2>2. QED
    BY <2>1, AddressMoves
<1>3. ReadTypes' /\ (refresh' = refresh \/ refresh'.at = "cache")
  <2>1. /\ SessionTypes /\ ReadTypes /\ serverUrl \in Urls \cup {None} /\ sameCache \in SUBSET {"refresh", "opener"}
        /\ agentUrl \in Urls \cup {None}
    BY DEF BaseInv, SessionTypes, ReadTypes
  <2>2. CASE refresh.at # "idle"
    <3>1. queued' = mergeSnapshotRequests(queued, Same) /\ UNCHANGED <<view, current, refresh, sameCache>>
      BY <2>2 DEF AddressDiscovered
    <3>2. queued' \in Views \cup {None, Same}
      BY <2>1, <3>1 DEF mergeSnapshotRequests, ReadTypes
    <3>3. QED
      BY <2>1, <3>1, <3>2 DEF ReadTypes
  <2>3. CASE UNCHANGED <<readVars, sameCache>>
    BY <2>1, <2>3 DEF ReadTypes, readVars
  <2>4. CASE RefreshAt(agentUrl, Same, sameCache)
    BY <2>1, <2>4, RefreshFacts
  <2>5. QED
    BY <2>2, <2>3, <2>4 DEF AddressDiscovered
<1>4. SessionTypes'
  BY <1>2 DEF BaseInv, SessionTypes, AddressDiscovered
<1>5. CredentialTypes'
  BY <1>2 DEF BaseInv, CredentialTypes, AddressDiscovered
<1>6. ReadTypes'
  BY <1>3
<1>7. CredentialAwaited'
  BY <1>2
<1>8. Identified'
  BY <1>1, <1>2 DEF BaseInv, Identified, Known, AddressDiscovered
<1>9. ReadPlaced'
  BY <1>2 DEF BaseInv, ReadPlaced, AddressDiscovered
<1>10. QED
  BY <1>1, <1>4, <1>5, <1>6, <1>7, <1>8, <1>9, Untouched DEF BaseInv

LEMMA ShutdownTypes == ASSUME BaseInv, Shutdown PROVE BaseInv'
<1>1. UNCHANGED <<accessKey, serverUrl, sessionCookie, identity, lastIdentity, sameSession, credentialWrites,
                  keptVars, agentUrl, opener, change, config>>
  BY DEF Shutdown, sessionVars, credentialVars, userVars
<1>2. cacheWrites' \in Seq(CacheOps) /\ CacheAwaited'
  <2>1. /\ CacheTypes /\ CacheAwaited /\ change' = change /\ config' = config
        /\ cacheWrites' \in {cacheWrites, QueueFlush(cacheWrites)}
    BY DEF BaseInv, Shutdown, userVars
  <2>2. QED
    BY <2>1, FlushQueued
<1>3. mutation' \in Mutations /\ (mutation' = mutation \/ mutation'.at = "rereading")
  BY DEF BaseInv, CountTypes, Mutations, Idle, Shutdown
<1>4. CacheTypes'
  BY <1>2 DEF BaseInv, CacheTypes, Shutdown, memoryVars
<1>5. ReadTypes'
  BY <1>1, <1>2, <1>3, DesktopAssumption DEF BaseInv, ReadTypes, SessionTypes, Refreshes, Shutdown, sessionVars,
      credentialVars, memoryVars, userVars, Idle
<1>6. CountTypes'
  BY <1>3 DEF BaseInv, CountTypes, Shutdown
<1>7. CacheAwaited'
  BY <1>2
<1>8. ReadPlaced'
  BY <1>1 DEF BaseInv, ReadPlaced, Account, Shutdown
<1>9. QED
  BY <1>1, <1>4, <1>5, <1>6, <1>7, <1>8, Untouched DEF BaseInv

LEMMA RestartTypes ==
    ASSUME BaseInv, Restart
    PROVE  BaseInv'
<1>1. /\ credentialFile = None \/ credentialFile \in Credentials
      /\ credentialFile # None => credentialFile.identity \in 1 .. lastIdentity
      /\ FirstAddress' \subseteq Urls \cup {None}
  BY DEF Restart, BaseInv, CredentialTypes, Identified, FirstAddress, Decrypted, Credentials, SessionTypes
<1>2. accessKey' \in Keys \cup {None} /\ identity' \in 0 .. lastIdentity /\ (accessKey' # None => identity' # 0)
        /\ serverUrl' \in Urls \cup {None}
  BY <1>1, DesktopAssumption DEF Restart, Decrypted, BaseInv, SessionTypes, Credentials
<1>3. /\ credentialWrites' = <<>> /\ cacheWrites' = <<>> /\ currentSnapshot' = emptySnapshot /\ mutation' = Idle
           /\ Idle.at = "idle"
      /\ change' = Idle /\ config' = Idle /\ opener' = Idle /\ refresh' = Idle
  BY DEF Restart, Fresh, Idle
<1>4. cacheWrites' \in Seq(CacheOps) /\ credentialWrites' \in Seq(CredentialOps) /\ DOMAIN cacheWrites' = {}
        /\ DOMAIN credentialWrites' = {}
  BY <1>3, EmptySeq
<1>5. SessionTypes'
  BY <1>1, <1>2, <1>3, <1>4, EmptyFacts, MutationTypes, DesktopAssumption DEF BaseInv, SessionTypes, ChangePlaced,
      UserTypes, ConnectionChanges, ChangePlaces, Restart, Fresh
<1>6. CredentialTypes'
  BY DEF BaseInv, CredentialTypes, Restart, Fresh
<1>7. CacheTypes'
  BY <1>1, <1>2, <1>3, <1>4, EmptyFacts, MutationTypes, DesktopAssumption DEF BaseInv, CacheTypes, CacheOps,
      Envelopes, Restart, Fresh
<1>8. ReadTypes'
  BY <1>1, <1>2, <1>3, <1>4, EmptyFacts, MutationTypes, DesktopAssumption DEF BaseInv, ReadTypes, SessionTypes,
      Refreshes, Restart, Fresh
<1>9. UserTypes'
  BY DEF UserTypes, Openers, ConfigEdits, ConnectionChanges, Restart, Fresh
<1>10. CountTypes'
  BY EmptyFacts, MutationTypes, DesktopAssumption DEF BaseInv, CountTypes, Restart, Fresh
<1>11. CacheAwaited'
  BY DEF CacheAwaited, Restart, Fresh
<1>12. CredentialAwaited'
  BY DEF CredentialAwaited, Restart, Fresh
<1>13. ChangePlaced'
  BY MutationTypes DEF ChangePlaced, Restart, Fresh
<1>14. Identified'
  BY <1>1, <1>2, <1>3, <1>4 DEF BaseInv, Identified, Restart
<1>15. ReadPlaced'
  BY MutationTypes DEF ReadPlaced, Restart, Fresh
<1>16. QED
  BY <1>5, <1>6, <1>7, <1>8, <1>9, <1>10, <1>11, <1>12, <1>13, <1>14, <1>15 DEF BaseInv

LEMMA InitTypes == ASSUME DesktopInit PROVE BaseInv
<1>1. credentialFile \in Credentials \cup {None} /\ (credentialFile # None => credentialFile.identity = 1)
        /\ FirstAddress \subseteq Urls \cup {None}
  BY DEF DesktopInit, Credentials, FirstAddress, Decrypted
<1>2. /\ accessKey \in Keys \cup {None} /\ serverUrl \in Urls \cup {None} /\ identity \in 0 .. 1
           /\ lastIdentity = 1 /\ 1 \in 1 .. MaxIdentity
      /\ accessKey # None => identity # 0
  BY <1>1, DesktopAssumption DEF DesktopInit, Decrypted, Credentials
<1>3. cacheWrites \in Seq(CacheOps) /\ credentialWrites \in Seq(CredentialOps) /\ DOMAIN cacheWrites = {}
        /\ DOMAIN credentialWrites = {}
  BY EmptySeq DEF DesktopInit
<1>4. SessionTypes /\ CredentialTypes
  BY <1>1, <1>2, <1>3 DEF DesktopInit, SessionTypes, CredentialTypes
<1>5. CacheTypes /\ ReadTypes /\ UserTypes
  BY <1>3 DEF DesktopInit, CacheTypes, ReadTypes, Refreshes, UserTypes, Openers, ConnectionChanges, ConfigEdits
<1>6. CountTypes
  BY EmptyFacts, MutationTypes, DesktopAssumption DEF DesktopInit, CountTypes
<1>7. CacheAwaited /\ CredentialAwaited
  BY <1>3 DEF CacheAwaited, CredentialAwaited
<1>8. ChangePlaced /\ Identified /\ ReadPlaced
  BY <1>1, <1>2, <1>3 DEF DesktopInit, ChangePlaced, Identified, ReadPlaced, Idle
<1>9. QED
  BY <1>4, <1>5, <1>6, <1>7, <1>8 DEF BaseInv
LEMMA StepTypes == ASSUME BaseInv, [DesktopNext]_desktopVars PROVE BaseInv'
<1>1. CASE DesktopNext
  <2>1. ASSUME NEW who \in {"refresh", "mutation", "live"}, SessionDenied(who) PROVE BaseInv'
    BY <2>1, SessionDeniedTypes
  <2>2. QED
    BY <1>1, <2>1, HideTypes, MutationFailsTypes, MutateTypes, ConfigReadTypes, AgentFailsTypes, SecretStoredTypes,
        SignOutTypes, SignedOutTypes, FlushEndsTypes, FlushBeginsTypes, ClearEndsTypes, CredentialWriteTypes,
        AskRefreshTypes, CacheReadTypes, ListFailsTypes, ListReadTypes, ChartReadTypes, OpenTypes, OpenedTypes,
        LoginDeniedTypes, MutationReplyTypes, ChangeStartTypes, AddressSetTypes, AgentAnswersTypes, LoginReplyTypes,
        ChangeEndsTypes, ConfigWrittenTypes, ConfigMovesTypes, AddressDiscoveredTypes, ShutdownTypes, RestartTypes
        DEF DesktopNext
<1>2. CASE UNCHANGED desktopVars
  <2>1. /\ UNCHANGED <<accessKey, serverUrl, sessionCookie, identity, lastIdentity, sameSession>>
        /\ UNCHANGED <<credentialWrites, keptVars, agentUrl, loaded, pending, blocked, sameCache, cacheWrites, cacheFile, clearReached>>
        /\ UNCHANGED <<view, queued, current, refresh, currentSnapshot, opener, change, config, mutation, hubVersion, restarts>>
    BY <1>2 DEF desktopVars, sessionVars, credentialVars, cacheVars, memoryVars, readVars, userVars
  <2>2. SessionTypes' /\ CredentialTypes' /\ CacheTypes' /\ ReadTypes' /\ UserTypes' /\ CountTypes'
    BY <2>1 DEF BaseInv, SessionTypes, CredentialTypes, CacheTypes, ReadTypes, UserTypes, CountTypes
  <2>3. CacheAwaited' /\ CredentialAwaited' /\ ChangePlaced'
    BY <2>1 DEF BaseInv, CacheAwaited, CredentialAwaited, ChangePlaced
  <2>4. Identified' /\ ReadPlaced'
    BY <2>1 DEF BaseInv, Identified, ReadPlaced, Account
  <2>5. QED
    BY <2>2, <2>3, <2>4 DEF BaseInv
<1>3. QED
  BY <1>1, <1>2

-----------------------------------------------------------------------------
(* Refreshes.  The charts of a refresh are those of the view it reads for, *)
(* and a management write that waits for its answer has a read before it   *)
(* that began after the write, or shows nothing live.                      *)

ChartsPlaced ==
    refresh.at = "charts" => /\ refresh.devices.view = view
                             /\ refresh.charts # None => refresh.charts.view = view

LiveDevices == currentSnapshot.live => currentSnapshot.devices # None

RereadOwed ==
    \/ queued # None
    \/ current /\ refresh.at \in {"cache", "list"}
    \/ /\ current /\ refresh.at = "charts" /\ refresh.devices.version >= mutation.wanted
       /\ currentSnapshot.live => currentSnapshot.devices.version >= mutation.wanted
    \/ ~current /\ ~currentSnapshot.live

RereadPlaced ==
    mutation.at = "rereading" => /\ refresh.at # "idle" /\ mutation.wanted = hubVersion
                                 /\ ~mutation.cut => RereadOwed

ReadInv == ChartsPlaced /\ ChartsFitView /\ LiveDevices /\ RereadPlaced /\ WriteIsReread

\* The read under way goes on, or one begins that no write waits for.
LEMMA ReadsKept ==
    ASSUME ReadInv, mutation' = mutation, hubVersion' = hubVersion,
           currentSnapshot' = currentSnapshot \/ ~currentSnapshot'.live,
           \/ refresh' = refresh /\ view' = view
           \/ refresh.at = "idle" /\ refresh'.at # "charts",
           \/ refresh.at = "idle"
           \/ UNCHANGED <<queued, current>>
           \/ queued' # None
           \/ current' = FALSE /\ ~currentSnapshot'.live
    PROVE  ReadInv'
<1>1. ChartsPlaced'
  BY DEF ReadInv, ChartsPlaced
<1>2. ChartsFitView' /\ LiveDevices'
  BY DEF ReadInv, ChartsFitView, LiveDevices
<1>3. RereadPlaced'
  <2>1. CASE mutation.at # "rereading" \/ mutation.cut
    BY <2>1 DEF ReadInv, RereadPlaced
  <2>2. CASE mutation.at = "rereading" /\ ~mutation.cut
    <3>1. refresh.at # "idle" /\ mutation.wanted = hubVersion /\ RereadOwed /\ refresh' = refresh
      BY <2>2 DEF ReadInv, RereadPlaced
    <3>2. RereadOwed'
      BY <3>1 DEF RereadOwed
    <3>3. QED
      BY <3>1, <3>2 DEF RereadPlaced
  <2>3. QED
    BY <2>1, <2>2
<1>4. WriteIsReread'
  BY DEF ReadInv, WriteIsReread
<1>5. QED
  BY <1>1, <1>2, <1>3, <1>4 DEF ReadInv

\* A refresh asked for by the user, or by the end of an operation.
LEMMA ReadsAsked ==
    ASSUME SessionTypes, ReadTypes, ReadInv, mutation' = mutation, hubVersion' = hubVersion,
           currentSnapshot' = currentSnapshot \/ ~currentSnapshot'.live,
           NEW url \in Urls \cup {None}, NEW r \in Views \cup {Same},
           NEW readers \in SUBSET {"refresh", "opener"}, RefreshAt(url, r, readers)
    PROVE  ReadInv'
<1>1. /\ refresh.at = "idle" => refresh'.at = "cache"
      /\ refresh.at # "idle" => /\ refresh' = refresh /\ view' = view
                                /\ UNCHANGED <<queued, current>> \/ queued' # None
  BY RefreshFacts
<1>2. QED
  BY <1>1, ReadsKept

\* A read ends, and the write that waits for it is answered, or another begins.
LEMMA ReadsEnd ==
    ASSUME SessionTypes, ReadTypes, ReadInv, hubVersion' = hubVersion,
           NEW q \in Views \cup {None, Same}, NEW readers \in SUBSET {"refresh", "opener"}, Finish(q, readers),
           ChartsFitView', LiveDevices',
           mutation.at = "rereading" /\ ~mutation.cut /\ q = None =>
               ~currentSnapshot'.live \/ currentSnapshot'.devices.version >= mutation.wanted
    PROVE  ReadInv'
<1>1. CASE q # None
  <2>1. refresh'.at = "cache" /\ current' = TRUE /\ mutation' = mutation
    BY <1>1, FinishFacts DEF ReadBegins
  <2>2. ChartsPlaced' /\ WriteIsReread'
    BY <2>1 DEF ReadInv, ChartsPlaced, WriteIsReread
  <2>3. RereadPlaced'
    BY <2>1 DEF ReadInv, RereadPlaced, RereadOwed
  <2>4. QED
    BY <2>2, <2>3 DEF ReadInv
<1>2. CASE q = None
  <2>1. refresh'.at = "idle" /\ mutation' = IF mutation.at = "rereading" THEN Reread(currentSnapshot') ELSE mutation
    BY <1>2, FinishFacts DEF ReadEnds
  <2>2. CASE mutation.at # "rereading"
    BY <2>1, <2>2 DEF ReadInv, ChartsPlaced, WriteIsReread, RereadPlaced
  <2>3. CASE mutation.at = "rereading"
    <3>1. mutation' = [at |-> "done",
                       fresh |-> mutation.cut \/ ~currentSnapshot'.live
                         \/ currentSnapshot'.devices.version >= mutation.wanted]
      BY <2>1, <2>3 DEF Reread
    <3>2. mutation'.at = "done" /\ mutation'.fresh
      BY <1>2, <2>3, <3>1
    <3>3. QED
      BY <2>1, <3>2 DEF ReadInv, ChartsPlaced, WriteIsReread, RereadPlaced
  <2>4. QED
    BY <2>2, <2>3
<1>3. QED
  BY <1>1, <1>2

LEMMA AskRefreshReads == ASSUME BaseInv, ReadInv, AskRefresh PROVE ReadInv'
<1>1. PICK r \in Views \cup {Same} : RefreshAt(serverUrl, r, sameCache)
  BY DEF AskRefresh, Refresh
<1>2. SessionTypes /\ ReadTypes /\ serverUrl \in Urls \cup {None} /\ sameCache \in SUBSET {"refresh", "opener"}
  BY DEF BaseInv, SessionTypes, ReadTypes
<1>3. mutation' = mutation /\ hubVersion' = hubVersion /\ currentSnapshot' = currentSnapshot
  BY DEF AskRefresh
<1>4. QED
  BY <1>1, <1>2, <1>3, ReadsAsked

\* The read falls back on what the cache holds, which is never live.
LEMMA FallBackReads ==
    ASSUME SessionTypes, ReadTypes, CountTypes, ReadInv, hubVersion' = hubVersion,
           NEW cached \in Snapshots \cup {None}, FallBack(cached), refresh.at # "idle"
    PROVE  ReadInv'
<1>1. (~current /\ currentSnapshot' = currentSnapshot) \/ ~currentSnapshot'.live
  BY ShownFacts, EmptyFacts DEF FallBack, ReadTypes
<1>2. /\ Finish(queued, sameCache) /\ queued \in Views \cup {None, Same}
      /\ sameCache \in SUBSET {"refresh", "opener"}
  BY DEF FallBack, ReadTypes
<1>3. ChartsFitView' /\ LiveDevices'
  BY <1>1 DEF ReadInv, ChartsFitView, LiveDevices
<1>4. mutation.at = "rereading" /\ ~mutation.cut /\ queued = None => ~currentSnapshot'.live
  BY <1>1 DEF ReadInv, RereadPlaced, RereadOwed
<1>5. QED
  BY <1>2, <1>3, <1>4, ReadsEnd

LEMMA CacheReadReads == ASSUME BaseInv, ReadInv, CacheRead PROVE ReadInv'
<1>1. /\ SessionTypes /\ ReadTypes /\ CountTypes /\ CacheTypes /\ hubVersion' = hubVersion
      /\ refresh.at = "cache" /\ refresh.scope \in Scopes \cup {None}
  BY DEF BaseInv, CacheRead, ReadTypes, Refreshes, Idle
<1>2. PICK cached \in Cached("refresh", refresh.scope) :
        IF current /\ Account # None
        THEN /\ refresh' = [at |-> "list", account |-> Account, cached |-> cached]
             /\ UNCHANGED <<view, queued, current, currentSnapshot, mutation>>
        ELSE FallBack(cached)
  BY DEF CacheRead
<1>3. cached \in Snapshots \cup {None}
  BY <1>1, CachedFacts
<1>4. CASE current /\ Account # None
  <2>1. refresh'.at = "list" /\ current /\ UNCHANGED <<view, queued, current, currentSnapshot, mutation>>
    BY <1>2, <1>4
  <2>2. ChartsPlaced' /\ ChartsFitView' /\ LiveDevices'
    BY <2>1 DEF ReadInv, ChartsPlaced, ChartsFitView, LiveDevices
  <2>3. RereadPlaced' /\ WriteIsReread'
    BY <1>1, <2>1 DEF ReadInv, RereadPlaced, RereadOwed, WriteIsReread
  <2>4. QED
    BY <2>2, <2>3 DEF ReadInv
<1>5. CASE ~(current /\ Account # None)
  <2>1. FallBack(cached)
    BY <1>2, <1>5
  <2>2. QED
    BY <1>1, <1>3, <2>1, FallBackReads
<1>6. QED
  BY <1>4, <1>5

LEMMA ListFailsReads == ASSUME BaseInv, ReadInv, ListFails PROVE ReadInv'
<1>1. /\ SessionTypes /\ ReadTypes /\ CountTypes /\ hubVersion' = hubVersion /\ FallBack(refresh.cached)
      /\ refresh.at = "list" /\ refresh.cached \in Snapshots \cup {None}
  BY DEF BaseInv, ListFails, ReadTypes, Refreshes, Idle
<1>2. QED
  BY <1>1, FallBackReads

\* A snapshot is shown whose devices were read after the write, and the reads go on.
LEMMA ContinueReads ==
    ASSUME SessionTypes, ReadTypes, CountTypes, ReadInv, hubVersion' = hubVersion, current, refresh.at # "idle",
           NEW devices \in ReadParts, NEW charts \in ReadParts \cup {None}, NEW left \in Nat,
           currentSnapshot' = [devices |-> devices, charts |-> charts, live |-> TRUE],
           Continue(devices, charts, left),
           devices.view = view, charts # None => charts.view = view,
           mutation.at = "rereading" /\ ~mutation.cut /\ queued = None => devices.version >= mutation.wanted
    PROVE  ReadInv'
<1>1. ChartsFitView' /\ LiveDevices'
  <2>1. devices # None
    BY DesktopAssumption
  <2>2. QED
    BY <2>1 DEF ChartsFitView, LiveDevices
<1>2. CASE left = 0
  <2>1. /\ Finish(queued, sameCache) /\ queued \in Views \cup {None, Same}
        /\ sameCache \in SUBSET {"refresh", "opener"}
    BY <1>2 DEF Continue, ReadTypes
  <2>2. QED
    BY <1>1, <2>1, ReadsEnd
<1>3. CASE left # 0
  <2>1. /\ refresh'.at = "charts" /\ refresh'.devices = devices /\ refresh'.charts = charts
        /\ UNCHANGED <<view, queued, current, mutation>>
    BY <1>3 DEF Continue
  <2>2. ChartsPlaced' /\ WriteIsReread'
    BY <2>1 DEF ReadInv, ChartsPlaced, WriteIsReread
  <2>3. RereadPlaced'
    BY <2>1 DEF ReadInv, RereadPlaced, RereadOwed
  <2>4. QED
    BY <1>1, <2>2, <2>3 DEF ReadInv
<1>4. QED
  BY <1>2, <1>3

LEMMA ListReadReads == ASSUME BaseInv, ReadInv, ListRead PROVE ReadInv'
<1>1. /\ SessionTypes /\ ReadTypes /\ CountTypes /\ hubVersion' = hubVersion /\ current /\ refresh.at = "list"
      /\ refresh.account \in Accounts /\ view \in Views /\ hubVersion \in Nat /\ currentSnapshot \in Snapshots
  BY DEF BaseInv, ListRead, Answered, ReadTypes, CountTypes, Refreshes, Idle
<1> DEFINE devices == Read(refresh.account)
           charts == IF currentSnapshot.live THEN ForView(currentSnapshot.charts, view) ELSE None
<1>2. PICK left \in 0 .. Charts :
        currentSnapshot' = [devices |-> devices, charts |-> charts, live |-> TRUE] /\ Continue(devices, charts, left)
  BY DEF ListRead
<1>3. devices \in ReadParts /\ devices.view = view /\ devices.version = hubVersion
  BY <1>1 DEF Read, ReadParts
<1>4. charts \in ReadParts \cup {None} /\ (charts # None => charts.view = view)
  BY <1>1 DEF ForView, Snapshots
<1> HIDE DEF devices, charts
<1>5. left \in Nat
  BY DesktopAssumption
<1>6. mutation.at = "rereading" => devices.version >= mutation.wanted
  BY <1>1, <1>3 DEF ReadInv, RereadPlaced
<1>7. QED
  BY <1>1, <1>2, <1>3, <1>4, <1>5, <1>6, ContinueReads

LEMMA ChartReadReads == ASSUME BaseInv, ReadInv, ChartRead PROVE ReadInv'
<1>1. /\ SessionTypes /\ ReadTypes /\ CountTypes /\ hubVersion' = hubVersion /\ refresh.at = "charts"
      /\ refresh.devices \in ReadParts /\ refresh.charts \in ReadParts \cup {None} /\ refresh.left \in 1 .. Charts
      /\ refresh.account \in Accounts \cup {None} /\ view \in Views /\ hubVersion \in Nat
      /\ refresh.devices.view = view /\ (refresh.charts # None => refresh.charts.view = view)
  BY DEF BaseInv, ChartRead, ReadTypes, CountTypes, Refreshes, Idle, ReadInv, ChartsPlaced
<1>2. PICK charts \in {refresh.charts} \cup (IF Answered /\ refresh.account # None
                                             THEN {Read(refresh.account)} ELSE {}) :
        IF current
        THEN /\ currentSnapshot' = [devices |-> refresh.devices, charts |-> charts, live |-> TRUE]
             /\ Continue(refresh.devices, charts, refresh.left - 1)
        ELSE UNCHANGED currentSnapshot /\ Finish(queued, sameCache)
  BY DEF ChartRead
<1>3. charts \in ReadParts \cup {None} /\ (charts # None => charts.view = view)
  <2>1. refresh.account # None => Read(refresh.account) \in ReadParts /\ Read(refresh.account).view = view
    BY <1>1 DEF Read, ReadParts
  <2>2. QED
    BY <1>1, <2>1
<1>4. CASE current
  <2>1. mutation.at = "rereading" /\ ~mutation.cut /\ queued = None => refresh.devices.version >= mutation.wanted
    BY <1>1, <1>4 DEF ReadInv, RereadPlaced, RereadOwed
  <2>2. refresh.left - 1 \in Nat
    BY <1>1, DesktopAssumption
  <2>3. currentSnapshot' = [devices |-> refresh.devices, charts |-> charts, live |-> TRUE]
          /\ Continue(refresh.devices, charts, refresh.left - 1)
    BY <1>2, <1>4
  <2>4. refresh.at # "idle"
    BY <1>1
  <2>5. QED
    BY <1>1, <1>3, <1>4, <2>1, <2>2, <2>3, <2>4, ContinueReads
<1>5. CASE ~current
  <2>1. currentSnapshot' = currentSnapshot /\ Finish(queued, sameCache)
    BY <1>2, <1>5
  <2>2. queued \in Views \cup {None, Same} /\ sameCache \in SUBSET {"refresh", "opener"}
    BY <1>1 DEF ReadTypes
  <2>3. mutation.at = "rereading" /\ ~mutation.cut /\ queued = None => ~currentSnapshot.live
    BY <1>5 DEF ReadInv, RereadPlaced, RereadOwed
  <2>4. ChartsFitView' /\ LiveDevices'
    BY <2>1 DEF ReadInv, ChartsFitView, LiveDevices
  <2>5. QED
    BY <1>1, <2>1, <2>2, <2>3, <2>4, ReadsEnd
<1>6. QED
  BY <1>4, <1>5

LEMMA OpenedReads == ASSUME BaseInv, ReadInv, Opened PROVE ReadInv'
<1>1. /\ SessionTypes /\ ReadTypes /\ CacheTypes /\ serverUrl \in Urls \cup {None} /\ opener.scope \in Scopes
      /\ opener.request \in Views \cup {Same} /\ view \in Views
           /\ sameCache \ {"opener"} \in SUBSET {"refresh", "opener"}
      /\ mutation' = mutation /\ hubVersion' = hubVersion
  BY DEF BaseInv, SessionTypes, ReadTypes, UserTypes, Opened, Openers, Idle
<1>2. PICK cached \in Cached("opener", opener.scope) :
        currentSnapshot' = IF cached = None THEN currentSnapshot
                           ELSE asCachedSnapshot(cached, IF opener.request = Same THEN view ELSE opener.request)
  BY DEF Opened
<1>3. cached \in Snapshots \cup {None}
  BY <1>1, CachedFacts
<1>4. currentSnapshot' = currentSnapshot \/ ~currentSnapshot'.live
  BY <1>1, <1>2, <1>3, ShownFacts
<1>5. CASE changing
  <2>1. UNCHANGED <<view, queued, current, refresh>>
    BY <1>5 DEF Opened, readVars
  <2>2. QED
    BY <1>1, <1>4, <2>1, ReadsKept
<1>6. CASE ~changing
  <2>1. RefreshAt(serverUrl, opener.request, sameCache \ {"opener"})
    BY <1>6 DEF Opened, Refresh
  <2>2. QED
    BY <1>1, <1>4, <2>1, ReadsAsked
<1>7. QED
  BY <1>5, <1>6

\* A write that is answered or has failed no longer waits for a read.
LEMMA ReadsAlone ==
    ASSUME ReadInv, mutation'.at \notin {"rereading", "done"}, refresh' = refresh, view' = view,
           currentSnapshot' = currentSnapshot \/ ~currentSnapshot'.live
    PROVE  ReadInv'
BY DEF ReadInv, ChartsPlaced, ChartsFitView, LiveDevices, RereadPlaced, WriteIsReread

LEMMA SessionDeniedReads ==
    ASSUME BaseInv, ReadInv, NEW who \in {"refresh", "mutation", "live"}, SessionDenied(who) PROVE ReadInv'
<1>1. SessionTypes /\ ReadTypes /\ hubVersion' = hubVersion /\ ~currentSnapshot'.live
  BY EmptyFacts DEF BaseInv, SessionDenied
<1>2. CASE who = "refresh"
  <2>1. Finish(None, {}) /\ ChartsFitView' /\ LiveDevices'
    BY <1>1, <1>2 DEF SessionDenied, ChartsFitView, LiveDevices
  <2>2. QED
    BY <1>1, <2>1, ReadsEnd
<1>3. CASE who # "refresh"
  <2>1. /\ UNCHANGED <<view, refresh>> /\ current' = FALSE
        /\ mutation' = IF who = "mutation" THEN Idle ELSE mutation
    BY <1>3 DEF SessionDenied
  <2>2. CASE who = "mutation"
    BY <1>1, <2>1, <2>2, ReadsAlone, MutationTypes
  <2>3. CASE who # "mutation"
    BY <1>1, <2>1, <2>3, ReadsKept
  <2>4. QED
    BY <2>2, <2>3
<1>4. QED
  BY <1>2, <1>3

LEMMA LoginDeniedReads == ASSUME BaseInv, ReadInv, LoginDenied PROVE ReadInv'
<1>1. /\ SessionTypes /\ ReadTypes /\ hubVersion' = hubVersion /\ ~currentSnapshot'.live
      /\ Finish(queued, {}) /\ queued \in Views \cup {None, Same}
  BY EmptyFacts DEF BaseInv, LoginDenied, ReadTypes
<1>2. ChartsFitView' /\ LiveDevices'
  BY <1>1 DEF ChartsFitView, LiveDevices
<1>3. QED
  BY <1>1, <1>2, ReadsEnd

LEMMA MutationReplyReads == ASSUME BaseInv, ReadInv, MutationReply PROVE ReadInv'
<1>1. /\ SessionTypes /\ ReadTypes /\ serverUrl \in Urls \cup {None} /\ sameCache \in SUBSET {"refresh", "opener"}
      /\ queued \in Views \cup {None, Same} /\ hubVersion' \in Nat /\ currentSnapshot' = currentSnapshot
  BY DesktopAssumption DEF BaseInv, SessionTypes, ReadTypes, CountTypes, MutationReply
<1>2. CASE "mutation" \notin sameSession
  <2>1. mutation' = Idle /\ UNCHANGED <<view, refresh>>
    BY <1>2 DEF MutationReply, readVars
  <2>2. QED
    BY <1>1, <2>1, ReadsAlone, MutationTypes
<1>3. CASE "mutation" \in sameSession /\ changing
  <2>1. mutation' = Idle /\ UNCHANGED <<view, refresh>>
    BY <1>3 DEF MutationReply, refreshAfterMutation
  <2>2. QED
    BY <1>1, <2>1, ReadsAlone, MutationTypes
<1>4. CASE "mutation" \in sameSession /\ ~changing
  <2>1. refreshAfterMutation /\ mutation' = Rereading(hubVersion')
    BY <1>4 DEF MutationReply, refreshAfterMutation
  <2>2. mutation'.at = "rereading" /\ mutation'.wanted = hubVersion' /\ ~mutation'.cut
    BY <1>1, <2>1, MutationTypes
  <2>3. mergeSnapshotRequests(queued, Same) \in Views \cup {Same}
    BY <1>1 DEF mergeSnapshotRequests
  <2>4. None \notin Views \cup {Same}
    BY DesktopAssumption
  <2>5. ChartsFitView' /\ LiveDevices' /\ WriteIsReread'
    BY <1>1, <2>2 DEF ReadInv, ChartsFitView, LiveDevices, WriteIsReread
  <2>6. CASE refresh.at # "idle"
    <3>1. UNCHANGED <<view, refresh>> /\ queued' # None
      BY <1>4, <2>1, <2>3, <2>4, <2>6 DEF refreshAfterMutation
    <3>2. ChartsPlaced' /\ RereadPlaced'
      BY <2>2, <2>6, <3>1 DEF ReadInv, ChartsPlaced, RereadPlaced, RereadOwed
    <3>3. QED
      BY <2>5, <3>2 DEF ReadInv
  <2>7. CASE refresh.at = "idle"
    <3>1. StartReadAt(serverUrl, mergeSnapshotRequests(queued, Same), sameCache)
      BY <1>4, <2>1, <2>7 DEF refreshAfterMutation, StartRead
    <3>2. refresh'.at = "cache" /\ current' = TRUE
      BY <1>1, <2>3, <3>1, StartFacts DEF ReadBegins
    <3>3. ChartsPlaced' /\ RereadPlaced'
      BY <2>2, <3>2 DEF ChartsPlaced, RereadPlaced, RereadOwed
    <3>4. QED
      BY <2>5, <3>3 DEF ReadInv
  <2>8. QED
    BY <2>6, <2>7
<1>5. QED
  BY <1>2, <1>3, <1>4

LEMMA ChangeStartReads == ASSUME BaseInv, ReadInv, ChangeStart PROVE ReadInv'
<1>1. /\ mutation' = mutation /\ hubVersion' = hubVersion /\ UNCHANGED <<view, refresh>>
      /\ current' = FALSE /\ ~currentSnapshot'.live
  BY EmptyFacts DEF ChangeStart, ClearRemote
<1>2. QED
  BY <1>1, ReadsKept

\* A step that may ask for a refresh, and changes nothing that is shown live.
LEMMA ReadsMayBeAsked ==
    ASSUME BaseInv, ReadInv, mutation' = mutation, hubVersion' = hubVersion,
           currentSnapshot' = currentSnapshot \/ ~currentSnapshot'.live, NEW url \in Urls \cup {None},
           UNCHANGED readVars \/ RefreshAt(url, Same, sameCache)
    PROVE  ReadInv'
<1>1. SessionTypes /\ ReadTypes /\ sameCache \in SUBSET {"refresh", "opener"}
  BY DEF BaseInv, ReadTypes
<1>2. CASE UNCHANGED readVars
  BY <1>2, ReadsKept DEF readVars
<1>3. CASE RefreshAt(url, Same, sameCache)
  BY <1>1, <1>3, ReadsAsked
<1>4. QED
  BY <1>2, <1>3

LEMMA ChangeEndsReads == ASSUME BaseInv, ReadInv, ChangeEnds PROVE ReadInv'
<1>1. /\ mutation' = mutation /\ hubVersion' = hubVersion /\ serverUrl \in Urls \cup {None}
      /\ currentSnapshot' = currentSnapshot \/ ~currentSnapshot'.live
      /\ UNCHANGED readVars \/ RefreshAt(serverUrl, Same, sameCache)
  BY EmptyFacts DEF ChangeEnds, Refresh, BaseInv, SessionTypes
<1>2. QED
  BY <1>1, ReadsMayBeAsked

LEMMA ConfigWrittenReads == ASSUME BaseInv, ReadInv, ConfigWritten PROVE ReadInv'
<1>1. mutation' = mutation /\ hubVersion' = hubVersion /\ serverUrl \in Urls \cup {None}
  BY DEF ConfigWritten, BaseInv, SessionTypes
<1>2. CASE config.was # serverUrl
  <2>1. UNCHANGED <<view, refresh>> /\ current' = FALSE /\ ~currentSnapshot'.live
    BY <1>2, EmptyFacts DEF ConfigWritten, ClearRemote
  <2>2. QED
    BY <1>1, <2>1, ReadsKept
<1>3. CASE config.was = serverUrl
  <2>1. currentSnapshot' = currentSnapshot /\ (UNCHANGED readVars \/ RefreshAt(serverUrl, Same, sameCache))
    BY <1>3 DEF ConfigWritten, Refresh
  <2>2. QED
    BY <1>1, <2>1, ReadsMayBeAsked
<1>4. QED
  BY <1>2, <1>3

LEMMA ConfigMovesReads == ASSUME BaseInv, ReadInv, ConfigMoves PROVE ReadInv'
<1>1. /\ mutation' = mutation /\ hubVersion' = hubVersion /\ config.was \in Urls \cup {None}
      /\ currentSnapshot' = currentSnapshot /\ (UNCHANGED readVars \/ RefreshAt(config.was, Same, sameCache))
  BY DEF ConfigMoves, BaseInv, UserTypes, ConfigEdits, Idle
<1>2. QED
  BY <1>1, ReadsMayBeAsked

LEMMA AddressDiscoveredReads == ASSUME BaseInv, ReadInv, AddressDiscovered PROVE ReadInv'
<1>1. /\ mutation' = mutation /\ hubVersion' = hubVersion /\ agentUrl \in Urls \cup {None}
      /\ currentSnapshot' = currentSnapshot /\ queued \in Views \cup {None, Same}
  BY DEF AddressDiscovered, BaseInv, SessionTypes, ReadTypes
<1>2. CASE refresh.at # "idle"
  <2>1. queued' = mergeSnapshotRequests(queued, Same) /\ UNCHANGED <<view, current, refresh>>
    BY <1>2 DEF AddressDiscovered
  <2>2. queued' # None
    BY <1>1, <2>1, DesktopAssumption DEF mergeSnapshotRequests
  <2>3. QED
    BY <1>1, <2>1, <2>2, ReadsKept
<1>3. CASE refresh.at = "idle"
  <2>1. UNCHANGED readVars \/ RefreshAt(agentUrl, Same, sameCache)
    BY <1>3 DEF AddressDiscovered
  <2>2. QED
    BY <1>1, <2>1, ReadsMayBeAsked
<1>4. QED
  BY <1>2, <1>3

\* The window is hidden, or the process shuts down: the write gets what there is.
LEMMA CutReads ==
    ASSUME BaseInv, ReadInv, Hide \/ Shutdown PROVE ReadInv'
<1>1. /\ UNCHANGED <<view, queued, refresh, currentSnapshot, hubVersion>>
      /\ mutation' = IF mutation.at = "rereading" THEN [mutation EXCEPT !.cut = TRUE] ELSE mutation
  BY DEF Hide, Shutdown
<1>2. ChartsPlaced' /\ ChartsFitView' /\ LiveDevices'
  BY <1>1 DEF ReadInv, ChartsPlaced, ChartsFitView, LiveDevices
<1>3. CASE mutation.at = "rereading"
  <2>1. mutation \in [at : {"rereading"}, wanted : Nat, cut : BOOLEAN]
    BY <1>3 DEF BaseInv, CountTypes, Mutations, Idle
  <2>2. mutation'.at = "rereading" /\ mutation'.wanted = mutation.wanted /\ mutation'.cut
    BY <1>1, <1>3, <2>1
  <2>3. RereadPlaced' /\ WriteIsReread'
    BY <1>1, <1>3, <2>2 DEF ReadInv, RereadPlaced, WriteIsReread
  <2>4. QED
    BY <1>2, <2>3 DEF ReadInv
<1>4. CASE mutation.at # "rereading"
  <2>1. RereadPlaced' /\ WriteIsReread'
    BY <1>1, <1>4 DEF ReadInv, RereadPlaced, WriteIsReread
  <2>2. QED
    BY <1>2, <2>1 DEF ReadInv
<1>5. QED
  BY <1>3, <1>4

LEMMA FreshReads == ASSUME refresh = Idle, mutation = Idle, currentSnapshot = emptySnapshot PROVE ReadInv
BY EmptyFacts, MutationTypes DEF ReadInv, ChartsPlaced, ChartsFitView, LiveDevices, RereadPlaced, WriteIsReread

LEMMA StepReads == ASSUME BaseInv, ReadInv, [DesktopNext]_desktopVars PROVE ReadInv'
<1> DEFINE still == UNCHANGED <<view, queued, current, refresh, currentSnapshot, mutation, hubVersion>>
<1>1. ASSUME still PROVE ReadInv'
  BY <1>1, ReadsKept
<1>2. CASE FlushBegins \/ FlushEnds \/ ClearEnds \/ CredentialWrite
  <2>1. still
    BY <1>2 DEF FlushBegins, FlushEnds, ClearEnds, CredentialWrite, readVars
  <2>2. QED
    BY <1>1, <2>1
<1>3. CASE SignOut \/ SignedOut \/ AddressSet \/ AgentFails \/ AgentAnswers
  <2>1. still
    BY <1>3 DEF SignOut, SignedOut, AddressSet, AgentFails, AgentAnswers, changeRest, readVars
  <2>2. QED
    BY <1>1, <2>1
<1>4. CASE LoginReply \/ SecretStored \/ ConfigRead \/ Open
  <2>1. still
    BY <1>4 DEF LoginReply, SecretStored, ConfigRead, Open, changeRest, readVars
  <2>2. QED
    BY <1>1, <2>1
<1>5. CASE UNCHANGED desktopVars
  <2>1. still
    BY <1>5 DEF desktopVars, readVars
  <2>2. QED
    BY <1>1, <2>1
<1>6. CASE Mutate \/ MutationFails
  <2>1. mutation'.at \notin {"rereading", "done"} /\ UNCHANGED <<view, refresh, currentSnapshot>>
    BY <1>6, MutationTypes DEF Mutate, MutationFails, readVars
  <2>2. QED
    BY <2>1, ReadsAlone
<1>7. CASE Restart
  <2>1. refresh' = Idle /\ mutation' = Idle /\ currentSnapshot' = emptySnapshot
    BY <1>7 DEF Restart, Fresh
  <2>2. QED
    BY <2>1, EmptyFacts, MutationTypes DEF ReadInv, ChartsPlaced, ChartsFitView, LiveDevices, RereadPlaced,
        WriteIsReread, Idle
<1>8. CASE \E who \in {"refresh", "mutation", "live"} : SessionDenied(who)
  BY <1>8, SessionDeniedReads
<1>9. CASE Hide \/ Shutdown
  BY <1>9, CutReads
<1>10. CASE AskRefresh \/ CacheRead \/ ListRead \/ ListFails \/ ChartRead \/ Opened
  BY <1>10, AskRefreshReads, CacheReadReads, ListReadReads, ListFailsReads, ChartReadReads, OpenedReads
<1>11. CASE LoginDenied \/ MutationReply \/ ChangeStart \/ ChangeEnds
  BY <1>11, LoginDeniedReads, MutationReplyReads, ChangeStartReads, ChangeEndsReads
<1>12. CASE ConfigWritten \/ ConfigMoves \/ AddressDiscovered
  BY <1>12, ConfigWrittenReads, ConfigMovesReads, AddressDiscoveredReads
<1>13. QED
  BY <1>2, <1>3, <1>4, <1>5, <1>6, <1>7, <1>8, <1>9, <1>10, <1>11, <1>12 DEF DesktopNext

-----------------------------------------------------------------------------
(* The cache.  Only the first write can be under way; once a clear blocks  *)
(* the cache nothing is left to write, except by the write under way, and  *)
(* the clear comes after that.                                             *)

WriteFirst == \A i \in DOMAIN cacheWrites : cacheWrites[i].envelope # None => i = 1

ClearLast ==
    blocked =>
        /\ pending = None
        /\ \A i \in DOMAIN cacheWrites :
            cacheWrites[i].op = "flush" => i = 1 /\ cacheWrites[i].envelope # None /\ ~cacheWrites[i].same
        /\ cacheWrites # <<>> => cacheWrites[Len(cacheWrites)].op = "clear"
        /\ cacheWrites = <<>> /\ clearReached => cacheFile = None

CacheInv == WriteFirst /\ ClearLast

LEMMA ClearOrdered ==
    ASSUME CacheTypes, CacheInv, NEW by \in {None, "change", "config"}, CacheClear(by)
    PROVE  CacheInv'
<1>1. pending' = None /\ \E at : EndsWithClear(cacheWrites', by, at)
  BY ClearFacts
<1>2. PICK at : EndsWithClear(cacheWrites', by, at)
  BY <1>1
<1> DEFINE t == cacheWrites'
           N == Len(cacheWrites')
<1>3. /\ N \in Nat \ {0} /\ DOMAIN t = 1 .. N /\ t \in Seq(CacheOps) /\ t # <<>>
      /\ t[N].op = "clear" /\ t[N].envelope = None
  BY <1>2, LenProperties, EmptySeq DEF EndsWithClear
<1>4. ASSUME NEW i \in 1 .. N - 1
      PROVE  /\ at[i] \in DOMAIN cacheWrites /\ at[i] \in Nat \ {0} /\ ~t[i].same
             /\ t[i].envelope = cacheWrites[at[i]].envelope
             /\ t[i].op = "clear" \/ t[i].envelope # None
             /\ i > 1 => at[1] < at[i] /\ at[1] \in Nat \ {0}
  <2>1. DOMAIN cacheWrites = 1 .. Len(cacheWrites) /\ Len(cacheWrites) \in Nat
    BY LenProperties DEF CacheTypes
  <2>2. \A k \in 1 .. N - 1 : at[k] \in DOMAIN cacheWrites
    BY <1>2 DEF EndsWithClear
  <2>3. \A k \in 1 .. N - 1 : at[k] \in Nat \ {0}
    BY <2>1, <2>2
  <2>4. 1 \in 1 .. N - 1
    BY <1>3
  <2>5. i > 1 => at[1] < at[i]
    BY <1>2, <2>4 DEF EndsWithClear
  <2>6. QED
    BY <1>2, <2>2, <2>3, <2>4, <2>5 DEF EndsWithClear
<1>5. ASSUME NEW i \in 1 .. N - 1, t[i].envelope # None PROVE i = 1
  <2>1. at[i] = 1
    BY <1>4, <1>5 DEF CacheInv, WriteFirst
  <2>2. i \in Nat \ {0}
    BY <1>3
  <2>3. QED
    BY <1>4, <2>1, <2>2
<1> HIDE DEF t, N
<1>6. \A i \in DOMAIN t : i = N \/ i \in 1 .. N - 1
  BY <1>3
<1>7. \A i \in DOMAIN t : t[i].envelope # None => i = 1
  BY <1>3, <1>5, <1>6
<1>8. \A i \in DOMAIN t : t[i].op = "flush" => i = 1 /\ t[i].envelope # None /\ ~t[i].same
  BY <1>3, <1>4, <1>5, <1>6
<1>9. QED
  BY <1>1, <1>3, <1>7, <1>8 DEF CacheInv, WriteFirst, ClearLast, t, N

\* A flush is queued only where nothing is cleared.
LEMMA FlushOrdered ==
    ASSUME CacheTypes, CacheInv, ~blocked', cacheWrites' = cacheWrites \/ cacheWrites' = Append(cacheWrites, FlushOp)
    PROVE  CacheInv'
<1>1. WriteFirst'
  <2>1. CASE cacheWrites' = cacheWrites
    BY <2>1 DEF CacheInv, WriteFirst
  <2>2. CASE cacheWrites' = Append(cacheWrites, FlushOp)
    <3>1. FlushOp \in CacheOps /\ FlushOp.envelope = None
      BY DEF FlushOp, CacheOps
    <3>2. /\ DOMAIN cacheWrites' = 1 .. Len(cacheWrites) + 1 /\ Len(cacheWrites) \in Nat
          /\ DOMAIN cacheWrites = 1 .. Len(cacheWrites) /\ cacheWrites'[Len(cacheWrites) + 1] = FlushOp
          /\ \A i \in 1 .. Len(cacheWrites) : cacheWrites'[i] = cacheWrites[i]
      BY <2>2, <3>1, AppendProperties, LenProperties DEF CacheTypes
    <3>3. QED
      BY <3>1, <3>2 DEF CacheInv, WriteFirst
  <2>3. QED
    BY <2>1, <2>2
<1>2. QED
  BY <1>1 DEF CacheInv, ClearLast

\* Under a clear the first write of the queue is not the last.
LEMMA TailOrdered ==
    ASSUME CacheTypes, CacheInv, cacheWrites # <<>>, cacheWrites' = Tail(cacheWrites)
    PROVE  /\ WriteFirst'
           /\ blocked => /\ \A i \in DOMAIN cacheWrites' : cacheWrites'[i].op # "flush"
                         /\ cacheWrites' # <<>> => cacheWrites'[Len(cacheWrites')].op = "clear"
                         /\ cacheWrites' = <<>> => Head(cacheWrites).op = "clear"
<1> DEFINE N == Len(cacheWrites)
           t == cacheWrites'
<1>1. /\ t \in Seq(CacheOps) /\ Head(cacheWrites) = cacheWrites[1] /\ N \in Nat \ {0} /\ DOMAIN cacheWrites = 1 .. N
      /\ DOMAIN t = 1 .. N - 1
      /\ \A i \in DOMAIN t : i + 1 \in DOMAIN cacheWrites /\ t[i] = cacheWrites[i + 1] /\ i + 1 # 1
  BY TailFacts DEF CacheTypes
<1>2. Len(t) = N - 1
  BY <1>1, LenProperties
<1>3. WriteFirst'
  BY <1>1 DEF CacheInv, WriteFirst
<1>4. ASSUME blocked, NEW i \in DOMAIN t PROVE t[i].op # "flush"
  BY <1>1, <1>4 DEF CacheInv, ClearLast
<1>5. ASSUME blocked, t # <<>> PROVE t[Len(t)].op = "clear"
  <2>1. N - 1 \in DOMAIN t
    BY <1>1, <1>2, <1>5, EmptySeq
  <2>2. t[N - 1] = cacheWrites[N]
    BY <1>1, <2>1
  <2>3. QED
    BY <1>2, <1>5, <2>2 DEF CacheInv, ClearLast
<1>6. ASSUME blocked, t = <<>> PROVE Head(cacheWrites).op = "clear"
  <2>0. Len(t) = 0
    BY <1>6, EmptySeq
  <2> HIDE DEF t, N
  <2>1. N = 1
    BY <1>1, <1>2, <2>0
  <2>2. QED
    BY <1>1, <1>6, <2>1 DEF CacheInv, ClearLast, N
<1>7. QED
  BY <1>3, <1>4, <1>5, <1>6

LEMMA FlushBeginsOrdered == ASSUME BaseInv, CacheInv, FlushBegins PROVE CacheInv'
<1>1. /\ CacheTypes /\ cacheWrites # <<>> /\ blocked' = blocked /\ cacheWrites \in Seq(CacheOps)
      /\ Head(cacheWrites).op = "flush" /\ Head(cacheWrites).envelope = None
  BY DEF BaseInv, CacheTypes, FlushBegins
<1>2. 1 \in DOMAIN cacheWrites /\ Head(cacheWrites) = cacheWrites[1]
  BY <1>1, TailFacts
<1>3. ~blocked
  BY <1>1, <1>2 DEF CacheInv, ClearLast
<1>4. CASE pending = None
  <2>1. cacheWrites' = Tail(cacheWrites)
    BY <1>4 DEF FlushBegins
  <2>2. QED
    BY <1>1, <1>3, <2>1, TailOrdered DEF CacheInv, ClearLast
<1>5. CASE pending # None
  <2>1. DOMAIN cacheWrites' = DOMAIN cacheWrites /\ \A i \in DOMAIN cacheWrites : i # 1
          => cacheWrites'[i] = cacheWrites[i]
    BY <1>1, <1>5 DEF FlushBegins
  <2>2. QED
    BY <1>1, <1>3, <2>1 DEF CacheInv, ClearLast, WriteFirst
<1>6. QED
  BY <1>4, <1>5

LEMMA FlushEndsOrdered == ASSUME BaseInv, CacheInv, FlushEnds PROVE CacheInv'
<1>1. /\ CacheTypes /\ cacheWrites # <<>> /\ blocked' = blocked /\ cacheWrites \in Seq(CacheOps)
      /\ Head(cacheWrites).op = "flush" /\ cacheWrites' = Tail(cacheWrites)
  BY DEF BaseInv, CacheTypes, FlushEnds
<1>2. 1 \in DOMAIN cacheWrites /\ Head(cacheWrites) = cacheWrites[1]
  BY <1>1, TailFacts
<1>3. WriteFirst'
  BY <1>1, TailOrdered
<1>4. ASSUME blocked
      PROVE  /\ pending' = None /\ cacheWrites' # <<>> /\ cacheWrites'[Len(cacheWrites')].op = "clear"
             /\ \A i \in DOMAIN cacheWrites' : cacheWrites'[i].op # "flush"
  <2>1. pending = None /\ ~Head(cacheWrites).same
    BY <1>1, <1>2, <1>4 DEF CacheInv, ClearLast
  <2>2. pending' = None
    BY <2>1 DEF FlushEnds
  <2>3. QED
    BY <1>1, <1>4, <2>2, TailOrdered
<1>5. QED
  BY <1>1, <1>3, <1>4 DEF CacheInv, ClearLast

LEMMA ClearEndsOrdered == ASSUME BaseInv, CacheInv, ClearEnds PROVE CacheInv'
<1>1. /\ CacheTypes /\ cacheWrites # <<>> /\ blocked' = blocked /\ cacheWrites' = Tail(cacheWrites)
           /\ pending' = pending
      /\ clearReached' => cacheFile' = None
  BY DEF BaseInv, ClearEnds, memoryVars
<1>2. WriteFirst'
  BY <1>1, TailOrdered
<1>3. ASSUME blocked
      PROVE  /\ pending' = None /\ (cacheWrites' # <<>> => cacheWrites'[Len(cacheWrites')].op = "clear")
             /\ \A i \in DOMAIN cacheWrites' : cacheWrites'[i].op # "flush"
  BY <1>1, <1>3, TailOrdered DEF CacheInv, ClearLast
<1>4. QED
  BY <1>1, <1>2, <1>3 DEF CacheInv, ClearLast

\* What a read publishes is stored in memory, and perhaps queued for the file.
LEMMA StoredOrdered ==
    ASSUME BaseInv, CacheInv, ListRead \/ ChartRead PROVE CacheInv'
<1> DEFINE unread == UNCHANGED <<pending, blocked, cacheWrites>>
<1>1. /\ SessionTypes /\ CacheTypes /\ CacheAwaited /\ change' = change /\ config' = config
      /\ UNCHANGED <<cacheFile, clearReached>> /\ BaseInv'
  <2>1. SessionTypes /\ CacheTypes /\ CacheAwaited
    BY DEF BaseInv
  <2>2. BaseInv'
    BY ListReadTypes, ChartReadTypes
  <2>3. QED
    BY <2>1, <2>2 DEF ListRead, ChartRead, userVars
<1>2. unread \/ CacheWrite(currentSnapshot')
  BY DEF ListRead, ChartRead
<1>3. currentSnapshot' \in Snapshots
  BY <1>1 DEF BaseInv, CountTypes
<1>4. unread \/ (~blocked' /\ (cacheWrites' = cacheWrites \/ cacheWrites' = Append(cacheWrites, FlushOp)))
  <2>1. CASE CacheWrite(currentSnapshot')
    BY <1>1, <1>3, <2>1, WriteFacts
  <2>2. QED
    BY <1>2, <2>1
<1>5. CASE unread
  BY <1>1, <1>5 DEF CacheInv, WriteFirst, ClearLast
<1>6. QED
  BY <1>1, <1>4, <1>5, FlushOrdered

LEMMA StepOrdered == ASSUME BaseInv, CacheInv, [DesktopNext]_desktopVars PROVE CacheInv'
<1> DEFINE still == UNCHANGED <<pending, blocked, cacheWrites, cacheFile, clearReached>>
<1>1. ASSUME still PROVE CacheInv'
  BY <1>1 DEF CacheInv, WriteFirst, ClearLast
<1>2. CacheTypes
  BY DEF BaseInv
<1>3. CASE FlushBegins \/ FlushEnds \/ ClearEnds \/ ListRead \/ ChartRead
  BY <1>3, FlushBeginsOrdered, FlushEndsOrdered, ClearEndsOrdered, StoredOrdered
<1>4. CASE CredentialWrite \/ AskRefresh \/ Hide \/ CacheRead \/ ListFails \/ Open \/ Opened \/ UNCHANGED desktopVars
  <2>1. still
    BY <1>4 DEF CredentialWrite, AskRefresh, Hide, CacheRead, ListFails, Open, Opened, cacheVars, memoryVars,
        desktopVars
  <2>2. QED
    BY <1>1, <2>1
<1>5. CASE Mutate \/ MutationReply \/ MutationFails \/ ChangeEnds \/ ConfigRead \/ ConfigMoves \/ AddressDiscovered
  <2>1. still
    BY <1>5 DEF Mutate, MutationReply, MutationFails, ChangeEnds, ConfigRead, ConfigMoves, AddressDiscovered,
        cacheVars, memoryVars
  <2>2. QED
    BY <1>1, <2>1
<1>6. CASE SignOut \/ SignedOut \/ AddressSet \/ AgentFails \/ AgentAnswers \/ LoginReply \/ SecretStored
  <2>1. still
    BY <1>6 DEF SignOut, SignedOut, AddressSet, AgentFails, AgentAnswers, LoginReply, SecretStored, changeRest,
        cacheVars, memoryVars
  <2>2. QED
    BY <1>1, <2>1
<1>7. CASE (\E who \in {"refresh", "mutation", "live"} : SessionDenied(who)) \/ LoginDenied \/ ChangeStart
  <2>1. CacheClear(None) \/ CacheClear("change")
    BY <1>7 DEF SessionDenied, LoginDenied, ChangeStart, ClearRemote
  <2>2. QED
    BY <1>2, <2>1, ClearOrdered
<1>8. CASE ConfigWritten
  <2>1. CacheClear("config") \/ still
    BY <1>8 DEF ConfigWritten, ClearRemote
  <2>2. QED
    BY <1>1, <1>2, <2>1, ClearOrdered
<1>9. CASE Shutdown
  <2>1. ~blocked' /\ (cacheWrites' = cacheWrites \/ cacheWrites' = Append(cacheWrites, FlushOp))
    BY <1>9 DEF Shutdown, CacheInv, ClearLast, QueueFlush, FlushOp, memoryVars
  <2>2. QED
    BY <1>2, <2>1, FlushOrdered
<1>10. CASE Restart
  <2>1. blocked' = FALSE /\ cacheWrites' = <<>>
    BY <1>10 DEF Restart, Fresh
  <2>2. QED
    BY <2>1, EmptySeq DEF CacheInv, WriteFirst, ClearLast
<1>11. QED
  BY <1>3, <1>4, <1>5, <1>6, <1>7, <1>8, <1>9, <1>10 DEF DesktopNext

-----------------------------------------------------------------------------
(* Accounts.  What is shown, read or cached is of the account it is held   *)
(* for.  While the connection changes nothing is shown and no read is      *)
(* wanted; neither is one while an edit waits for the cache to be cleared. *)

\* A step without the overlaps that late and swapped record.
NoLateDiscovery == changing /\ queued = None => queued' = None
Quiet == config'.at \in {"clearing", "cleared"} => ~current'

ChangeBlank ==
    changing => /\ ~current /\ queued = None
                /\ Parts(currentSnapshot) = {} /\ "opener" \notin sameCache

EditBlank ==
    config.at \in {"clearing", "cleared"} =>
        /\ ~current /\ blocked
        /\ Parts(currentSnapshot) = {} /\ "opener" \notin sameCache

OpenerOwn == opener.at = "cache" /\ "opener" \in sameCache => opener.scope = cacheScope

RefreshOwn ==
    current =>
        /\ refresh.at # "idle"
        /\ refresh.at = "cache" => refresh.scope \in {None, cacheScope}
        /\ refresh.at \in {"list", "charts"} => refresh.account = Account
        /\ refresh.at = "list" /\ refresh.cached # None =>
              \A part \in Parts(refresh.cached) : part.account = Account
        /\ refresh.at = "charts" => /\ refresh.devices.account = Account
                                    /\ refresh.charts # None => refresh.charts.account = Account

OwnInv == ChangeBlank /\ EditBlank /\ OpenerOwn /\ RefreshOwn /\ ShownIsOwn

\* An identity is one key's, whoever is signed in now: the key that is tried
\* or in use, what the credential file records, and the scopes of the cache.
KeyInUse == IF change.at = "auth" THEN change.key ELSE accessKey
Held == {cacheFile, pending, loaded} \cup {cacheWrites[i].envelope : i \in DOMAIN cacheWrites}
Recorded == {credentialFile} \cup {credentialWrites[i].value : i \in DOMAIN credentialWrites}

Owned(owner, e) ==
    e.snapshot # None =>
        /\ e.scope[2] \in DOMAIN owner
        /\ \A part \in Parts(e.snapshot) : part.account = <<e.scope[1], owner[e.scope[2]]>>

OwnedBy(owner) ==
    /\ KeyInUse # None => owner[identity] = KeyInUse
    /\ \A c \in Recorded \ {None} : owner[c.identity] = c.key
    /\ \A e \in Held \ {None} : Owned(owner, e)

ScopeInv == \E owner \in [1 .. lastIdentity -> Keys \cup {None}] : OwnedBy(owner)

\* What the cache holds under the present scope is of the present account.
LEMMA HeldIsOwn ==
    ASSUME BaseInv, ScopeInv, NEW e \in Held, e # None, e.snapshot # None,
           cacheScope # None, e.scope = cacheScope
    PROVE  \A part \in Parts(e.snapshot) : part.account = Account
<1>1. PICK owner \in [1 .. lastIdentity -> Keys \cup {None}] : OwnedBy(owner)
  BY DEF ScopeInv
<1>2. SessionTypes /\ ChangePlaced /\ serverUrl \in Urls \cup {None}
  BY DEF BaseInv, SessionTypes
<1>3. /\ accessKey # None /\ Account = <<serverUrl, accessKey>>
      /\ cacheScope[1] = serverUrl /\ cacheScope[2] = identity
  <2>1. accessKey \in Keys
    BY <1>2, ScopeTypes
  <2>2. QED
    BY <1>2, <2>1, ScopeTypes, DesktopAssumption
<1>4. KeyInUse = accessKey
  BY <1>2, <1>3 DEF KeyInUse, ChangePlaced
<1>5. QED
  BY <1>1, <1>3, <1>4 DEF OwnedBy, Owned

LEMMA OwnCached ==
    ASSUME BaseInv, ScopeInv, NEW who, NEW cached \in Cached(who, cacheScope), cached # None
    PROVE  \A part \in Parts(cached) : part.account = Account
<1>1. SessionTypes /\ CacheTypes /\ serverUrl \in Urls \cup {None}
  BY DEF BaseInv, SessionTypes
<1>2. cacheScope \in Scopes \cup {None}
  BY <1>1, ScopeTypes DEF cacheScope
<1>3. PICK held \in {loaded, cacheFile} : held # None /\ held.scope = cacheScope /\ held.snapshot = cached
        /\ cacheScope \in Scopes
  BY <1>1, <1>2, CachedFacts
<1>4. held \in Held /\ cacheScope # None
  BY <1>3, DesktopAssumption DEF Held
<1>5. QED
  BY <1>3, <1>4, HeldIsOwn

LEMMA AccountKept ==
    ASSUME UNCHANGED <<accessKey, serverUrl, identity>>
    PROVE  Account' = Account /\ cacheScope' = cacheScope
BY DEF Account, cacheScope, ScopeAt

\* A step that changes neither account nor connection.
LEMMA OwnKept ==
    ASSUME OwnInv, UNCHANGED <<accessKey, serverUrl, identity>>, change' = change \/ (changing' => changing),
           changing => queued' = None /\ current' = FALSE,
           EditBlank', RefreshOwn',
           "opener" \in sameCache' /\ opener'.at = "cache" => "opener" \in sameCache /\ opener' = opener,
           changing => Parts(currentSnapshot') \subseteq Parts(currentSnapshot)
             /\ ("opener" \in sameCache' => "opener" \in sameCache),
           \A part \in Parts(currentSnapshot') : part \in Parts(currentSnapshot) \/ part.account = Account
    PROVE  OwnInv'
<1>1. Account' = Account /\ cacheScope' = cacheScope
  BY AccountKept
<1>2. changing' => changing
  BY DEF changing
<1>3. ChangeBlank'
  BY <1>2 DEF OwnInv, ChangeBlank
<1>4. OpenerOwn'
  BY <1>1 DEF OwnInv, OpenerOwn
<1>5. ShownIsOwn'
  BY <1>1 DEF OwnInv, ShownIsOwn
<1>6. QED
  BY <1>3, <1>4, <1>5 DEF OwnInv

\* A refresh is asked for, under the scope of the address it reads from.
LEMMA RefreshIsOwn ==
    ASSUME SessionTypes, ReadTypes, RefreshOwn, UNCHANGED <<accessKey, serverUrl, identity>>,
           NEW r \in Views \cup {Same}, NEW readers \in SUBSET {"refresh", "opener"}, RefreshAt(serverUrl, r, readers)
    PROVE  /\ RefreshOwn' /\ ("opener" \in sameCache' <=> "opener" \in readers)
           /\ refresh.at = "idle" => refresh'.at # "idle"
           /\ refresh.at # "idle" /\ r = Same => current' = current /\ queued' = queued
<1>1. serverUrl \in Urls \cup {None}
  BY DEF SessionTypes
<1>2. /\ refresh.at = "idle" => ReadBegins(serverUrl, readers) /\ refresh'.at = "cache"
           /\ refresh'.scope = ScopeAt(serverUrl)
      /\ refresh.at # "idle" =>
           /\ refresh' = refresh /\ view' = view /\ sameCache' = readers
           /\ \/ current' = current /\ queued' = queued
              \/ current' = FALSE /\ queued' # None /\ r # Same
  BY <1>1, RefreshFacts
<1>3. Account' = Account /\ cacheScope' = cacheScope
  BY AccountKept
<1>4. CASE refresh.at = "idle"
  <2>1. RefreshOwn'
    BY <1>2, <1>3, <1>4 DEF RefreshOwn, cacheScope
  <2>2. QED
    BY <1>2, <1>4, <2>1 DEF ReadBegins
<1>5. CASE refresh.at # "idle"
  <2>1. refresh' = refresh /\ (current' = current \/ current' = FALSE)
    BY <1>2, <1>5
  <2>2. RefreshOwn'
    BY <1>3, <2>1 DEF RefreshOwn
  <2>3. QED
    BY <1>2, <1>5, <2>2
<1>6. QED
  BY <1>4, <1>5

\* A read ends, or another begins under the present scope.
LEMMA FinishIsOwn ==
    ASSUME SessionTypes, ReadTypes, UNCHANGED <<accessKey, serverUrl, identity>>,
           NEW q \in Views \cup {None, Same}, NEW readers \in SUBSET {"refresh", "opener"}, Finish(q, readers)
    PROVE  /\ RefreshOwn' /\ ("opener" \in sameCache' <=> "opener" \in readers)
           /\ q = None => current' = FALSE /\ queued' = None /\ refresh'.at = "idle"
<1>1. Account' = Account /\ cacheScope' = cacheScope
  BY AccountKept
<1>2. CASE q = None
  <2>1. ReadEnds(readers) /\ refresh'.at = "idle"
    BY <1>2, FinishFacts
  <2>2. QED
    BY <1>2, <2>1 DEF ReadEnds, RefreshOwn
<1>3. CASE q # None
  <2>1. ReadBegins(serverUrl, readers) /\ refresh'.at = "cache"
    BY <1>3, FinishFacts
  <2>2. refresh'.scope = ScopeAt(serverUrl)
    BY <2>1 DEF ReadBegins
  <2>3. RefreshOwn'
    BY <1>1, <2>1, <2>2 DEF RefreshOwn, cacheScope
  <2>4. QED
    BY <1>3, <2>1, <2>3 DEF ReadBegins
<1>4. QED
  BY <1>2, <1>3

\* What the cache held for the read is shown.
LEMMA FallBackOwn ==
    ASSUME SessionTypes, ReadTypes, OwnInv, UNCHANGED <<accessKey, serverUrl, identity, opener, change, config, blocked>>,
           Quiet, refresh.at # "idle", NEW cached \in Snapshots \cup {None}, FallBack(cached),
           current /\ cached # None => \A part \in Parts(cached) : part.account = Account
    PROVE  OwnInv'
<1>1. /\ Finish(queued, sameCache) /\ queued \in Views \cup {None, Same} /\ sameCache \in SUBSET {"refresh", "opener"}
      /\ view \in Views
  BY DEF FallBack, ReadTypes
<1>2. /\ RefreshOwn' /\ ("opener" \in sameCache' <=> "opener" \in sameCache)
      /\ queued = None => current' = FALSE /\ queued' = None
  BY <1>1, FinishIsOwn
<1>3. \A part \in Parts(currentSnapshot') : part \in Parts(currentSnapshot) \/ (current /\ part.account = Account)
  BY <1>1, ShownFacts, EmptyFacts DEF FallBack
<1>4. EditBlank'
  BY <1>2, <1>3 DEF OwnInv, EditBlank, Quiet
<1>5. changing => queued' = None /\ current' = FALSE /\ ~current
  BY <1>2 DEF OwnInv, ChangeBlank
<1>6. QED
  BY <1>2, <1>3, <1>4, <1>5, OwnKept

LEMMA CacheReadOwn == ASSUME BaseInv, OwnInv, Quiet, ScopeInv, CacheRead PROVE OwnInv'
<1>1. /\ SessionTypes /\ ReadTypes /\ CacheTypes
           /\ UNCHANGED <<accessKey, serverUrl, identity, opener, change, config, blocked>>
      /\ refresh.at = "cache" /\ refresh.scope \in Scopes \cup {None}
  BY DEF BaseInv, CacheRead, ReadTypes, Refreshes, Idle, userVars
<1>2. PICK cached \in Cached("refresh", refresh.scope) :
        IF current /\ Account # None
        THEN /\ refresh' = [at |-> "list", account |-> Account, cached |-> cached]
             /\ sameCache' = sameCache \ {"refresh"}
             /\ UNCHANGED <<view, queued, current, currentSnapshot, mutation>>
        ELSE FallBack(cached)
  BY DEF CacheRead
<1>3. cached \in Snapshots \cup {None}
  BY <1>1, CachedFacts
<1>4. current /\ cached # None => \A part \in Parts(cached) : part.account = Account
  <2>1. ASSUME current, cached # None PROVE refresh.scope = cacheScope
    BY <1>1, <2>1, CachedFacts, DesktopAssumption DEF OwnInv, RefreshOwn
  <2>2. QED
    BY <2>1, OwnCached
<1>5. CASE current /\ Account # None
  <2>1. /\ refresh'.at = "list" /\ refresh'.account = Account /\ refresh'.cached = cached
        /\ sameCache' = sameCache \ {"refresh"} /\ UNCHANGED <<queued, current, currentSnapshot>>
    BY <1>2, <1>5
  <2>2. RefreshOwn'
    <3>1. Account' = Account
      BY <1>1, AccountKept
    <3>2. QED
      BY <1>4, <1>5, <2>1, <3>1 DEF RefreshOwn
  <2>3. EditBlank' /\ ~changing
    BY <1>1, <1>5 DEF OwnInv, EditBlank, ChangeBlank
  <2>4. QED
    BY <1>1, <2>1, <2>2, <2>3, OwnKept
<1>6. CASE ~(current /\ Account # None)
  <2>1. FallBack(cached) /\ refresh.at # "idle"
    BY <1>1, <1>2, <1>6
  <2>2. QED
    BY <1>1, <1>3, <1>4, <2>1, FallBackOwn
<1>7. QED
  BY <1>5, <1>6

LEMMA ListFailsOwn == ASSUME BaseInv, OwnInv, Quiet, ListFails PROVE OwnInv'
<1>1. /\ SessionTypes /\ ReadTypes /\ UNCHANGED <<accessKey, serverUrl, identity, opener, change, config, blocked>>
      /\ refresh.at = "list" /\ refresh.cached \in Snapshots \cup {None} /\ FallBack(refresh.cached)
           /\ refresh.at # "idle"
      /\ current /\ refresh.cached # None => \A part \in Parts(refresh.cached) : part.account = Account
  BY DEF BaseInv, ListFails, ReadTypes, Refreshes, Idle, userVars, OwnInv, RefreshOwn
<1>2. QED
  BY <1>1, FallBackOwn

\* A snapshot of the present account is published, and the reads go on.
LEMMA ContinueOwn ==
    ASSUME SessionTypes, ReadTypes, OwnInv, UNCHANGED <<accessKey, serverUrl, identity, opener, change, config>>,
           current, NEW devices \in ReadParts, NEW charts \in ReadParts \cup {None}, NEW left,
           devices.account = Account, charts # None => charts.account = Account,
           currentSnapshot' = [devices |-> devices, charts |-> charts, live |-> TRUE],
           Continue(devices, charts, left)
    PROVE  OwnInv'
<1>1. ~changing /\ config.at \notin {"clearing", "cleared"}
  BY DEF OwnInv, ChangeBlank, EditBlank, RefreshOwn
<1>2. \A part \in Parts(currentSnapshot') : part.account = Account
  BY DEF Parts
<1>3. RefreshOwn' /\ ("opener" \in sameCache' => "opener" \in sameCache)
  <2>1. CASE left = 0
    <3>1. Finish(queued, sameCache) /\ queued \in Views \cup {None, Same}
            /\ sameCache \in SUBSET {"refresh", "opener"}
      BY <2>1 DEF Continue, ReadTypes
    <3>2. QED
      BY <3>1, FinishIsOwn
  <2>2. CASE left # 0
    <3>1. /\ refresh'.at = "charts" /\ refresh'.account = Account /\ refresh'.devices = devices
               /\ refresh'.charts = charts
          /\ sameCache' = sameCache
      BY <2>2 DEF Continue
    <3>2. Account' = Account
      BY AccountKept
    <3>3. QED
      BY <3>1, <3>2 DEF RefreshOwn
  <2>3. QED
    BY <2>1, <2>2
<1>4. EditBlank'
  BY <1>1 DEF EditBlank
<1>5. QED
  BY <1>1, <1>2, <1>3, <1>4, OwnKept

LEMMA ListReadOwn == ASSUME BaseInv, OwnInv, ListRead PROVE OwnInv'
<1>1. /\ SessionTypes /\ ReadTypes /\ CountTypes /\ current /\ refresh.at = "list"
      /\ UNCHANGED <<accessKey, serverUrl, identity, opener, change, config>>
      /\ refresh.account \in Accounts /\ view \in Views /\ hubVersion \in Nat /\ currentSnapshot \in Snapshots
      /\ refresh.account = Account
  BY DEF BaseInv, ListRead, Answered, ReadTypes, CountTypes, Refreshes, Idle, userVars, OwnInv, RefreshOwn
<1> DEFINE devices == Read(refresh.account)
           charts == IF currentSnapshot.live THEN ForView(currentSnapshot.charts, view) ELSE None
<1>2. PICK left \in 0 .. Charts :
        currentSnapshot' = [devices |-> devices, charts |-> charts, live |-> TRUE] /\ Continue(devices, charts, left)
  BY DEF ListRead
<1>3. devices \in ReadParts /\ devices.account = Account
  BY <1>1 DEF Read, ReadParts
<1>4. charts \in ReadParts \cup {None} /\ (charts # None => charts.account = Account)
  BY <1>1 DEF ForView, Snapshots, OwnInv, ShownIsOwn, Parts
<1> HIDE DEF devices, charts
<1>5. QED
  BY <1>1, <1>2, <1>3, <1>4, ContinueOwn

\* The chart that a refresh ends up with is of the account it reads for.
LEMMA ChartsAreOwn ==
    ASSUME BaseInv, RefreshOwn, ChartRead
    PROVE  /\ UNCHANGED <<accessKey, serverUrl, identity, opener, change, config>>
           /\ refresh.devices \in ReadParts /\ (current => refresh.devices.account = Account)
           /\ \E charts \in ReadParts \cup {None} :
                /\ current /\ charts # None => charts.account = Account
                /\ IF current
                   THEN /\ currentSnapshot' = [devices |-> refresh.devices, charts |-> charts, live |-> TRUE]
                        /\ CacheWrite(currentSnapshot')
                        /\ Continue(refresh.devices, charts, refresh.left - 1)
                   ELSE UNCHANGED <<currentSnapshot, loaded, pending, blocked, cacheWrites>>
                     /\ Finish(queued, sameCache)
<1>1. /\ refresh.at = "charts" /\ refresh.devices \in ReadParts /\ refresh.charts \in ReadParts \cup {None}
      /\ refresh.account \in Accounts \cup {None} /\ view \in Views /\ hubVersion \in Nat
      /\ UNCHANGED <<accessKey, serverUrl, identity, opener, change, config>>
      /\ current => /\ refresh.account = Account /\ refresh.devices.account = Account
                    /\ refresh.charts # None => refresh.charts.account = Account
  BY DEF BaseInv, ChartRead, ReadTypes, CountTypes, Refreshes, Idle, userVars, RefreshOwn
<1>2. PICK charts \in {refresh.charts} \cup (IF Answered /\ refresh.account # None
                                             THEN {Read(refresh.account)} ELSE {}) :
        IF current
        THEN /\ currentSnapshot' = [devices |-> refresh.devices, charts |-> charts, live |-> TRUE]
             /\ CacheWrite(currentSnapshot')
             /\ Continue(refresh.devices, charts, refresh.left - 1)
        ELSE UNCHANGED <<currentSnapshot, loaded, pending, blocked, cacheWrites>> /\ Finish(queued, sameCache)
  BY DEF ChartRead
<1>3. refresh.account # None => Read(refresh.account) \in ReadParts /\ Read(refresh.account).account = refresh.account
  BY <1>1 DEF Read, ReadParts
<1>4. charts \in ReadParts \cup {None} /\ (current /\ charts # None => charts.account = Account)
  BY <1>1, <1>3
<1>5. QED
  BY <1>1, <1>2, <1>4

LEMMA ChartReadOwn == ASSUME BaseInv, OwnInv, Quiet, ChartRead PROVE OwnInv'
<1>1. SessionTypes /\ ReadTypes /\ RefreshOwn /\ refresh.at = "charts"
  BY DEF BaseInv, OwnInv, ChartRead
<1>2. /\ UNCHANGED <<accessKey, serverUrl, identity, opener, change, config>>
      /\ refresh.devices \in ReadParts /\ (current => refresh.devices.account = Account)
  BY <1>1, ChartsAreOwn
<1>3. PICK charts \in ReadParts \cup {None} :
        /\ current /\ charts # None => charts.account = Account
        /\ IF current
           THEN /\ currentSnapshot' = [devices |-> refresh.devices, charts |-> charts, live |-> TRUE]
                /\ CacheWrite(currentSnapshot')
                /\ Continue(refresh.devices, charts, refresh.left - 1)
           ELSE UNCHANGED <<currentSnapshot, loaded, pending, blocked, cacheWrites>> /\ Finish(queued, sameCache)
  BY <1>1, ChartsAreOwn
<1>4. CASE current
  BY <1>1, <1>2, <1>3, <1>4, ContinueOwn
<1>5. CASE ~current
  <2>1. /\ UNCHANGED <<currentSnapshot, blocked>> /\ Finish(queued, sameCache)
        /\ queued \in Views \cup {None, Same} /\ sameCache \in SUBSET {"refresh", "opener"}
    BY <1>1, <1>3, <1>5 DEF ReadTypes
  <2>2. /\ RefreshOwn' /\ ("opener" \in sameCache' <=> "opener" \in sameCache)
        /\ queued = None => current' = FALSE /\ queued' = None
    BY <1>1, <1>2, <2>1, FinishIsOwn
  <2>3. EditBlank'
    BY <1>1, <1>2, <2>1, <2>2 DEF OwnInv, EditBlank, Quiet
  <2>4. changing => queued' = None /\ current' = FALSE
    BY <2>2 DEF OwnInv, ChangeBlank
  <2>5. QED
    BY <1>2, <2>1, <2>2, <2>3, <2>4, OwnKept
<1>6. QED
  BY <1>4, <1>5

LEMMA AskRefreshOwn == ASSUME BaseInv, OwnInv, Quiet, AskRefresh PROVE OwnInv'
<1>1. /\ SessionTypes /\ ReadTypes /\ RefreshOwn /\ ~changing /\ sameCache \in SUBSET {"refresh", "opener"}
      /\ UNCHANGED <<accessKey, serverUrl, identity, opener, change, config, blocked, currentSnapshot>>
  BY DEF BaseInv, ReadTypes, OwnInv, AskRefresh, sessionVars, userVars
<1>2. PICK r \in Views \cup {Same} : RefreshAt(serverUrl, r, sameCache)
  BY DEF AskRefresh, Refresh
<1>3. RefreshOwn' /\ ("opener" \in sameCache' <=> "opener" \in sameCache)
  BY <1>1, <1>2, RefreshIsOwn
<1>4. EditBlank'
  BY <1>1, <1>3 DEF OwnInv, EditBlank, Quiet, Idle
<1>5. QED
  BY <1>1, <1>3, <1>4, OwnKept

LEMMA OpenOwn == ASSUME BaseInv, OwnInv, Open PROVE OwnInv'
<1>1. /\ UNCHANGED <<accessKey, serverUrl, identity, change, config, blocked, currentSnapshot, queued, current, refresh>>
      /\ ~changing /\ ~blocked /\ opener'.at = "cache" /\ opener'.scope = cacheScope
  BY DEF Open, sessionVars, readVars
<1>2. Account' = Account /\ cacheScope' = cacheScope
  BY <1>1, AccountKept
<1>3. ChangeBlank' /\ EditBlank' /\ OpenerOwn'
  BY <1>1, <1>2 DEF OwnInv, ChangeBlank, EditBlank, OpenerOwn, changing
<1>4. RefreshOwn' /\ ShownIsOwn'
  BY <1>1, <1>2 DEF OwnInv, RefreshOwn, ShownIsOwn
<1>5. QED
  BY <1>3, <1>4 DEF OwnInv

LEMMA OpenedOwn == ASSUME BaseInv, OwnInv, ScopeInv, Quiet, Opened PROVE OwnInv'
<1>1. /\ SessionTypes /\ ReadTypes /\ CacheTypes /\ RefreshOwn
      /\ UNCHANGED <<accessKey, serverUrl, identity, change, config, blocked>> /\ opener'.at = "idle"
      /\ opener.at = "cache" /\ opener.scope \in Scopes /\ opener.request \in Views \cup {Same} /\ view \in Views
      /\ sameCache \ {"opener"} \in SUBSET {"refresh", "opener"}
  BY DEF BaseInv, ReadTypes, UserTypes, OwnInv, Opened, sessionVars, Openers, Idle
<1>2. PICK cached \in Cached("opener", opener.scope) :
        currentSnapshot' = IF cached = None THEN currentSnapshot
                           ELSE asCachedSnapshot(cached, IF opener.request = Same THEN view ELSE opener.request)
  BY DEF Opened
<1>3. cached \in Snapshots \cup {None} /\ (cached # None => "opener" \in sameCache)
  BY <1>1, CachedFacts
<1>4. cached # None => /\ \A part \in Parts(cached) : part.account = Account
                       /\ ~changing /\ config.at \notin {"clearing", "cleared"}
  <2>1. ASSUME cached # None PROVE opener.scope = cacheScope /\ ~changing /\ config.at \notin {"clearing", "cleared"}
    BY <1>1, <1>3, <2>1 DEF OwnInv, OpenerOwn, ChangeBlank, EditBlank
  <2>2. QED
    BY <2>1, OwnCached
<1>5. \A part \in Parts(currentSnapshot') : part \in Parts(currentSnapshot)
        \/ (cached # None /\ part.account = Account)
  BY <1>1, <1>2, <1>3, <1>4, ShownFacts
<1>6. /\ RefreshOwn' /\ "opener" \notin sameCache'
      /\ changing => queued' = queued /\ current' = current
      /\ changing \/ refresh.at # "idle" \/ refresh'.at # "idle"
  <2>1. CASE changing
    <3>1. sameCache' = sameCache \ {"opener"} /\ UNCHANGED <<queued, current, refresh>>
      BY <2>1 DEF Opened, readVars
    <3>2. Account' = Account /\ cacheScope' = cacheScope
      BY <1>1, AccountKept
    <3>3. QED
      BY <1>1, <2>1, <3>1, <3>2 DEF RefreshOwn
  <2>2. CASE ~changing
    <3>1. RefreshAt(serverUrl, opener.request, sameCache \ {"opener"})
      BY <2>2 DEF Opened, Refresh
    <3>2. QED
      BY <1>1, <2>2, <3>1, RefreshIsOwn
  <2>3. QED
    BY <2>1, <2>2
<1>7. EditBlank'
  <2>1. ASSUME config.at \in {"clearing", "cleared"} PROVE ~current' /\ Parts(currentSnapshot') = {}
                 /\ blocked
    BY <1>1, <1>4, <1>5, <2>1 DEF Quiet, Idle, OwnInv, EditBlank
  <2>2. QED
    BY <1>1, <1>6, <2>1 DEF EditBlank
<1>8. changing => /\ queued' = None /\ current' = FALSE
                   /\ Parts(currentSnapshot') \subseteq Parts(currentSnapshot)
  BY <1>1, <1>4, <1>5, <1>6 DEF OwnInv, ChangeBlank, ReadTypes
<1>9. QED
  BY <1>1, <1>5, <1>6, <1>7, <1>8, OwnKept

LEMMA SessionDeniedOwn ==
    ASSUME BaseInv, OwnInv, NEW who \in {"refresh", "mutation", "live"}, SessionDenied(who) PROVE OwnInv'
<1>1. /\ SessionTypes /\ ReadTypes /\ UNCHANGED <<accessKey, serverUrl, identity, opener, change, config>>
      /\ Parts(currentSnapshot') = {} /\ blocked' = TRUE
  BY EmptyFacts DEF BaseInv, SessionDenied, userVars, CacheClear
<1>2. /\ RefreshOwn' /\ "opener" \notin sameCache' /\ current' = FALSE /\ queued' = None
      /\ refresh'.at = "idle" \/ refresh' = refresh
  <2>1. CASE who = "refresh"
    <3>1. Finish(None, {})
      BY <2>1 DEF SessionDenied
    <3>2. QED
      BY <1>1, <3>1, FinishIsOwn
  <2>2. CASE who # "refresh"
    BY <2>2 DEF SessionDenied, RefreshOwn
  <2>3. QED
    BY <2>1, <2>2
<1>3. EditBlank'
  BY <1>1, <1>2 DEF OwnInv, EditBlank
<1>4. QED
  BY <1>1, <1>2, <1>3, OwnKept

LEMMA LoginDeniedOwn == ASSUME BaseInv, OwnInv, Quiet, LoginDenied PROVE OwnInv'
<1>1. /\ SessionTypes /\ ReadTypes /\ UNCHANGED <<accessKey, serverUrl, identity, opener, change, config>>
      /\ Parts(currentSnapshot') = {} /\ Finish(queued, {}) /\ queued \in Views \cup {None, Same}
      /\ refresh.at \in {"list", "charts"}
  BY EmptyFacts DEF BaseInv, ReadTypes, LoginDenied, userVars
<1>2. /\ RefreshOwn' /\ "opener" \notin sameCache'
      /\ queued = None => current' = FALSE /\ queued' = None
  BY <1>1, FinishIsOwn
<1>3. EditBlank' /\ (changing => queued = None)
  BY <1>1, <1>2 DEF OwnInv, EditBlank, ChangeBlank, LoginDenied, CacheClear, Quiet
<1>4. QED
  BY <1>1, <1>2, <1>3, OwnKept

LEMMA MutationReplyOwn ==
    ASSUME BaseInv, OwnInv, NoLateDiscovery, Quiet, MutationReply PROVE OwnInv'
<1>1. /\ SessionTypes /\ ReadTypes /\ RefreshOwn /\ serverUrl \in Urls \cup {None}
           /\ sameCache \in SUBSET {"refresh", "opener"}
      /\ UNCHANGED <<accessKey, serverUrl, identity, opener, change, config, blocked, currentSnapshot>>
      /\ mergeSnapshotRequests(queued, Same) \in Views \cup {Same}
  BY DEF BaseInv, SessionTypes, ReadTypes, OwnInv, MutationReply, userVars, mergeSnapshotRequests
<1>2. Account' = Account /\ cacheScope' = cacheScope
  BY <1>1, AccountKept
<1>3. /\ sameCache' \in {sameCache, sameCache \cup {"refresh"}}
      /\ RefreshOwn'
      /\ current' = current \/ current' = FALSE \/ ~changing
      /\ refresh' = refresh \/ refresh'.at = "cache"
  <2>1. CASE UNCHANGED <<current, refresh, sameCache>>
    BY <1>1, <1>2, <2>1 DEF RefreshOwn
  <2>2. CASE current' = FALSE /\ UNCHANGED <<refresh, sameCache>>
    BY <2>2 DEF RefreshOwn
  <2>3. CASE ~changing /\ StartReadAt(serverUrl, mergeSnapshotRequests(queued, Same), sameCache)
    <3>1. ReadBegins(serverUrl, sameCache) /\ refresh'.at = "cache" /\ refresh'.scope = cacheScope
      BY <1>1, <2>3, StartFacts DEF cacheScope
    <3>2. QED
      BY <1>2, <2>3, <3>1 DEF ReadBegins, RefreshOwn
  <2>4. QED
    BY <2>1, <2>2, <2>3 DEF MutationReply, refreshAfterMutation, StartRead, readVars
<1>4. EditBlank'
  BY <1>1, <1>3 DEF Quiet, Idle, OwnInv, EditBlank
<1>5. changing => queued' = None /\ current' = FALSE
  <2>1. current' \in BOOLEAN
    BY MutationReplyTypes DEF BaseInv, ReadTypes
  <2>2. QED
    BY <1>3, <2>1 DEF NoLateDiscovery, OwnInv, ChangeBlank
<1>6. QED
  BY <1>1, <1>3, <1>4, <1>5, OwnKept

LEMMA ChangeStartOwn == ASSUME BaseInv, OwnInv, ChangeStart PROVE OwnInv'
<1>1. /\ UNCHANGED <<accessKey, serverUrl, identity, opener, config, refresh>> /\ current' = FALSE /\ queued' = None
      /\ Parts(currentSnapshot') = {} /\ sameCache' = {} /\ blocked' = TRUE
  BY EmptyFacts DEF ChangeStart, ClearRemote, CacheClear
<1>2. ChangeBlank' /\ EditBlank' /\ OpenerOwn' /\ RefreshOwn' /\ ShownIsOwn'
  BY <1>1 DEF OwnInv, ChangeBlank, EditBlank, OpenerOwn, RefreshOwn, ShownIsOwn
<1>3. QED
  BY <1>2 DEF OwnInv

\* A step of a change of the connection, which shows and reads nothing.
LEMMA ChangingOwn ==
    ASSUME OwnInv, changing, UNCHANGED <<opener, config, refresh, queued, current, currentSnapshot, sameCache, blocked>>
    PROVE  OwnInv'
<1>1. ChangeBlank' /\ EditBlank'
  BY DEF OwnInv, ChangeBlank, EditBlank
<1>2. OpenerOwn' /\ RefreshOwn' /\ ShownIsOwn'
  BY DEF OwnInv, ChangeBlank, OpenerOwn, RefreshOwn, ShownIsOwn
<1>3. QED
  BY <1>1, <1>2 DEF OwnInv

LEMMA ChangeEndsOwn == ASSUME BaseInv, OwnInv, Quiet, ChangeEnds PROVE OwnInv'
<1>1. /\ SessionTypes /\ ReadTypes /\ RefreshOwn /\ sameCache \in SUBSET {"refresh", "opener"}
      /\ UNCHANGED <<accessKey, serverUrl, identity, opener, config, blocked>>
      /\ changing /\ ~changing'
      /\ Parts(currentSnapshot') = {} /\ "opener" \notin sameCache /\ ~current /\ queued = None
      /\ UNCHANGED <<queued, current, refresh, sameCache>> \/ RefreshAt(serverUrl, Same, sameCache)
  BY EmptyFacts DEF BaseInv, ReadTypes, OwnInv, ChangeEnds, Refresh, sessionVars, readVars, changing, ChangeBlank,
      Idle
<1>2. RefreshOwn' /\ "opener" \notin sameCache' /\ (refresh.at = "idle" => refresh'.at # "idle" \/ refresh' = refresh)
  <2>1. CASE UNCHANGED <<queued, current, refresh, sameCache>>
    BY <1>1, <2>1 DEF RefreshOwn
  <2>2. CASE RefreshAt(serverUrl, Same, sameCache)
    BY <1>1, <2>2, RefreshIsOwn
  <2>3. QED
    BY <1>1, <2>1, <2>2
<1>3. ChangeBlank' /\ EditBlank' /\ OpenerOwn' /\ ShownIsOwn'
  BY <1>1, <1>2 DEF ChangeBlank, EditBlank, OpenerOwn, ShownIsOwn, Quiet, Idle, OwnInv
<1>4. QED
  BY <1>2, <1>3 DEF OwnInv

LEMMA ConfigWrittenOwn == ASSUME BaseInv, OwnInv, Quiet, ConfigWritten PROVE OwnInv'
<1>1. /\ SessionTypes /\ ReadTypes /\ RefreshOwn /\ sameCache \in SUBSET {"refresh", "opener"}
      /\ UNCHANGED <<accessKey, serverUrl, identity, opener, change>>
  BY DEF BaseInv, ReadTypes, OwnInv, ConfigWritten, sessionVars
<1>2. CASE config.was # serverUrl
  <2>1. /\ current' = FALSE /\ queued' = None /\ Parts(currentSnapshot') = {} /\ sameCache' = {} /\ blocked' = TRUE
        /\ refresh' = refresh /\ config' = [config EXCEPT !.at = "clearing"]
    BY <1>2, EmptyFacts DEF ConfigWritten, ClearRemote, CacheClear
  <2>2. config'.at = "clearing"
    BY <2>1 DEF BaseInv, UserTypes, ConfigEdits, ConfigWritten, Idle
  <2>3. EditBlank' /\ RefreshOwn'
    BY <2>1, <2>2 DEF EditBlank, Quiet, Idle, RefreshOwn
  <2>4. QED
    BY <1>1, <2>1, <2>3, OwnKept
<1>3. CASE config.was = serverUrl
  <2>1. /\ config' = Idle /\ currentSnapshot' = currentSnapshot
        /\ (changing /\ UNCHANGED <<queued, current, refresh, sameCache>>)
             \/ (~changing /\ RefreshAt(serverUrl, Same, sameCache))
    BY <1>3 DEF ConfigWritten, Refresh, readVars
  <2>2. RefreshOwn' /\ ("opener" \in sameCache' => "opener" \in sameCache)
    <3>1. CASE UNCHANGED <<queued, current, refresh, sameCache>>
      <4>1. Account' = Account /\ cacheScope' = cacheScope
        BY <1>1, AccountKept
      <4>2. QED
        BY <1>1, <3>1, <4>1 DEF RefreshOwn
    <3>2. CASE RefreshAt(serverUrl, Same, sameCache)
      BY <1>1, <3>2, RefreshIsOwn
    <3>3. QED
      BY <2>1, <3>1, <3>2
  <2>3. EditBlank'
    BY <2>1 DEF EditBlank, Idle
  <2>4. changing => queued' = None /\ current' = FALSE
    BY <1>1, <2>1 DEF OwnInv, ChangeBlank, ReadTypes
  <2>5. QED
    BY <1>1, <2>1, <2>2, <2>3, <2>4, OwnKept
<1>4. QED
  BY <1>2, <1>3

\* The address moves where nothing is shown and no read is wanted.
LEMMA MovedOwn ==
    ASSUME SessionTypes, ReadTypes, OwnInv, NEW url \in Urls \cup {None}, serverUrl' = url,
           UNCHANGED <<accessKey, identity, opener, change, currentSnapshot>>,
           \/ changing /\ UNCHANGED <<queued, current, refresh, sameCache>>
           \/ ~changing /\ RefreshAt(url, Same, sameCache),
           Parts(currentSnapshot) = {}, "opener" \notin sameCache,
           ~current, config'.at \notin {"clearing", "cleared"}
    PROVE  OwnInv'
<1>1. sameCache \in SUBSET {"refresh", "opener"}
  BY DEF ReadTypes, OwnInv, RefreshOwn
<1>2. cacheScope' = ScopeAt(url)
  BY DEF cacheScope, ScopeAt
<1>3. RefreshOwn' /\ "opener" \notin sameCache'
  <2>1. CASE UNCHANGED <<queued, current, refresh, sameCache>>
    BY <1>1, <2>1 DEF RefreshOwn
  <2>2. CASE RefreshAt(url, Same, sameCache)
    <3>1. CASE refresh.at = "idle"
      <4>1. ReadBegins(url, sameCache) /\ refresh'.at = "cache" /\ refresh'.scope = ScopeAt(url)
        BY <1>1, <2>2, <3>1, RefreshFacts
      <4>2. QED
        BY <1>1, <1>2, <4>1 DEF ReadBegins, RefreshOwn
    <3>2. CASE refresh.at # "idle"
      <4>1. ~current' /\ sameCache' = sameCache
        BY <1>1, <2>2, <3>2, RefreshFacts
      <4>2. QED
        BY <4>1 DEF RefreshOwn
    <3>3. QED
      BY <3>1, <3>2
  <2>3. QED
    BY <2>1, <2>2
<1>4. ChangeBlank' /\ EditBlank' /\ OpenerOwn' /\ ShownIsOwn'
  BY <1>1, <1>3 DEF OwnInv, ChangeBlank, EditBlank, OpenerOwn, ShownIsOwn, changing
<1>5. QED
  BY <1>3, <1>4 DEF OwnInv

LEMMA ConfigMovesOwn == ASSUME BaseInv, OwnInv, ConfigMoves PROVE OwnInv'
<1>1. /\ SessionTypes /\ ReadTypes /\ config.was \in Urls \cup {None} /\ serverUrl' = config.was
      /\ UNCHANGED <<accessKey, identity, opener, change, currentSnapshot>>
      /\ \/ changing /\ UNCHANGED <<queued, current, refresh, sameCache>>
         \/ ~changing /\ RefreshAt(config.was, Same, sameCache)
      /\ Parts(currentSnapshot) = {} /\ "opener" \notin sameCache /\ ~current
      /\ config'.at \notin {"clearing", "cleared"}
  BY DEF BaseInv, UserTypes, ConfigEdits, Idle, ConfigMoves, setServerUrl, readVars, OwnInv, EditBlank
<1>2. QED
  BY <1>1, MovedOwn

LEMMA AddressDiscoveredOwn ==
    ASSUME BaseInv, OwnInv, NoLateDiscovery, Quiet, AddressDiscovered PROVE OwnInv'
<1>1. /\ SessionTypes /\ ReadTypes /\ agentUrl \in Urls \cup {None} /\ serverUrl = None /\ serverUrl' = agentUrl
      /\ UNCHANGED <<accessKey, identity, opener, change, config, currentSnapshot, blocked>>
      /\ Account = None /\ cacheScope = None /\ queued \in Views \cup {None, Same}
  BY DEF BaseInv, SessionTypes, ReadTypes, AddressDiscovered, setServerUrl, userVars, Account, cacheScope, ScopeAt
<1>2. Parts(currentSnapshot) = {} /\ (opener.at = "cache" => "opener" \notin sameCache)
  <2>1. \A part \in Parts(currentSnapshot) : part.account \in Accounts /\ part.account = None
    BY <1>1 DEF BaseInv, CountTypes, Snapshots, ReadParts, Parts, OwnInv, ShownIsOwn
  <2>2. opener.at = "cache" => opener.scope \in Scopes
    BY DEF BaseInv, UserTypes, Openers, Idle
  <2>3. QED
    BY <1>1, <2>1, <2>2, DesktopAssumption DEF OwnInv, OpenerOwn
<1>3. current => refresh.at = "cache" /\ refresh.scope = None
  <2>1. refresh.at \in {"idle", "cache", "list", "charts"}
    BY DEF BaseInv, ReadTypes, Refreshes, Idle
  <2>2. /\ refresh.at = "list" => refresh.account \in Accounts
        /\ refresh.at = "charts" => refresh.devices.account \in Accounts
    BY DEF BaseInv, ReadTypes, Refreshes, Idle, ReadParts
  <2>3. QED
    BY <1>1, <2>1, <2>2, DesktopAssumption DEF OwnInv, RefreshOwn
<1>4. CASE refresh.at # "idle"
  <2>1. queued' = mergeSnapshotRequests(queued, Same) /\ UNCHANGED <<current, refresh, sameCache>>
    BY <1>4 DEF AddressDiscovered
  <2>2. queued' # None
    BY <1>1, <2>1, DesktopAssumption DEF mergeSnapshotRequests
  <2>3. ~changing
    BY <2>2 DEF NoLateDiscovery, OwnInv, ChangeBlank
  <2>4. ChangeBlank' /\ EditBlank' /\ OpenerOwn' /\ ShownIsOwn'
    BY <1>1, <1>2, <2>1, <2>3 DEF OwnInv, ChangeBlank, EditBlank, OpenerOwn, ShownIsOwn, changing
  <2>5. RefreshOwn'
    BY <1>3, <2>1 DEF RefreshOwn
  <2>6. QED
    BY <2>4, <2>5 DEF OwnInv
<1>5. CASE refresh.at = "idle"
  <2>1. \/ changing /\ UNCHANGED <<queued, current, refresh, sameCache>>
        \/ ~changing /\ RefreshAt(agentUrl, Same, sameCache)
    BY <1>5 DEF AddressDiscovered, readVars
  <2>2. CASE changing
    <3>1. UNCHANGED <<opener, config, refresh, queued, current, currentSnapshot, sameCache, blocked>>
      BY <1>1, <2>1, <2>2
    <3>2. QED
      BY <2>2, <3>1, ChangingOwn
  <2>3. CASE ~changing
    <3>1. ~current /\ RefreshAt(agentUrl, Same, sameCache) /\ sameCache \in SUBSET {"refresh", "opener"}
      BY <1>1, <1>5, <2>1, <2>3 DEF OwnInv, RefreshOwn, ReadTypes
    <3>2. ReadBegins(agentUrl, sameCache) /\ refresh'.at = "cache" /\ refresh'.scope = ScopeAt(agentUrl)
      BY <1>1, <1>5, <3>1, RefreshFacts
    <3>3. cacheScope' = ScopeAt(agentUrl)
      BY <1>1 DEF cacheScope, ScopeAt
    <3>4. RefreshOwn'
      BY <3>2, <3>3 DEF RefreshOwn
    <3>5. ChangeBlank' /\ EditBlank' /\ OpenerOwn' /\ ShownIsOwn'
      BY <1>1, <1>2, <2>3, <3>2 DEF ReadBegins, ChangeBlank, EditBlank, OpenerOwn, ShownIsOwn, changing, Quiet,
          Idle
    <3>6. QED
      BY <3>4, <3>5 DEF OwnInv
  <2>4. QED
    BY <2>2, <2>3
<1>6. QED
  BY <1>4, <1>5

\* A write of a file has ended, or an edit has begun.
LEMMA ClearEndsOwn == ASSUME BaseInv, OwnInv, ClearEnds PROVE OwnInv'
<1>1. /\ UNCHANGED <<accessKey, serverUrl, identity, opener, blocked, queued, current, refresh, currentSnapshot, sameCache>>
      /\ CacheTypes /\ CacheAwaited /\ cacheWrites # <<>>
  BY DEF BaseInv, ClearEnds, sessionVars, memoryVars, readVars
<1>2. 1 \in DOMAIN cacheWrites /\ Head(cacheWrites) = cacheWrites[1]
  BY <1>1, TailFacts DEF CacheTypes
<1>3. /\ changing' => changing
      /\ config' = config \/ config.at = "clearing"
  BY <1>1, <1>2 DEF ClearEnds, CacheAwaited, changing
<1>4. Account' = Account /\ cacheScope' = cacheScope
  BY <1>1, AccountKept
<1>5. ChangeBlank' /\ EditBlank'
  BY <1>1, <1>3 DEF OwnInv, ChangeBlank, EditBlank
<1>6. OpenerOwn' /\ RefreshOwn' /\ ShownIsOwn'
  BY <1>1, <1>4 DEF OwnInv, OpenerOwn, RefreshOwn, ShownIsOwn
<1>7. QED
  BY <1>5, <1>6 DEF OwnInv

LEMMA CredentialWriteOwn == ASSUME BaseInv, OwnInv, CredentialWrite PROVE OwnInv'
<1>1. /\ UNCHANGED <<accessKey, serverUrl, identity, opener, config, blocked, queued, current, refresh, currentSnapshot, sameCache>>
      /\ CredentialTypes /\ CredentialAwaited /\ credentialWrites # <<>>
  BY DEF BaseInv, CredentialWrite, sessionVars, cacheVars, memoryVars, readVars
<1>2. 1 \in DOMAIN credentialWrites /\ Head(credentialWrites) = credentialWrites[1]
  BY <1>1, TailFacts DEF CredentialTypes
<1>3. changing' => changing
  BY <1>1, <1>2, DesktopAssumption DEF CredentialWrite, CredentialAwaited, changing
<1>4. Account' = Account /\ cacheScope' = cacheScope
  BY <1>1, AccountKept
<1>5. ChangeBlank' /\ EditBlank'
  BY <1>1, <1>3 DEF OwnInv, ChangeBlank, EditBlank
<1>6. OpenerOwn' /\ RefreshOwn' /\ ShownIsOwn'
  BY <1>1, <1>4 DEF OwnInv, OpenerOwn, RefreshOwn, ShownIsOwn
<1>7. QED
  BY <1>5, <1>6 DEF OwnInv

LEMMA RestartOwn == ASSUME Restart PROVE OwnInv'
<1>1. /\ opener' = Idle /\ change' = Idle /\ config' = Idle /\ current' = FALSE /\ Parts(currentSnapshot') = {}
  BY EmptyFacts DEF Restart, Fresh
<1>2. ChangeBlank' /\ EditBlank' /\ OpenerOwn' /\ RefreshOwn' /\ ShownIsOwn'
  BY <1>1 DEF ChangeBlank, EditBlank, OpenerOwn, RefreshOwn, ShownIsOwn, changing, Idle
<1>3. QED
  BY <1>2 DEF OwnInv

LEMMA StepOwn ==
    ASSUME BaseInv, OwnInv, ScopeInv, [DesktopNext]_desktopVars, NoLateDiscovery, Quiet
    PROVE  OwnInv'
<1> DEFINE still == UNCHANGED <<accessKey, serverUrl, identity, opener, change, config, refresh, queued, currentSnapshot, sameCache, blocked>>
<1>1. ASSUME still, current' = current \/ current' = FALSE PROVE OwnInv'
  <2>1. Account' = Account /\ cacheScope' = cacheScope
    BY <1>1, AccountKept
  <2>2. ChangeBlank' /\ EditBlank' /\ OpenerOwn' /\ RefreshOwn' /\ ShownIsOwn'
    BY <1>1, <2>1 DEF OwnInv, ChangeBlank, EditBlank, OpenerOwn, RefreshOwn, ShownIsOwn, changing
  <2>3. QED
    BY <2>2 DEF OwnInv
<1>2. CASE FlushBegins \/ FlushEnds \/ Hide \/ Shutdown
  <2>1. still /\ (current' = current \/ current' = FALSE)
    BY <1>2 DEF FlushBegins, FlushEnds, Hide, Shutdown, sessionVars, cacheVars, memoryVars, readVars, userVars
  <2>2. QED
    BY <1>1, <2>1
<1>3. CASE Mutate \/ MutationFails \/ UNCHANGED desktopVars
  <2>1. still /\ current' = current
    BY <1>3 DEF Mutate, MutationFails, desktopVars, sessionVars, cacheVars, memoryVars, readVars, userVars
  <2>2. QED
    BY <1>1, <2>1
<1>4. CASE SignOut \/ SignedOut \/ AddressSet \/ AgentFails \/ AgentAnswers \/ LoginReply \/ SecretStored
  <2>1. changing /\ UNCHANGED <<opener, config, refresh, queued, current, currentSnapshot, sameCache, blocked>>
    BY <1>4 DEF SignOut, SignedOut, AddressSet, AgentFails, AgentAnswers, LoginReply, SecretStored, changing,
        changeRest,
                cacheVars, memoryVars, readVars
  <2>2. QED
    BY <2>1, ChangingOwn
<1>5. CASE ConfigRead
  <2>1. /\ UNCHANGED <<accessKey, serverUrl, identity, opener, change, refresh, queued, current, currentSnapshot, sameCache>>
        /\ config'.at = "read"
    BY <1>5 DEF ConfigRead, sessionVars, cacheVars, memoryVars, readVars
  <2>2. Account' = Account /\ cacheScope' = cacheScope
    BY <2>1, AccountKept
  <2>3. ChangeBlank' /\ EditBlank' /\ OpenerOwn' /\ RefreshOwn' /\ ShownIsOwn'
    BY <2>1, <2>2 DEF OwnInv, ChangeBlank, EditBlank, OpenerOwn, RefreshOwn, ShownIsOwn, changing
  <2>4. QED
    BY <2>3 DEF OwnInv
<1>6. CASE \E who \in {"refresh", "mutation", "live"} : SessionDenied(who)
  BY <1>6, SessionDeniedOwn
<1>7. CASE ClearEnds \/ CredentialWrite \/ AskRefresh \/ CacheRead \/ ListRead \/ ListFails \/ ChartRead \/ Open
        \/ Opened
  BY <1>7, ClearEndsOwn, CredentialWriteOwn, AskRefreshOwn, CacheReadOwn, ListReadOwn, ListFailsOwn, ChartReadOwn,
      OpenOwn, OpenedOwn
<1>8. CASE LoginDenied \/ MutationReply \/ ChangeStart \/ ChangeEnds \/ ConfigWritten \/ ConfigMoves
        \/ AddressDiscovered \/ Restart
  BY <1>8, LoginDeniedOwn, MutationReplyOwn, ChangeStartOwn, ChangeEndsOwn, ConfigWrittenOwn, ConfigMovesOwn,
      AddressDiscoveredOwn, RestartOwn
<1>9. QED
  BY <1>2, <1>3, <1>4, <1>5, <1>6, <1>7, <1>8 DEF DesktopNext

-----------------------------------------------------------------------------
(* Identities.  Whatever a step records or caches is of the key in use, or *)
(* was recorded or cached before; only Login draws an identity.            *)

\* What the store keeps of a snapshot of the present account.
Written(e) ==
    /\ cacheScope # None /\ e.scope = cacheScope
    /\ \A part \in Parts(e.snapshot) : part.account = Account

Rewritten(e) ==
    \/ e \in Held \cup {None}
    \/ e.snapshot = None
    \/ \E held \in Held \ {None} : e.scope = held.scope /\ e.snapshot = held.snapshot
    \/ Written(e)

Rerecorded(c) ==
    \/ c \in Recorded \cup {None}
    \/ KeyInUse # None /\ c.identity = identity /\ c.key = KeyInUse

KeyKept ==
    \/ KeyInUse' = None
    \/ KeyInUse' = KeyInUse /\ identity' = identity
    \/ \E c \in Recorded \ {None} : KeyInUse' = c.key /\ identity' = c.identity

LEMMA ScopesKept ==
    ASSUME BaseInv, ScopeInv, lastIdentity' = lastIdentity, KeyKept,
           \A c \in Recorded' : Rerecorded(c),
           \A e \in Held' : Rewritten(e)
    PROVE  ScopeInv'
<1>1. PICK owner \in [1 .. lastIdentity -> Keys \cup {None}] : OwnedBy(owner)
  BY DEF ScopeInv
<1>2. KeyInUse' # None => owner[identity'] = KeyInUse'
  BY <1>1 DEF OwnedBy, KeyKept
<1>3. \A c \in Recorded' \ {None} : owner[c.identity] = c.key
  BY <1>1 DEF OwnedBy, Rerecorded
<1>4. ASSUME NEW e, Written(e) PROVE Owned(owner, e)
  <2>1. SessionTypes /\ ChangePlaced /\ Identified /\ serverUrl \in Urls \cup {None}
    BY DEF BaseInv, SessionTypes
  <2>2. /\ accessKey \in Keys /\ Account = <<serverUrl, accessKey>>
        /\ cacheScope[1] = serverUrl /\ cacheScope[2] = identity
    BY <1>4, <2>1, ScopeTypes DEF Written
  <2>3. KeyInUse = accessKey /\ accessKey # None
    BY <2>1, <2>2, DesktopAssumption DEF KeyInUse, ChangePlaced
  <2>4. identity \in 1 .. lastIdentity
    BY <2>1, <2>3 DEF SessionTypes, Identified
  <2>5. owner[identity] = accessKey /\ identity \in DOMAIN owner
    BY <1>1, <2>3, <2>4 DEF OwnedBy
  <2>6. QED
    BY <1>4, <2>2, <2>5 DEF Written, Owned
<1>5. \A e \in Held' \ {None} : Owned(owner, e)
  <2>1. ASSUME NEW e \in Held' \ {None} PROVE Owned(owner, e)
    <3>1. Rewritten(e)
      BY <2>1
    <3>2. \A held \in Held \ {None} : Owned(owner, held)
      BY <1>1 DEF OwnedBy
    <3>3. QED
      BY <1>4, <3>1, <3>2 DEF Rewritten, Owned
  <2>2. QED
    BY <2>1
<1>6. OwnedBy(owner)'
  BY <1>2, <1>3, <1>5 DEF OwnedBy, Owned
<1>7. QED
  BY <1>1, <1>6 DEF ScopeInv

LEMMA HeldSame ==
    ASSUME UNCHANGED <<cacheFile, pending, loaded, cacheWrites>> PROVE \A e \in Held' : Rewritten(e)
BY DEF Held, Rewritten

LEMMA RecordedSame ==
    ASSUME UNCHANGED <<credentialFile, credentialWrites>> PROVE \A c \in Recorded' : Rerecorded(c)
BY DEF Recorded, Rerecorded

\* Neither the key nor its identity changes.
LEMMA KeySame ==
    ASSUME UNCHANGED <<accessKey, identity>>, change' = change \/ (change.at # "auth" /\ change'.at # "auth")
    PROVE  KeyKept
BY DEF KeyKept, KeyInUse

LEMMA RecordedOutdated ==
    ASSUME CredentialTypes, credentialFile' = credentialFile,
           credentialWrites' \in {Outdated, Append(Outdated, removeKey)}
    PROVE  \A c \in Recorded' : Rerecorded(c)
<1> DEFINE t == Outdated
<1>1. Awaiting(t)
  BY OutdatedFacts
<1>2. t \in Seq(CredentialOps)
        /\ \A i \in DOMAIN t : \E j \in DOMAIN credentialWrites : t[i].value = credentialWrites[j].value
  BY <1>1 DEF Awaiting
<1>3. CASE credentialWrites' = t
  BY <1>2, <1>3 DEF Recorded, Rerecorded
<1>4. CASE credentialWrites' = Append(t, removeKey)
  <2> HIDE DEF t
  <2>1. /\ DOMAIN credentialWrites' = 1 .. Len(t) + 1 /\ DOMAIN t = 1 .. Len(t) /\ Len(t) \in Nat
        /\ credentialWrites'[Len(t) + 1] = removeKey /\ \A i \in 1 .. Len(t) : credentialWrites'[i] = t[i]
    BY <1>2, <1>4, RemovalFacts, AppendProperties, LenProperties
  <2>2. \A i \in DOMAIN credentialWrites' :
          credentialWrites'[i] = removeKey \/ (i \in DOMAIN t /\ credentialWrites'[i] = t[i])
    BY <2>1
  <2>3. \A i \in DOMAIN credentialWrites' :
          credentialWrites'[i].value = None \/ \E j \in DOMAIN credentialWrites : credentialWrites'[i].value = credentialWrites[j].value
    BY <1>2, <2>2, RemovalFacts
  <2>4. QED
    BY <2>3 DEF Recorded, Rerecorded
<1>5. QED
  BY <1>3, <1>4

LEMMA RecordedAppended ==
    ASSUME CredentialTypes, credentialFile' = credentialFile, NEW w \in CredentialOps,
           credentialWrites' = Append(credentialWrites, w), Rerecorded(w.value)
    PROVE  \A c \in Recorded' : Rerecorded(c)
<1>1. /\ DOMAIN credentialWrites' = 1 .. Len(credentialWrites) + 1
           /\ DOMAIN credentialWrites = 1 .. Len(credentialWrites)
      /\ credentialWrites'[Len(credentialWrites) + 1] = w /\ Len(credentialWrites) \in Nat
      /\ \A i \in 1 .. Len(credentialWrites) : credentialWrites'[i] = credentialWrites[i]
  BY AppendProperties, LenProperties DEF CredentialTypes
<1>2. \A i \in DOMAIN credentialWrites' :
        credentialWrites'[i] = w \/ (i \in DOMAIN credentialWrites /\ credentialWrites'[i] = credentialWrites[i])
  BY <1>1
<1>3. QED
  BY <1>2 DEF Recorded, Rerecorded

LEMMA HeldCleared ==
    ASSUME CacheTypes, cacheFile' = cacheFile, NEW by \in {None, "change", "config"}, CacheClear(by)
    PROVE  \A e \in Held' : Rewritten(e)
<1>1. loaded' = None /\ pending' = None /\ \E at : EndsWithClear(cacheWrites', by, at)
  BY ClearFacts
<1>2. PICK at : EndsWithClear(cacheWrites', by, at)
  BY <1>1
<1>3. ASSUME NEW i \in DOMAIN cacheWrites'
      PROVE  cacheWrites'[i].envelope = None
               \/ \E j \in DOMAIN cacheWrites : cacheWrites'[i].envelope = cacheWrites[j].envelope
  <2>1. i = Len(cacheWrites') \/ i \in 1 .. Len(cacheWrites') - 1
    BY <1>2, LenProperties DEF EndsWithClear
  <2>2. QED
    BY <1>2, <2>1 DEF EndsWithClear
<1>4. QED
  BY <1>1, <1>3 DEF Held, Rewritten

LEMMA HeldWritten ==
    ASSUME BaseInv, UNCHANGED <<cacheFile, change, config>>, NEW s \in Snapshots, CacheWrite(s),
           \A part \in Parts(s) : part.account = Account
    PROVE  \A e \in Held' : Rewritten(e)
<1>1. SessionTypes /\ CacheTypes /\ CacheAwaited
  BY DEF BaseInv
<1>2. CASE cacheScope = None
  <2>1. UNCHANGED <<cacheFile, pending, loaded, cacheWrites>>
    BY <1>1, <1>2, WriteFacts
  <2>2. QED
    BY <2>1, HeldSame
<1>3. CASE cacheScope # None
  <2>1. /\ pending' = loaded' /\ loaded'.scope = cacheScope
        /\ \A part \in Parts(loaded'.snapshot) : \E shown \in Parts(s) : part.account = shown.account
        /\ cacheWrites' = cacheWrites \/ cacheWrites' = Append(cacheWrites, FlushOp)
    BY <1>1, <1>3, WriteFacts
  <2>2. Written(loaded')
    BY <1>3, <2>1 DEF Written
  <2>3. ASSUME NEW i \in DOMAIN cacheWrites'
        PROVE  cacheWrites'[i].envelope = None \/ (i \in DOMAIN cacheWrites /\ cacheWrites'[i] = cacheWrites[i])
    <3>1. CASE cacheWrites' = Append(cacheWrites, FlushOp)
      <4>1. FlushOp \in CacheOps /\ FlushOp.envelope = None
        BY DEF FlushOp, CacheOps
      <4>2. /\ DOMAIN cacheWrites' = 1 .. Len(cacheWrites) + 1 /\ Len(cacheWrites) \in Nat
            /\ DOMAIN cacheWrites = 1 .. Len(cacheWrites) /\ cacheWrites'[Len(cacheWrites) + 1] = FlushOp
            /\ \A k \in 1 .. Len(cacheWrites) : cacheWrites'[k] = cacheWrites[k]
        BY <1>1, <3>1, <4>1, AppendProperties, LenProperties DEF CacheTypes
      <4>3. QED
        BY <4>1, <4>2
    <3>2. QED
      BY <2>1, <3>1
  <2>4. QED
    BY <2>1, <2>2, <2>3 DEF Held, Rewritten
<1>4. QED
  BY <1>2, <1>3

LEMMA FlushBeginsScopes == ASSUME BaseInv, ScopeInv, FlushBegins PROVE ScopeInv'
<1>1. /\ UNCHANGED <<accessKey, identity, lastIdentity, credentialFile, credentialWrites, change, loaded, cacheFile>>
      /\ cacheWrites \in Seq(CacheOps) /\ cacheWrites # <<>>
  BY DEF BaseInv, CacheTypes, FlushBegins, sessionVars, credentialVars, userVars
<1>2. ASSUME NEW i \in DOMAIN cacheWrites'
      PROVE  cacheWrites'[i].envelope = pending
               \/ \E j \in DOMAIN cacheWrites : cacheWrites'[i].envelope = cacheWrites[j].envelope
  <2>1. CASE cacheWrites' = Tail(cacheWrites)
    BY <1>1, <1>2, <2>1, TailFacts
  <2>2. CASE cacheWrites' = [cacheWrites EXCEPT ![1].envelope = pending]
    <3>1. cacheWrites[1] \in CacheOps /\ 1 \in DOMAIN cacheWrites
      BY <1>1, TailFacts
    <3>2. DOMAIN cacheWrites' = DOMAIN cacheWrites /\ \A j \in DOMAIN cacheWrites : j # 1
            => cacheWrites'[j] = cacheWrites[j]
      BY <1>1, <2>2
    <3>3. cacheWrites'[1].envelope = pending
      BY <1>1, <2>2, <3>1 DEF CacheOps
    <3>4. QED
      BY <3>2, <3>3
  <2>3. QED
    BY <2>1, <2>2 DEF FlushBegins
<1>3. pending' \in {pending, None}
  BY DEF FlushBegins
<1>4. \A e \in Held' : Rewritten(e)
  BY <1>1, <1>2, <1>3 DEF Held, Rewritten
<1>5. QED
  BY <1>1, <1>4, KeySame, RecordedSame, ScopesKept

\* What is at the head of the queue is held too.
LEMMA HeldTail ==
    ASSUME CacheTypes, cacheWrites # <<>>, cacheWrites' = Tail(cacheWrites), loaded' = loaded,
           cacheFile' \in {cacheFile, Head(cacheWrites).envelope, None}, pending' \in {pending, Head(cacheWrites).envelope}
    PROVE  \A e \in Held' : Rewritten(e)
<1>1. /\ 1 \in DOMAIN cacheWrites /\ Head(cacheWrites) = cacheWrites[1]
      /\ \A i \in DOMAIN cacheWrites' : i + 1 \in DOMAIN cacheWrites /\ cacheWrites'[i] = cacheWrites[i + 1]
  BY TailFacts DEF CacheTypes
<1>2. QED
  BY <1>1 DEF Held, Rewritten

LEMMA FlushEndsScopes == ASSUME BaseInv, ScopeInv, FlushEnds PROVE ScopeInv'
<1>1. /\ UNCHANGED <<accessKey, identity, lastIdentity, credentialFile, credentialWrites, change, loaded>>
      /\ CacheTypes /\ cacheWrites # <<>> /\ cacheWrites' = Tail(cacheWrites)
      /\ cacheFile' \in {cacheFile, Head(cacheWrites).envelope, None}
           /\ pending' \in {pending, Head(cacheWrites).envelope}
  BY DEF BaseInv, FlushEnds, sessionVars, credentialVars, userVars
<1>2. QED
  BY <1>1, KeySame, RecordedSame, HeldTail, ScopesKept

LEMMA ClearEndsScopes == ASSUME BaseInv, ScopeInv, ClearEnds PROVE ScopeInv'
<1>1. /\ UNCHANGED <<accessKey, identity, lastIdentity, credentialFile, credentialWrites, loaded, pending>>
      /\ CacheTypes /\ CacheAwaited /\ cacheWrites # <<>> /\ cacheWrites' = Tail(cacheWrites)
      /\ cacheFile' \in {cacheFile, Head(cacheWrites).envelope, None}
  BY DEF BaseInv, ClearEnds, sessionVars, credentialVars, memoryVars
<1>2. 1 \in DOMAIN cacheWrites /\ Head(cacheWrites) = cacheWrites[1]
  BY <1>1, TailFacts DEF CacheTypes
<1>3. change' = change \/ (change.at # "auth" /\ change'.at # "auth")
  <2>1. CASE Head(cacheWrites).by = "change"
    <3>1. change.at = "clearing" /\ change' \in {[change EXCEPT !.at = "cleared"], [change EXCEPT !.at = "undo"]}
      BY <1>1, <1>2, <2>1 DEF ClearEnds, CacheAwaited
    <3>2. change \in [at : ChangePlaces, op : Changes \cup {"undo"}, key : Keys \cup {None}, url : Urls]
      BY <3>1 DEF BaseInv, UserTypes, ConnectionChanges, Idle
    <3>3. QED
      BY <3>1, <3>2
  <2>2. CASE Head(cacheWrites).by # "change"
    BY <2>2 DEF ClearEnds
  <2>3. QED
    BY <2>1, <2>2
<1>4. pending' \in {pending, Head(cacheWrites).envelope}
  BY <1>1
<1>5. QED
  BY <1>1, <1>3, <1>4, KeySame, RecordedSame, HeldTail, ScopesKept

LEMMA CredentialWriteScopes == ASSUME BaseInv, ScopeInv, CredentialWrite PROVE ScopeInv'
<1>1. /\ UNCHANGED <<accessKey, identity, lastIdentity, loaded, pending, cacheFile, cacheWrites>>
      /\ CredentialTypes /\ CredentialAwaited /\ credentialWrites # <<>> /\ credentialWrites' = Tail(credentialWrites)
      /\ credentialFile' \in {credentialFile, Head(credentialWrites).value, None}
  BY DEF BaseInv, CredentialWrite, sessionVars, cacheVars, memoryVars
<1>2. /\ 1 \in DOMAIN credentialWrites /\ Head(credentialWrites) = credentialWrites[1]
      /\ \A i \in DOMAIN credentialWrites' : i + 1 \in DOMAIN credentialWrites
           /\ credentialWrites'[i] = credentialWrites[i + 1]
  BY <1>1, TailFacts DEF CredentialTypes
<1>3. change' = change \/ (change.at # "auth" /\ change'.at # "auth")
  <2>1. CASE Head(credentialWrites).by = "change"
    <3>1. change.at \in {"storing", "removing"}
            /\ change' \in {[change EXCEPT !.at = "stored"], [change EXCEPT !.at = "ended"], [change EXCEPT !.at = "undo"]}
      BY <1>1, <1>2, <2>1, DesktopAssumption DEF CredentialWrite, CredentialAwaited
    <3>2. change \in [at : ChangePlaces, op : Changes \cup {"undo"}, key : Keys \cup {None}, url : Urls]
      BY <3>1 DEF BaseInv, UserTypes, ConnectionChanges, Idle
    <3>3. QED
      BY <3>1, <3>2
  <2>2. CASE Head(credentialWrites).by # "change"
    BY <2>2 DEF CredentialWrite
  <2>3. QED
    BY <2>1, <2>2
<1>4. \A c \in Recorded' : Rerecorded(c)
  BY <1>1, <1>2 DEF Recorded, Rerecorded
<1>5. QED
  BY <1>1, <1>3, <1>4, KeySame, HeldSame, ScopesKept

\* A read of the cache keeps in memory what it found.
LEMMA HeldRead ==
    ASSUME CacheTypes, NEW who, NEW scope \in Scopes \cup {None}, NEW cached \in Cached(who, scope),
           loaded' = loaded \/ loaded' = [scope |-> scope, snapshot |-> cached],
           UNCHANGED <<cacheFile, pending, cacheWrites>>
    PROVE  \A e \in Held' : Rewritten(e)
<1>1. Rewritten(loaded')
  <2>1. CASE loaded' = loaded
    BY <2>1 DEF Rewritten, Held
  <2>2. CASE loaded' = [scope |-> scope, snapshot |-> cached] /\ cached = None
    BY <2>2 DEF Rewritten
  <2>3. CASE loaded' = [scope |-> scope, snapshot |-> cached] /\ cached # None
    <3>1. PICK held \in {loaded, cacheFile} : held # None /\ held.scope = scope /\ held.snapshot = cached
      BY <2>3, CachedFacts
    <3>2. held \in Held \ {None}
      BY <3>1 DEF Held
    <3>3. loaded'.scope = held.scope /\ loaded'.snapshot = held.snapshot
      BY <2>3, <3>1
    <3>4. QED
      BY <3>2, <3>3 DEF Rewritten
  <2>4. QED
    BY <2>1, <2>2, <2>3
<1>2. \A e \in Held' : e = loaded' \/ e \in Held
  BY DEF Held
<1>3. QED
  BY <1>1, <1>2 DEF Rewritten

LEMMA CacheReadScopes == ASSUME BaseInv, ScopeInv, CacheRead PROVE ScopeInv'
<1>1. /\ UNCHANGED <<accessKey, identity, lastIdentity, credentialFile, credentialWrites, change, cacheFile, pending, cacheWrites>>
      /\ CacheTypes /\ refresh.scope \in Scopes \cup {None}
  BY DEF BaseInv, CacheRead, credentialVars, userVars, ReadTypes, Refreshes, Idle
<1>2. \E cached \in Cached("refresh", refresh.scope) :
        loaded' = loaded \/ loaded' = [scope |-> refresh.scope, snapshot |-> cached]
  BY DEF CacheRead
<1>3. \A e \in Held' : Rewritten(e)
  BY <1>1, <1>2, HeldRead
<1>4. QED
  BY <1>1, <1>3, KeySame, RecordedSame, ScopesKept

LEMMA OpenedScopes == ASSUME BaseInv, ScopeInv, Opened PROVE ScopeInv'
<1>1. /\ UNCHANGED <<accessKey, identity, lastIdentity, credentialFile, credentialWrites, change, cacheFile, pending, cacheWrites>>
      /\ CacheTypes /\ opener.scope \in Scopes \cup {None}
  BY DEF BaseInv, Opened, sessionVars, credentialVars, UserTypes, Openers, Idle
<1>2. \E cached \in Cached("opener", opener.scope) :
        loaded' = loaded \/ loaded' = [scope |-> opener.scope, snapshot |-> cached]
  BY DEF Opened
<1>3. \A e \in Held' : Rewritten(e)
  BY <1>1, <1>2, HeldRead
<1>4. QED
  BY <1>1, <1>3, KeySame, RecordedSame, ScopesKept

LEMMA SignedInScopes ==
    ASSUME BaseInv, Account # None, credentialFile' = credentialFile, SignedIn
    PROVE  \A c \in Recorded' : Rerecorded(c)
<1>1. /\ SessionTypes /\ CredentialTypes /\ ChangePlaced /\ accessKey # None
      /\ accessKey \in Keys /\ serverUrl \in Urls /\ identity \in Nat
  BY DesktopAssumption DEF BaseInv, SessionTypes, Account
<1>2. KeyInUse = accessKey
  BY <1>1 DEF KeyInUse, ChangePlaced
<1>3. CASE sessionCookie \/ ~safeStorage
  BY <1>3, RecordedSame DEF SignedIn
<1>4. CASE ~(sessionCookie \/ ~safeStorage)
  <2> DEFINE w == persistAccessKey(accessKey, None)
  <2>1. w \in CredentialOps /\ w.value.identity = identity /\ w.value.key = accessKey
    BY <1>1 DEF persistAccessKey, CredentialOps, Credentials, Credential
  <2>2. credentialWrites' = Append(credentialWrites, w)
    BY <1>4 DEF SignedIn
  <2>3. Rerecorded(w.value)
    BY <1>1, <1>2, <2>1 DEF Rerecorded
  <2> HIDE DEF w
  <2>4. QED
    BY <1>1, <2>1, <2>2, <2>3, RecordedAppended
<1>5. QED
  BY <1>3, <1>4

LEMMA ListReadScopes == ASSUME BaseInv, OwnInv, ScopeInv, ListRead PROVE ScopeInv'
<1>1. /\ UNCHANGED <<accessKey, identity, lastIdentity, credentialFile, change, config, cacheFile>>
      /\ refresh.account \in Accounts /\ refresh.account = Account /\ view \in Views /\ hubVersion \in Nat
      /\ currentSnapshot \in Snapshots /\ SignedIn
  BY DEF BaseInv, ListRead, Answered, ReadTypes, CountTypes, Refreshes, Idle, userVars, OwnInv, RefreshOwn
<1> DEFINE devices == Read(refresh.account)
           charts == IF currentSnapshot.live THEN ForView(currentSnapshot.charts, view) ELSE None
<1>2. currentSnapshot' = [devices |-> devices, charts |-> charts, live |-> TRUE] /\ CacheWrite(currentSnapshot')
  BY DEF ListRead
<1>3. devices \in ReadParts /\ devices.account = Account
  BY <1>1 DEF Read, ReadParts
<1>4. charts \in ReadParts \cup {None} /\ (charts # None => charts.account = Account)
  BY <1>1 DEF ForView, Snapshots, OwnInv, ShownIsOwn, Parts
<1> HIDE DEF devices, charts
<1>5. currentSnapshot' \in Snapshots /\ \A part \in Parts(currentSnapshot') : part.account = Account
  BY <1>2, <1>3, <1>4 DEF Snapshots, Parts
<1>6. \A e \in Held' : Rewritten(e)
  BY <1>1, <1>2, <1>5, HeldWritten
<1>7. Account # None
  BY <1>1, DesktopAssumption
<1>8. QED
  BY <1>1, <1>6, <1>7, SignedInScopes, KeySame, ScopesKept

LEMMA ChartReadScopes == ASSUME BaseInv, OwnInv, ScopeInv, ChartRead PROVE ScopeInv'
<1>1. /\ UNCHANGED <<accessKey, identity, lastIdentity, credentialFile, credentialWrites, change, config, cacheFile>> /\ RefreshOwn
  BY DEF ChartRead, credentialVars, userVars, OwnInv
<1>2. refresh.devices \in ReadParts /\ (current => refresh.devices.account = Account)
  BY <1>1, ChartsAreOwn
<1>3. PICK charts \in ReadParts \cup {None} :
        /\ current /\ charts # None => charts.account = Account
        /\ IF current
           THEN /\ currentSnapshot' = [devices |-> refresh.devices, charts |-> charts, live |-> TRUE]
                /\ CacheWrite(currentSnapshot')
           ELSE UNCHANGED <<currentSnapshot, loaded, pending, blocked, cacheWrites>>
  BY <1>1, ChartsAreOwn
<1>4. \A e \in Held' : Rewritten(e)
  <2>1. CASE current
    <3>1. currentSnapshot' = [devices |-> refresh.devices, charts |-> charts, live |-> TRUE]
            /\ CacheWrite(currentSnapshot')
      BY <1>3, <2>1
    <3>2. currentSnapshot' \in Snapshots /\ \A part \in Parts(currentSnapshot') : part.account = Account
      BY <1>2, <1>3, <2>1, <3>1 DEF Snapshots, Parts
    <3>3. QED
      BY <1>1, <3>1, <3>2, HeldWritten
  <2>2. CASE ~current
    BY <1>1, <1>3, <2>2, HeldSame
  <2>3. QED
    BY <2>1, <2>2
<1>5. QED
  BY <1>1, <1>4, KeySame, RecordedSame, ScopesKept

LEMMA SessionDeniedScopes ==
    ASSUME BaseInv, ScopeInv, NEW who, SessionDenied(who) PROVE ScopeInv'
<1>1. /\ UNCHANGED <<accessKey, identity, lastIdentity, credentialFile, change, cacheFile>> /\ CredentialTypes
           /\ CacheTypes
      /\ credentialWrites' = Outdated /\ CacheClear(None)
  BY DEF BaseInv, SessionDenied, userVars
<1>2. QED
  BY <1>1, KeySame, RecordedOutdated, HeldCleared, ScopesKept

LEMMA LoginDeniedScopes == ASSUME BaseInv, ScopeInv, LoginDenied PROVE ScopeInv'
<1>1. /\ UNCHANGED <<accessKey, identity, lastIdentity, credentialFile, change, cacheFile>> /\ CredentialTypes
           /\ CacheTypes
      /\ credentialWrites' = Outdated /\ CacheClear(None)
  BY DEF BaseInv, LoginDenied, userVars
<1>2. QED
  BY <1>1, KeySame, RecordedOutdated, HeldCleared, ScopesKept

LEMMA ChangeStartScopes == ASSUME BaseInv, ScopeInv, ChangeStart PROVE ScopeInv'
<1>1. /\ UNCHANGED <<accessKey, identity, lastIdentity, credentialFile, cacheFile>> /\ CredentialTypes /\ CacheTypes
      /\ credentialWrites' = Outdated /\ CacheClear("change") /\ change.at # "auth" /\ change'.at # "auth"
  BY DEF BaseInv, ChangeStart, ClearRemote, changing
<1>2. QED
  BY <1>1, KeySame, RecordedOutdated, HeldCleared, ScopesKept

LEMMA ConfigWrittenScopes == ASSUME BaseInv, ScopeInv, ConfigWritten PROVE ScopeInv'
<1>1. /\ UNCHANGED <<accessKey, identity, lastIdentity, credentialFile, credentialWrites, change, cacheFile>>
           /\ CacheTypes
      /\ CacheClear("config") \/ UNCHANGED <<loaded, pending, cacheWrites>>
  BY DEF BaseInv, ConfigWritten, ClearRemote, sessionVars, credentialVars
<1>2. \A e \in Held' : Rewritten(e)
  BY <1>1, HeldCleared, HeldSame
<1>3. QED
  BY <1>1, <1>2, KeySame, RecordedSame, ScopesKept

\* The address moves: the key and its identity stay.
LEMMA MovedScopes ==
    ASSUME BaseInv, ScopeInv, NEW url, setServerUrl(url), UNCHANGED <<accessKey, identity, lastIdentity, credentialFile>>,
           UNCHANGED <<loaded, pending, cacheWrites, cacheFile>>,
           change' = change \/ (change.at # "auth" /\ change'.at # "auth")
    PROVE  ScopeInv'
<1>1. credentialWrites' = Outdated \/ credentialWrites' = credentialWrites
  BY DEF setServerUrl
<1>2. \A c \in Recorded' : Rerecorded(c)
  BY <1>1, RecordedOutdated, RecordedSame DEF BaseInv
<1>3. QED
  BY <1>2, KeySame, HeldSame, ScopesKept

LEMMA AddressSetScopes == ASSUME BaseInv, ScopeInv, AddressSet PROVE ScopeInv'
<1>1. /\ setServerUrl(change.url) /\ UNCHANGED <<accessKey, identity, lastIdentity, credentialFile>>
      /\ UNCHANGED <<loaded, pending, cacheWrites, cacheFile>> /\ change.at = "cleared"
  BY DEF AddressSet, changeRest, cacheVars, memoryVars
<1>2. change'.at # "auth"
  BY <1>1 DEF AddressSet, BaseInv, UserTypes, ConnectionChanges, Idle
<1>3. QED
  BY <1>1, <1>2, MovedScopes

LEMMA ConfigMovesScopes == ASSUME BaseInv, ScopeInv, ConfigMoves PROVE ScopeInv'
<1>1. /\ setServerUrl(config.was) /\ UNCHANGED <<accessKey, identity, lastIdentity, credentialFile>>
      /\ UNCHANGED <<loaded, pending, cacheWrites, cacheFile, change>>
  BY DEF ConfigMoves
<1>2. QED
  BY <1>1, MovedScopes

LEMMA AddressDiscoveredScopes == ASSUME BaseInv, ScopeInv, AddressDiscovered PROVE ScopeInv'
<1>1. /\ setServerUrl(agentUrl) /\ UNCHANGED <<accessKey, identity, lastIdentity, credentialFile>>
      /\ UNCHANGED <<loaded, pending, cacheWrites, cacheFile, change>>
  BY DEF AddressDiscovered, userVars
<1>2. QED
  BY <1>1, MovedScopes

LEMMA SignOutScopes == ASSUME BaseInv, ScopeInv, SignOut PROVE ScopeInv'
<1>1. /\ UNCHANGED <<lastIdentity, credentialFile, loaded, pending, cacheWrites, cacheFile>> /\ CredentialTypes
      /\ credentialWrites' \in {Outdated, Append(Outdated, removeKey)} /\ accessKey' = None
  BY DEF BaseInv, SignOut, changeRest, cacheVars, memoryVars
<1>2. change'.at # "auth"
  BY DEF BaseInv, UserTypes, ConnectionChanges, Idle, SignOut
<1>3. KeyKept
  BY <1>1, <1>2 DEF KeyKept, KeyInUse
<1>4. QED
  BY <1>1, <1>3, RecordedOutdated, HeldSame, ScopesKept

LEMMA SignedOutScopes == ASSUME BaseInv, ScopeInv, SignedOut PROVE ScopeInv'
<1> DEFINE w == removeKey
<1>1. /\ UNCHANGED <<accessKey, identity, lastIdentity, credentialFile, loaded, pending, cacheWrites, cacheFile>>
      /\ CredentialTypes /\ change.at # "auth"
      /\ credentialWrites' = Append(credentialWrites, w) \/ credentialWrites' = credentialWrites
  BY DEF BaseInv, SignedOut, changeRest, cacheVars, memoryVars
<1>2. change'.at # "auth"
  BY DEF BaseInv, UserTypes, ConnectionChanges, Idle, SignedOut
<1>3. w \in CredentialOps /\ Rerecorded(w.value)
  BY RemovalFacts DEF Rerecorded
<1> HIDE DEF w
<1>4. \A c \in Recorded' : Rerecorded(c)
  BY <1>1, <1>3, RecordedAppended, RecordedSame
<1>5. QED
  BY <1>1, <1>2, <1>4, KeySame, HeldSame, ScopesKept

\* Another key is tried under an identity of its own.
LEMMA ScopesExtended ==
    ASSUME BaseInv, ScopeInv, lastIdentity' = lastIdentity + 1, identity' = lastIdentity + 1, KeyInUse' \in Keys
             \cup {None},
           \A c \in Recorded' : c \in Recorded, Held' = Held
    PROVE  ScopeInv'
<1>1. PICK owner \in [1 .. lastIdentity -> Keys \cup {None}] : OwnedBy(owner)
  BY DEF ScopeInv
<1>2. lastIdentity \in Nat
  BY DEF BaseInv, SessionTypes
<1>3. PICK next \in [1 .. lastIdentity + 1 -> Keys \cup {None}] :
        /\ next[lastIdentity + 1] = KeyInUse'
        /\ \A i \in 1 .. lastIdentity : i \in 1 .. lastIdentity + 1 /\ next[i] = owner[i]
  <2>1. ASSUME NEW key \in Keys \cup {None}
        PROVE  \E next \in [1 .. lastIdentity + 1 -> Keys \cup {None}] :
                 /\ next[lastIdentity + 1] = key
                 /\ \A i \in 1 .. lastIdentity : i \in 1 .. lastIdentity + 1 /\ next[i] = owner[i]
    <3> DEFINE f == [i \in 1 .. lastIdentity + 1 |-> IF i = lastIdentity + 1 THEN key ELSE owner[i]]
    <3>1. /\ f \in [1 .. lastIdentity + 1 -> Keys \cup {None}] /\ f[lastIdentity + 1] = key
          /\ \A i \in 1 .. lastIdentity : i \in 1 .. lastIdentity + 1 /\ f[i] = owner[i]
      BY <1>2
    <3>2. QED
      BY <3>1
  <2>2. QED
    BY <2>1
<1>4. \A c \in Recorded \ {None} : c.identity \in 1 .. lastIdentity
  BY DEF BaseInv, Identified, Recorded
<1>5. \A c \in Recorded' \ {None} : next[c.identity] = c.key
  BY <1>1, <1>3, <1>4 DEF OwnedBy
<1>6. ASSUME NEW e \in Held \ {None} PROVE Owned(next, e)'
  <2>1. Owned(owner, e)
    BY <1>1 DEF OwnedBy
  <2>2. QED
    BY <1>2, <1>3, <2>1 DEF Owned
<1>7. OwnedBy(next)'
  BY <1>3, <1>5, <1>6 DEF OwnedBy, Owned
<1>8. QED
  BY <1>3, <1>7 DEF ScopeInv

LEMMA LoginScopes ==
    ASSUME BaseInv, ScopeInv, change.at # "auth", Login, change' = [change EXCEPT !.at = "auth"],
           UNCHANGED <<credentialFile, loaded, pending, cacheWrites, cacheFile>>, change # Idle
    PROVE  ScopeInv'
<1>1. change'.at = "auth" /\ change'.key = change.key /\ change.key \in Keys \cup {None}
  BY DEF BaseInv, UserTypes, ConnectionChanges
<1>2. KeyInUse' = change.key /\ KeyInUse = accessKey
  BY <1>1 DEF KeyInUse
<1>3. credentialWrites' = Outdated /\ CredentialTypes
  BY DEF BaseInv, Login
<1>4. CASE accessKey = change.key
  <2>1. KeyKept /\ lastIdentity' = lastIdentity
    BY <1>2, <1>4 DEF KeyKept, Login
  <2>2. QED
    BY <1>3, <2>1, RecordedOutdated, HeldSame, ScopesKept
<1>5. CASE accessKey # change.key
  <2>1. lastIdentity' = lastIdentity + 1 /\ identity' = lastIdentity + 1
    BY <1>5 DEF Login
  <2>2. \A i \in DOMAIN credentialWrites' : \E j \in DOMAIN credentialWrites : credentialWrites'[i].value = credentialWrites[j].value
    BY <1>3, OutdatedFacts DEF Awaiting
  <2>3. \A c \in Recorded' : c \in Recorded
    BY <2>2 DEF Recorded
  <2>4. Held' = Held
    BY DEF Held
  <2>5. QED
    BY <1>1, <1>2, <2>1, <2>3, <2>4, ScopesExtended
<1>6. QED
  BY <1>4, <1>5

LEMMA AgentAnswersScopes == ASSUME BaseInv, ScopeInv, AgentAnswers PROVE ScopeInv'
<1>1. /\ UNCHANGED <<credentialFile, loaded, pending, cacheWrites, cacheFile>>
           /\ change.at \in {"cleared", "agent"} /\ change # Idle
      /\ CredentialTypes
  BY DEF BaseInv, AgentAnswers, changeRest, cacheVars, memoryVars, credentialVars, Idle
<1>2. CASE Login /\ change' = [change EXCEPT !.at = "auth"]
  BY <1>1, <1>2, LoginScopes
<1>3. CASE /\ UNCHANGED <<accessKey, identity, lastIdentity>>
           /\ change' = [change EXCEPT !.at = "undo"] /\ credentialWrites' = Outdated
  <2>1. change'.at = "undo"
    BY <1>1, <1>3 DEF BaseInv, UserTypes, ConnectionChanges
  <2>2. QED
    BY <1>1, <1>3, <2>1, KeySame, HeldSame, RecordedOutdated, ScopesKept
<1>4. CASE /\ UNCHANGED <<accessKey, identity, lastIdentity, credentialWrites>>
           /\ change' = [change EXCEPT !.at = "signout"]
  <2>1. change'.at = "signout"
    BY <1>1, <1>4 DEF BaseInv, UserTypes, ConnectionChanges
  <2>2. QED
    BY <1>1, <1>4, <2>1, KeySame, HeldSame, RecordedSame, ScopesKept
<1>5. QED
  BY <1>2, <1>3, <1>4 DEF AgentAnswers, sessionVars, credentialVars

LEMMA LoginReplyScopes == ASSUME BaseInv, ScopeInv, LoginReply PROVE ScopeInv'
<1>1. /\ UNCHANGED <<identity, lastIdentity, credentialFile, loaded, pending, cacheWrites, cacheFile>>
      /\ change.at = "auth" /\ accessKey = None /\ change.key \in Keys /\ CredentialTypes
      /\ serverUrl \in Urls \cup {None} /\ identity \in Nat /\ KeyInUse = change.key /\ change.key # None
  BY DEF BaseInv, SessionTypes, ChangePlaced, LoginReply, changeRest, cacheVars, memoryVars, UserTypes,
      ConnectionChanges, Idle, KeyInUse
<1>2. CASE /\ accessKey' = change.key /\ change' = [change EXCEPT !.at = "storing"]
           /\ credentialWrites' = Append(credentialWrites, persistAccessKey(change.key, "change"))
  <2> DEFINE w == persistAccessKey(change.key, "change")
  <2>1. w \in CredentialOps /\ w.value.identity = identity /\ w.value.key = change.key
    BY <1>1 DEF persistAccessKey, CredentialOps, Credentials, Credential
  <2>2. Rerecorded(w.value) /\ credentialWrites' = Append(credentialWrites, w)
    BY <1>1, <1>2, <2>1 DEF Rerecorded
  <2> HIDE DEF w
  <2>3. \A c \in Recorded' : Rerecorded(c)
    BY <1>1, <2>1, <2>2, RecordedAppended
  <2>4. change'.at # "auth"
    BY <1>1, <1>2 DEF BaseInv, UserTypes, ConnectionChanges, Idle
  <2>5. KeyKept
    BY <1>1, <1>2, <2>4 DEF KeyKept, KeyInUse
  <2>6. QED
    BY <1>1, <2>3, <2>5, HeldSame, ScopesKept
<1>3. CASE /\ \/ change' = [change EXCEPT !.at = "undo"] /\ accessKey' = accessKey
              \/ change' = [change EXCEPT !.at = "stored"] /\ accessKey' = change.key
           /\ UNCHANGED credentialWrites
  <2>1. change'.at # "auth"
    BY <1>1, <1>3 DEF BaseInv, UserTypes, ConnectionChanges, Idle
  <2>2. KeyKept
    BY <1>1, <1>3, <2>1 DEF KeyKept, KeyInUse
  <2>3. QED
    BY <1>1, <1>3, <2>2, RecordedSame, HeldSame, ScopesKept
<1>4. QED
  BY <1>2, <1>3 DEF LoginReply

LEMMA RestartScopes == ASSUME BaseInv, ScopeInv, Restart PROVE ScopeInv'
<1>1. /\ UNCHANGED <<lastIdentity, credentialFile, cacheFile>> /\ loaded' = None /\ pending' = None
      /\ cacheWrites' = <<>> /\ credentialWrites' = <<>> /\ KeyInUse' = accessKey'
      /\ \/ credentialFile # None /\ accessKey' = credentialFile.key /\ identity' = credentialFile.identity
         \/ accessKey' = None
  BY DEF Restart, Fresh, Decrypted, KeyInUse, Idle
<1>2. KeyKept
  BY <1>1 DEF KeyKept, Recorded
<1>3. Recorded' = {credentialFile} /\ Held' = {cacheFile, None}
  BY <1>1 DEF Recorded, Held
<1>4. \A e \in Held' : Rewritten(e)
  BY <1>3 DEF Held, Rewritten
<1>5. \A c \in Recorded' : Rerecorded(c)
  BY <1>3 DEF Recorded, Rerecorded
<1>6. QED
  BY <1>1, <1>2, <1>4, <1>5, ScopesKept

LEMMA ShutdownScopes == ASSUME BaseInv, ScopeInv, Shutdown PROVE ScopeInv'
<1>1. /\ UNCHANGED <<accessKey, identity, lastIdentity, credentialFile, credentialWrites, change, config, loaded, pending, cacheFile>>
      /\ CacheTypes /\ CacheAwaited /\ cacheWrites' = QueueFlush(cacheWrites)
  BY DEF BaseInv, Shutdown, sessionVars, credentialVars, memoryVars, userVars
<1>2. cacheWrites' = cacheWrites \/ cacheWrites' = Append(cacheWrites, FlushOp)
  BY <1>1, FlushQueued
<1>3. ASSUME NEW i \in DOMAIN cacheWrites'
      PROVE  cacheWrites'[i].envelope = None \/ (i \in DOMAIN cacheWrites /\ cacheWrites'[i] = cacheWrites[i])
  <2>1. CASE cacheWrites' = Append(cacheWrites, FlushOp)
    <3>1. FlushOp \in CacheOps /\ FlushOp.envelope = None
      BY DEF FlushOp, CacheOps
    <3>2. /\ DOMAIN cacheWrites' = 1 .. Len(cacheWrites) + 1 /\ Len(cacheWrites) \in Nat
          /\ DOMAIN cacheWrites = 1 .. Len(cacheWrites) /\ cacheWrites'[Len(cacheWrites) + 1] = FlushOp
          /\ \A k \in 1 .. Len(cacheWrites) : cacheWrites'[k] = cacheWrites[k]
      BY <1>1, <2>1, <3>1, AppendProperties, LenProperties DEF CacheTypes
    <3>3. QED
      BY <3>1, <3>2
  <2>2. QED
    BY <1>2, <2>1
<1>4. \A e \in Held' : Rewritten(e)
  BY <1>1, <1>3 DEF Held, Rewritten
<1>5. QED
  BY <1>1, <1>4, KeySame, RecordedSame, ScopesKept

LEMMA StepScopes ==
    ASSUME BaseInv, OwnInv, ScopeInv, [DesktopNext]_desktopVars
    PROVE  ScopeInv'
<1> DEFINE still == /\ UNCHANGED <<accessKey, identity, lastIdentity, credentialFile, credentialWrites>>
                    /\ UNCHANGED <<loaded, pending, cacheWrites, cacheFile>>
<1>1. ASSUME still, change' = change \/ (change.at # "auth" /\ change'.at # "auth") PROVE ScopeInv'
  BY <1>1, KeySame, RecordedSame, HeldSame, ScopesKept
<1>2. CASE AskRefresh \/ Hide \/ ListFails \/ Open \/ UNCHANGED desktopVars
  <2>1. still /\ change' = change
    BY <1>2 DEF AskRefresh, Hide, ListFails, Open, desktopVars, sessionVars, credentialVars, cacheVars, memoryVars,
        userVars
  <2>2. QED
    BY <1>1, <2>1
<1>3. CASE Mutate \/ MutationReply \/ MutationFails \/ ConfigRead
  <2>1. still /\ change' = change
    BY <1>3 DEF Mutate, MutationReply, MutationFails, ConfigRead, sessionVars, credentialVars, cacheVars, memoryVars,
        userVars
  <2>2. QED
    BY <1>1, <2>1
<1>4. CASE AgentFails \/ SecretStored \/ ChangeEnds
  <2>1. still /\ change.at # "auth" /\ change.at # "idle"
    BY <1>4 DEF AgentFails, SecretStored, ChangeEnds, changeRest, sessionVars, credentialVars, cacheVars, memoryVars
  <2>2. change'.at # "auth"
    BY <1>4, <2>1 DEF AgentFails, SecretStored, ChangeEnds, BaseInv, UserTypes, ConnectionChanges, Idle
  <2>3. QED
    BY <1>1, <2>1, <2>2
<1>5. CASE \E who \in {"refresh", "mutation", "live"} : SessionDenied(who)
  BY <1>5, SessionDeniedScopes
<1>6. CASE FlushBegins \/ FlushEnds \/ ClearEnds \/ CredentialWrite \/ CacheRead \/ ListRead \/ ChartRead
        \/ Opened \/ LoginDenied
  BY <1>6, FlushBeginsScopes, FlushEndsScopes, ClearEndsScopes, CredentialWriteScopes, CacheReadScopes,
      ListReadScopes,
     ChartReadScopes, OpenedScopes, LoginDeniedScopes
<1>7. CASE ChangeStart \/ SignOut \/ SignedOut \/ AddressSet \/ AgentAnswers \/ LoginReply
  BY <1>7, ChangeStartScopes, SignOutScopes, SignedOutScopes, AddressSetScopes, AgentAnswersScopes, LoginReplyScopes
<1>8. CASE ConfigWritten \/ ConfigMoves \/ AddressDiscovered \/ Shutdown \/ Restart
  BY <1>8, ConfigWrittenScopes, ConfigMovesScopes, AddressDiscoveredScopes, ShutdownScopes, RestartScopes
<1>9. QED
  BY <1>2, <1>3, <1>4, <1>5, <1>6, <1>7, <1>8 DEF DesktopNext

\* With the invariants on who reads and who shows, whatever the store holds
\* under the present scope is of the present account.
LEMMA OwnSuffices ==
    ASSUME BaseInv, ReadInv, ~late /\ ~swapped => OwnInv /\ ScopeInv
    PROVE  DesktopSound
<1>1. DesktopTypeOK
  BY TypesAre DEF BaseInv
<1>2. ASSUME BaseInv, ScopeInv PROVE CacheIsOwn
  <2>1. ASSUME NEW held \in {cacheFile, pending, loaded} \ {None}, held.scope = cacheScope, held.snapshot # None
        PROVE  \A part \in Parts(held.snapshot) : part.account = Account
    <3>1. held \in Held /\ held \in Envelopes
      BY <2>1 DEF Held, BaseInv, CacheTypes
    <3>2. cacheScope # None
      BY <2>1, <3>1, DesktopAssumption DEF Envelopes
    <3>3. QED
      BY <1>2, <2>1, <3>1, <3>2, HeldIsOwn
  <2>2. QED
    BY <2>1 DEF CacheIsOwn
<1>3. OwnInv => ShownIsOwn /\ PausedWhileChanging
  BY DEF OwnInv, ChangeBlank, PausedWhileChanging
<1>4. QED
  BY <1>1, <1>2, <1>3 DEF ReadInv, DesktopSound

LEMMA InitOwn == ASSUME DesktopInit PROVE ReadInv /\ CacheInv /\ OwnInv /\ ScopeInv
<1>1. /\ opener = Idle /\ change = Idle /\ config = Idle /\ mutation = Idle /\ refresh = Idle
      /\ current = FALSE /\ currentSnapshot = emptySnapshot /\ blocked = FALSE
      /\ loaded = None /\ pending = None /\ cacheFile = None /\ cacheWrites = <<>> /\ credentialWrites = <<>>
      /\ lastIdentity = 1 /\ Parts(currentSnapshot) = {}
  BY EmptyFacts DEF DesktopInit
<1>2. ReadInv
  BY <1>1, FreshReads
<1>3. CacheInv
  BY <1>1 DEF CacheInv, WriteFirst, ClearLast
<1>4. OwnInv
  BY <1>1 DEF OwnInv, ChangeBlank, EditBlank, OpenerOwn, RefreshOwn, ShownIsOwn, changing, Idle
<1>5. ScopeInv
  <2> DEFINE key == IF credentialFile = None THEN None ELSE credentialFile.key
             owner == [i \in 1 .. 1 |-> key]
  <2>1. /\ KeyInUse = accessKey /\ key \in Keys \cup {None} /\ Recorded = {credentialFile} /\ Held = {None}
        /\ KeyInUse # None => identity = 1 /\ accessKey = key
        /\ credentialFile # None => credentialFile.key = key /\ credentialFile.identity = 1
    BY <1>1 DEF KeyInUse, Recorded, Held, Idle, DesktopInit, Decrypted
  <2> HIDE DEF key
  <2>2. owner \in [1 .. lastIdentity -> Keys \cup {None}] /\ owner[1] = key
    BY <1>1, <2>1
  <2> HIDE DEF owner
  <2>3. OwnedBy(owner)
    BY <2>1, <2>2 DEF OwnedBy
  <2>4. QED
    BY <2>2, <2>3 DEF ScopeInv
<1>6. QED
  BY <1>2, <1>3, <1>4, <1>5

-----------------------------------------------------------------------------
(* Theorems                                                                *)

LEMMA StepIs ==
    ASSUME [DesktopNext /\ Overlaps]_<<desktopVars, overlapVars>> PROVE [DesktopNext]_desktopVars
OBVIOUS

\* Types of the desktop console's state: identities, versions and restarts stay
\* within their bounds, and the end of every queued write finds the operation
\* that awaits it where it waits.
THEOREM DesktopTypes == DesktopSpec => []DesktopTypeOK
<1>1. DesktopInit => BaseInv
  BY InitTypes
<1>2. BaseInv /\ [DesktopNext /\ Overlaps]_<<desktopVars, overlapVars>> => BaseInv'
  BY StepIs, StepTypes
<1>3. BaseInv => DesktopTypeOK
  BY TypesAre DEF BaseInv
<1>4. QED
  BY <1>1, <1>2, <1>3, PTL DEF DesktopSpec

LEMMA ReadsInvariant == DesktopSpec => []ReadInv
<1>1. DesktopInit => BaseInv /\ ReadInv
  BY InitTypes, InitOwn
<1>2. BaseInv /\ ReadInv /\ [DesktopNext /\ Overlaps]_<<desktopVars, overlapVars>> => (BaseInv /\ ReadInv)'
  BY StepIs, StepTypes, StepReads
<1>3. QED
  BY <1>1, <1>2, PTL DEF DesktopSpec

\* The live charts on screen are of the view their devices were read for,
\* however selections, refreshes and late replies of readLiveData overlap.
THEOREM ChartsFitViewHolds == DesktopSpec => []ChartsFitView
<1>1. ReadInv => ChartsFitView
  BY DEF ReadInv
<1>2. QED
  BY <1>1, ReadsInvariant, PTL

\* refreshAfterMutation answers a management write with a read that began
\* after it, unless the window was hidden or nothing live is shown.
THEOREM WriteIsRereadHolds == DesktopSpec => []WriteIsReread
<1>1. ReadInv => WriteIsReread
  BY DEF ReadInv
<1>2. QED
  BY <1>1, ReadsInvariant, PTL

\* What DesktopCacheStore.clear has emptied stays empty until the next live
\* read is stored: no flush queued before it writes the file again.
THEOREM ClearedStaysClearedHolds == DesktopSpec => []ClearedStaysCleared
<1>1. DesktopInit => BaseInv /\ CacheInv
  BY InitTypes, InitOwn
<1>2. BaseInv /\ CacheInv /\ [DesktopNext /\ Overlaps]_<<desktopVars, overlapVars>> => (BaseInv /\ CacheInv)'
  BY StepIs, StepTypes, StepOrdered
<1>3. BaseInv /\ CacheInv => ClearedStaysCleared
  <2>1. ASSUME BaseInv, CacheInv, blocked, clearReached, \A i \in DOMAIN cacheWrites : cacheWrites[i].op # "clear"
        PROVE  cacheFile = None
    <3>1. cacheWrites # <<>> => Len(cacheWrites) \in DOMAIN cacheWrites
      BY <2>1, TailFacts DEF BaseInv, CacheTypes
    <3>2. QED
      BY <2>1, <3>1 DEF CacheInv, ClearLast
  <2>2. QED
    BY <2>1 DEF ClearedStaysCleared
<1>4. QED
  BY <1>1, <1>2, <1>3, PTL DEF DesktopSpec

\* What the console shows, and what a restart would show of the offline cache,
\* is of the account and the Hub it is connected to, in every behaviour of the
\* code, until a refresh is queued by the discovery of an address during a change
\* of the connection, or runs while an edit waits for the cache to be emptied.
THEOREM DesktopSoundHolds == DesktopSpec => []DesktopSound
<1> DEFINE SoundInv == BaseInv /\ ReadInv /\ (~late /\ ~swapped => OwnInv /\ ScopeInv)
<1>1. DesktopInit => SoundInv
  BY InitTypes, InitOwn
<1>2. SoundInv /\ [DesktopNext /\ Overlaps]_<<desktopVars, overlapVars>> => SoundInv'
  <2> SUFFICES ASSUME SoundInv, [DesktopNext /\ Overlaps]_<<desktopVars, overlapVars>> PROVE SoundInv'
    OBVIOUS
  <2>1. BaseInv' /\ ReadInv' /\ [DesktopNext]_desktopVars
    BY StepIs, StepTypes, StepReads
  <2>2. ASSUME ~late', ~swapped' PROVE OwnInv' /\ ScopeInv'
    <3>1. CASE Overlaps
      <4>1. ~late /\ ~swapped /\ NoLateDiscovery /\ Quiet
        BY <2>2, <3>1 DEF Overlaps, NoLateDiscovery, Quiet
      <4>2. QED
        BY <2>1, <4>1, StepOwn, StepScopes
    <3>2. CASE UNCHANGED <<desktopVars, overlapVars>>
      <4>1. OwnInv /\ ScopeInv
        BY <2>2, <3>2 DEF overlapVars
      <4>2. UNCHANGED <<accessKey, serverUrl, identity, opener, change, config, refresh, queued, current,
                        currentSnapshot, sameCache, blocked>>
        BY <3>2 DEF desktopVars, sessionVars, cacheVars, memoryVars, readVars, userVars
      <4>3. Account' = Account /\ cacheScope' = cacheScope
        BY <4>2, AccountKept
      <4>4. OwnInv'
        BY <4>1, <4>2, <4>3 DEF OwnInv, ChangeBlank, EditBlank, OpenerOwn, RefreshOwn, ShownIsOwn, changing
      <4>5. QED
        BY <2>1, <4>1, <4>4, StepScopes
    <3>3. QED
      BY <3>1, <3>2
  <2>3. QED
    BY <2>1, <2>2
<1>3. SoundInv => DesktopSound
  BY OwnSuffices
<1> HIDE DEF SoundInv
<1>4. QED
  BY <1>1, <1>2, <1>3, PTL DEF DesktopSpec

-----------------------------------------------------------------------------
(* The stored credential.  Every write of it that is still wanted is that  *)
(* of the open session, or a removal, until an edit of the configuration   *)
(* moves the address under a change of the connection.                     *)

Signed == {"idle", "storing", "stored", "ended"}
Leaving == {"auth", "undo", "leaving", "removing"}

\* An edit does not take away an address that the Agent had when it was read.
EditsApart == config.at # "idle" /\ config.was # None => agentUrl # None

AllOutdated == \A i \in DOMAIN credentialWrites : ~credentialWrites[i].same

\* A restart finds no credential, whatever is still written before it, unless a
\* write of the file failed.
NothingStored ==
    /\ unsaved \/ credentialFile = None
    /\ \A i \in DOMAIN credentialWrites : credentialWrites[i].same => credentialWrites[i].op = "remove"

\* The last write that is wanted stores c, or c is stored and no write is wanted.
Stored(c) ==
    \/ \E i \in DOMAIN credentialWrites :
         /\ credentialWrites[i].same /\ credentialWrites[i].value = c
         /\ \A j \in DOMAIN credentialWrites : j > i => ~credentialWrites[j].same
    \/ (unsaved \/ credentialFile = c) /\ AllOutdated

Addressed ==
    /\ change.at \in {"agent", "auth"} => serverUrl # None
    /\ serverUrl = None /\ agentUrl # None => accessKey = None /\ NothingStored
    /\ \A i \in DOMAIN credentialWrites : credentialWrites[i].value # None => credentialWrites[i].value.url # None
    /\ credentialFile # None => credentialFile.url # None

Wanted ==
    /\ change.at \in {"auth", "removing"} => ~sessionCookie
    /\ ~safeStorage => \A i \in DOMAIN credentialWrites : credentialWrites[i].op = "remove"

SignedOff ==
    /\ change.at = "leaving" /\ "change" \notin sameSession => NothingStored
    /\ change.at = "removing" =>
        /\ credentialWrites # <<>> /\ credentialWrites[Len(credentialWrites)].op = "remove"
        /\ credentialWrites[Len(credentialWrites)].same \/ NothingStored
    /\ accessKey = None /\ change.at \notin Leaving => NothingStored

SignedOn == accessKey # None /\ sessionCookie /\ change.at \in Signed => Stored(Credential(accessKey))

CredInv == Addressed /\ Wanted /\ SignedOff /\ SignedOn

LEMMA StoredMatches == ASSUME ~crossed => CredInv PROVE CredentialMatches
<1>1. SUFFICES ASSUME ~changing, credentialWrites = <<>>, ~unsaved, ~crossed
      PROVE  /\ accessKey = None => credentialFile = None
             /\ accessKey # None /\ sessionCookie => credentialFile = Credential(accessKey)
  BY DEF CredentialMatches
<1>2. change.at = "idle" /\ change.at \notin Leaving /\ change.at \in Signed
  BY <1>1 DEF changing, Leaving, Signed
<1>3. DOMAIN credentialWrites = {}
  BY <1>1
<1>4. QED
  BY <1>1, <1>2, <1>3 DEF CredInv, SignedOff, SignedOn, NothingStored, Stored

\* Entries of a queue come from the one of now, or remove the credential.
Leaves(t) ==
    \A i \in DOMAIN t :
        \/ t[i] = removeKey
        \/ \E j \in DOMAIN credentialWrites :
             /\ t[i].op = credentialWrites[j].op /\ t[i].value = credentialWrites[j].value
             /\ t[i].same => credentialWrites[j].same

\* A queue to which the removal of the credential has been appended.
LEMMA RemovalLast ==
    ASSUME NEW q \in Seq(CredentialOps), Leaves(q)
    PROVE  LET t == Append(q, removeKey)
           IN  Leaves(t) /\ t # <<>> /\ t[Len(t)] = removeKey
<1> DEFINE t == Append(q, removeKey)
<1>1. /\ t \in Seq(CredentialOps) /\ Len(t) = Len(q) + 1 /\ DOMAIN t = 1 .. Len(q) + 1 /\ DOMAIN q = 1 .. Len(q)
      /\ Len(q) \in Nat /\ t[Len(q) + 1] = removeKey /\ \A i \in 1 .. Len(q) : t[i] = q[i]
  BY RemovalFacts, AppendProperties, LenProperties
<1> HIDE DEF t
<1>2. \A i \in DOMAIN t : t[i] = removeKey \/ (i \in DOMAIN q /\ t[i] = q[i])
  BY <1>1
<1>3. Leaves(t)
  BY <1>2 DEF Leaves
<1>4. t # <<>>
  BY <1>1, EmptySeq
<1>5. QED
  BY <1>1, <1>3, <1>4 DEF t

LEMMA OutdatedLeaves == ASSUME CredentialTypes PROVE Outdated \in Seq(CredentialOps) /\ Leaves(Outdated)
<1>1. Awaiting(Outdated)
  BY OutdatedFacts
<1>2. QED
  BY <1>1 DEF Awaiting, Leaves

\* What such a queue still writes.
LEMMA LeftFacts ==
    ASSUME Leaves(credentialWrites'), credentialFile' = credentialFile, unsaved => unsaved'
    PROVE  /\ NothingStored => NothingStored'
           /\ Addressed => \A i \in DOMAIN credentialWrites' :
                             credentialWrites'[i].value # None => credentialWrites'[i].value.url # None
           /\ (\A i \in DOMAIN credentialWrites : credentialWrites[i].op = "remove")
                => \A i \in DOMAIN credentialWrites' : credentialWrites'[i].op = "remove"
BY RemovalFacts DEF Leaves, NothingStored, Addressed

\* A sign-out awaits the last write, which stays the last one.
LEMMA OutdatedRemoval ==
    ASSUME CredentialTypes, CredentialAwaited, change.at = "removing", SignedOff
    PROVE  Outdated # <<>> /\ Outdated[Len(Outdated)].op = "remove"
<1> DEFINE P == {i \in DOMAIN credentialWrites : i = 1 \/ credentialWrites[i].by # None}
           s == Sublist(credentialWrites, P)
           N == Len(credentialWrites)
           t == Outdated
<1>1. credentialWrites \in Seq(CredentialOps) /\ credentialWrites # <<>> /\ credentialWrites[N].op = "remove"
        /\ N \in Nat \ {0} /\ DOMAIN credentialWrites = 1 .. N
  BY TailFacts DEF CredentialTypes, SignedOff
<1>2. P \in SUBSET (1 .. N) /\ 1 \in P /\ N \in P
  BY <1>1, DesktopAssumption DEF CredentialAwaited
<1>3. IsFiniteSet(P) /\ Cardinality(P) \in Nat
  <2>1. IsFiniteSet(1 .. N)
    BY <1>1, FS_Interval
  <2>2. QED
    BY <1>2, <2>1, FS_Subset, FS_CardinalityType
<1>4. s \in Seq(CredentialOps) /\ Len(s) = Cardinality(P)
  <2> HIDE DEF P
  <2>1. QED
    BY <1>1, <1>2, SublistKeepsOrder
<1>5. Cardinality(P) # 0 /\ (N # 1 => Cardinality(P) # 1)
  <2> HIDE DEF P, N
  <2>1. Cardinality(P) # 0
    BY <1>2, <1>3, FS_EmptySet
  <2>2. ASSUME N # 1, Cardinality(P) = 1 PROVE FALSE
    <3>1. PICK x : P = {x}
      BY <1>3, <2>2, FS_Singleton
    <3>2. QED
      BY <1>2, <2>2, <3>1
  <2>3. QED
    BY <2>1, <2>2
<1>6. DOMAIN t = 1 .. Cardinality(P) /\ t \in Seq(CredentialOps)
  <2>1. DOMAIN s = 1 .. Cardinality(P)
    BY <1>4, LenProperties
  <2>2. DOMAIN t = DOMAIN s
    BY DEF Outdated
  <2>3. QED
    BY <2>1, <2>2, OutdatedLeaves
<1>7. Awaiting(t)
  BY OutdatedFacts
<1> HIDE DEF t, P, s
<1>8. Len(t) = Cardinality(P) /\ Len(t) \in DOMAIN t /\ t # <<>>
  <2>1. Len(t) \in Nat /\ DOMAIN t = 1 .. Len(t)
    BY <1>6, LenProperties
  <2>2. Len(t) = Cardinality(P)
    BY <1>3, <1>6, <2>1
  <2>3. Len(t) \in DOMAIN t
    BY <1>3, <1>5, <1>6, <2>2
  <2>4. QED
    BY <2>2, <2>3
<1>9. PICK at \in [DOMAIN t -> DOMAIN credentialWrites] :
         \A i \in DOMAIN t : /\ t[i].op = credentialWrites[at[i]].op /\ t[i].by = credentialWrites[at[i]].by
                             /\ i # 1 => t[i].by # None
  BY <1>7 DEF Awaiting
<1>10. at[Len(t)] \in DOMAIN credentialWrites
  BY <1>8, <1>9
<1>11. t[Len(t)].op = "remove"
  <2>1. CASE N = 1
    BY <1>1, <1>8, <1>9, <1>10, <2>1
  <2>2. CASE N # 1
    <3>1. t[Len(t)].by # None
      BY <1>5, <1>8, <1>9, <2>2
    <3>2. credentialWrites[at[Len(t)]].by # None /\ credentialWrites[at[Len(t)]] \in CredentialOps
      BY <1>1, <1>8, <1>9, <1>10, <3>1, ElementOfSeq
    <3>3. credentialWrites[at[Len(t)]].op # "save"
      BY <1>10, <3>2 DEF CredentialAwaited
    <3>4. QED
      BY <1>8, <1>9, <3>2, <3>3 DEF CredentialOps
  <2>3. QED
    BY <2>1, <2>2
<1>12. QED
  BY <1>8, <1>11 DEF t

\* A change of the connection goes on with the same session and credential.
LEMMA CredSame ==
    ASSUME CredInv,
           UNCHANGED <<accessKey, serverUrl, identity, sessionCookie, credentialWrites, keptVars>>,
           agentUrl' = agentUrl \/ (agentUrl' # None => agentUrl # None),
           "change" \in sameSession => "change" \in sameSession',
           \/ change'.at = change.at
           \/ /\ change.at \notin {"leaving", "removing", "auth"} /\ change'.at \notin {"leaving", "removing", "auth"}
              /\ change'.at = "agent" => serverUrl # None
              /\ change'.at \in Signed => change.at \in Signed
              /\ change'.at \in Leaving \/ change.at \notin Leaving
           \/ change.at = "auth" /\ change'.at = "undo"
    PROVE  CredInv'
<1>1. (AllOutdated' <=> AllOutdated) /\ (NothingStored' <=> NothingStored)
      /\ Credential(accessKey)' = Credential(accessKey)
  BY DEF AllOutdated, NothingStored, Credential
<1>2. Stored(Credential(accessKey))' <=> Stored(Credential(accessKey))
  BY <1>1 DEF Stored
<1>3. Addressed'
  BY <1>1 DEF CredInv, Addressed
<1>4. Wanted'
  BY <1>1 DEF CredInv, Wanted
<1>5. SignedOff'
  BY <1>1 DEF CredInv, SignedOff, Leaving
<1>6. SignedOn'
  BY <1>1, <1>2 DEF CredInv, SignedOn, Signed
<1>7. QED
  BY <1>3, <1>4, <1>5, <1>6 DEF CredInv

LEMMA OutdatedCred ==
    ASSUME BaseInv, CredInv, UNCHANGED keptVars, credentialWrites' = Outdated,
           change'.at \in {"agent", "auth"} => serverUrl' # None,
           serverUrl' = None /\ agentUrl' # None => accessKey' = None /\ NothingStored,
           change'.at \in {"auth", "removing"} => ~sessionCookie',
           change'.at = "leaving" /\ "change" \notin sameSession' => NothingStored,
           change'.at = "removing" => change.at = "removing" /\ NothingStored,
           accessKey' = None /\ change'.at \notin Leaving => NothingStored,
           accessKey' # None /\ change'.at \in Signed => ~sessionCookie'
    PROVE  CredInv'
<1>1. CredentialTypes /\ CredentialAwaited /\ Leaves(credentialWrites') /\ Addressed /\ SignedOff
  BY OutdatedLeaves DEF BaseInv, CredInv
<1>2. NothingStored => NothingStored'
  BY <1>1, LeftFacts
<1>3. Addressed'
  BY <1>1, <1>2, LeftFacts DEF Addressed
<1>4. Wanted'
  BY <1>1, LeftFacts DEF CredInv, Wanted
<1>5. SignedOff'
  <2>1. CASE change'.at = "removing"
    BY <1>1, <1>2, <2>1, OutdatedRemoval DEF SignedOff, Leaving
  <2>2. CASE change'.at # "removing"
    BY <1>2, <2>2 DEF SignedOff
  <2>3. QED
    BY <2>1, <2>2
<1>6. SignedOn'
  BY DEF SignedOn
<1>7. QED
  BY <1>3, <1>4, <1>5, <1>6 DEF CredInv

\* The user signs out: the last write of the credential will remove it.
LEMMA RemovalCred ==
    ASSUME BaseInv, CredInv, UNCHANGED keptVars, accessKey' = None, change'.at = "removing", ~sessionCookie',
           UNCHANGED <<serverUrl, agentUrl>>,
           NEW q \in Seq(CredentialOps), Leaves(q), credentialWrites' = Append(q, removeKey)
    PROVE  CredInv'
<1>1. Leaves(credentialWrites') /\ credentialWrites' # <<>> /\ credentialWrites'[Len(credentialWrites')] = removeKey
  BY RemovalLast
<1>2. NothingStored => NothingStored'
  BY <1>1, LeftFacts
<1>3. Addressed'
  BY <1>1, <1>2, LeftFacts DEF CredInv, Addressed
<1>4. Wanted'
  BY <1>1, LeftFacts DEF CredInv, Wanted
<1>5. SignedOff' /\ SignedOn'
  BY <1>1, RemovalFacts DEF SignedOff, SignedOn, Leaving
<1>6. QED
  BY <1>3, <1>4, <1>5 DEF CredInv

LEMMA AppendedFacts ==
    ASSUME CredentialTypes, NEW w \in CredentialOps, credentialWrites' = Append(credentialWrites, w)
    PROVE  /\ Len(credentialWrites') \in DOMAIN credentialWrites' /\ credentialWrites'[Len(credentialWrites')] = w
           /\ \A i \in DOMAIN credentialWrites' :
                \/ i = Len(credentialWrites') /\ credentialWrites'[i] = w
                \/ /\ i \in DOMAIN credentialWrites /\ credentialWrites'[i] = credentialWrites[i]
                   /\ ~(i > Len(credentialWrites'))
<1>1. /\ credentialWrites' \in Seq(CredentialOps) /\ Len(credentialWrites') = Len(credentialWrites) + 1
           /\ Len(credentialWrites) \in Nat
      /\ DOMAIN credentialWrites' = 1 .. Len(credentialWrites) + 1
           /\ DOMAIN credentialWrites = 1 .. Len(credentialWrites)
      /\ credentialWrites'[Len(credentialWrites) + 1] = w
      /\ \A i \in 1 .. Len(credentialWrites) : credentialWrites'[i] = credentialWrites[i]
  BY AppendProperties, LenProperties DEF CredentialTypes
<1>2. QED
  BY <1>1

\* The credential of the key in use is to be stored.
LEMMA SaveCred ==
    ASSUME BaseInv, CredInv, UNCHANGED keptVars, NEW w \in CredentialOps, safeStorage,
           credentialWrites' = Append(credentialWrites, w), sessionCookie' = TRUE,
           w.same, w.value # None, w.value = Credential(accessKey)',
           serverUrl # None, serverUrl' = serverUrl,
           accessKey' # None, change'.at \notin {"auth", "leaving", "removing"}
    PROVE  CredInv'
<1> DEFINE N == Len(credentialWrites')
<1>1. /\ N \in DOMAIN credentialWrites' /\ credentialWrites'[N] = w
      /\ \A i \in DOMAIN credentialWrites' :
           \/ i = N /\ credentialWrites'[i] = w
           \/ i \in DOMAIN credentialWrites /\ credentialWrites'[i] = credentialWrites[i] /\ ~(i > N)
  BY AppendedFacts DEF BaseInv
<1>2. w.value.url # None
  BY DEF Credential
<1>3. Addressed'
  BY <1>1, <1>2 DEF CredInv, Addressed
<1>4. Wanted' /\ SignedOff'
  BY DEF Wanted, SignedOff
<1>5. N \in Nat
  BY <1>1, AppendProperties, LenProperties DEF BaseInv, CredentialTypes
<1> HIDE DEF N
<1>6. \A j \in DOMAIN credentialWrites' : ~(j > N)
  BY <1>1, <1>5
<1>7. \E i \in DOMAIN credentialWrites' :
         /\ credentialWrites'[i].same /\ credentialWrites'[i].value = w.value
         /\ \A j \in DOMAIN credentialWrites' : j > i => ~credentialWrites'[j].same
  BY <1>1, <1>6
<1>8. SignedOn'
  BY <1>7 DEF SignedOn, Stored
<1>9. QED
  BY <1>3, <1>4, <1>8 DEF CredInv

\* The session is open, and its key is known not to be in the file.
LEMMA UnsavedCred ==
    ASSUME BaseInv, CredInv, UNCHANGED <<serverUrl, agentUrl, credentialWrites, credentialFile, safeStorage>>,
           unsaved', sessionCookie' = TRUE, serverUrl # None, accessKey' # None,
           change'.at \notin {"auth", "leaving", "removing"}, AllOutdated
    PROVE  CredInv'
<1>1. Addressed'
  BY DEF CredInv, Addressed
<1>2. Wanted' /\ SignedOff'
  BY DEF CredInv, Wanted, SignedOff
<1>3. SignedOn'
  BY DEF SignedOn, Stored, AllOutdated
<1>4. QED
  BY <1>1, <1>2, <1>3 DEF CredInv

\* Without encryption nothing but a removal is written, which a sign-out awaits.
LEMMA NothingToWrite ==
    ASSUME BaseInv, CredInv, ~safeStorage, change.at # "removing"
    PROVE  AllOutdated
BY DesktopAssumption DEF BaseInv, CredentialAwaited, CredInv, Wanted, AllOutdated

LEMMA ClearEndsCred == ASSUME BaseInv, CredInv, ClearEnds PROVE CredInv'
<1>1. /\ UNCHANGED <<accessKey, serverUrl, identity, sessionCookie, sameSession, agentUrl, credentialWrites, keptVars>>
      /\ CacheTypes /\ CacheAwaited /\ cacheWrites # <<>>
  BY DEF BaseInv, ClearEnds, sessionVars, credentialVars
<1>2. 1 \in DOMAIN cacheWrites /\ Head(cacheWrites) = cacheWrites[1]
  BY <1>1, TailFacts DEF CacheTypes
<1>3. change'.at = change.at \/ (change.at = "clearing" /\ change'.at \in {"cleared", "undo"})
  <2>1. CASE Head(cacheWrites).by = "change"
    <3>1. change.at = "clearing" /\ change' \in {[change EXCEPT !.at = "cleared"], [change EXCEPT !.at = "undo"]}
      BY <1>1, <1>2, <2>1 DEF ClearEnds, CacheAwaited
    <3>2. QED
      BY <3>1 DEF BaseInv, UserTypes, ConnectionChanges, Idle
  <2>2. CASE Head(cacheWrites).by # "change"
    BY <2>2 DEF ClearEnds
  <2>3. QED
    BY <2>1, <2>2
<1>4. QED
  BY <1>1, <1>3, CredSame DEF Signed, Leaving

\* The first write of the credential has ended.
LEMMA CredentialWriteCred == ASSUME BaseInv, CredInv, CredentialWrite PROVE CredInv'
<1> DEFINE w == credentialWrites[1]
           N == Len(credentialWrites)
<1>1. /\ UNCHANGED <<accessKey, serverUrl, identity, sessionCookie, sameSession, agentUrl, safeStorage>>
      /\ CredentialTypes /\ CredentialAwaited /\ credentialWrites # <<>> /\ credentialWrites' = Tail(credentialWrites)
  BY DEF BaseInv, CredentialWrite, sessionVars
<1>2. /\ 1 \in DOMAIN credentialWrites /\ Head(credentialWrites) = w /\ w \in CredentialOps
      /\ N \in Nat \ {0} /\ DOMAIN credentialWrites = 1 .. N /\ DOMAIN credentialWrites' = 1 .. N - 1
      /\ \A i \in DOMAIN credentialWrites' : i + 1 \in DOMAIN credentialWrites
           /\ credentialWrites'[i] = credentialWrites[i + 1]
  BY <1>1, TailFacts DEF CredentialTypes
<1>3. Len(credentialWrites') = N - 1
  BY <1>1, HeadTailProperties DEF CredentialTypes
<1>4. PICK ok \in BOOLEAN :
        /\ credentialFile' = IF ok /\ w.same THEN w.value ELSE credentialFile
        /\ unsaved' = IF w.same THEN ~ok ELSE unsaved
        /\ change' = IF w.by # "change" THEN change
                     ELSE [change EXCEPT !.at = IF w.op = "remove" THEN "ended" ELSE IF ok THEN "stored" ELSE "undo"]
  BY <1>2 DEF CredentialWrite
<1>5. \/ change'.at = change.at /\ w.by # "change"
      \/ change.at = "storing" /\ change'.at \in {"stored", "undo"}
      \/ change.at = "removing" /\ change'.at = "ended" /\ w.by = "change"
  <2>1. CASE w.by = "change"
    <3>1. change.at = IF w.op = "save" THEN "storing" ELSE "removing"
      BY <1>1, <1>2, <2>1, DesktopAssumption DEF CredentialAwaited
    <3>2. w.op \in {"save", "remove"}
      BY <1>2 DEF CredentialOps
    <3>3. change'.at = IF w.op = "remove" THEN "ended" ELSE IF ok THEN "stored" ELSE "undo"
      BY <1>4, <2>1, <3>1 DEF BaseInv, UserTypes, ConnectionChanges, Idle
    <3>4. QED
      BY <2>1, <3>1, <3>2, <3>3
  <2>2. CASE w.by # "change"
    BY <1>4, <2>2
  <2>3. QED
    BY <2>1, <2>2
<1> HIDE DEF w, N
<1>6. w.op = "remove" => w.value = None
  BY <1>1, <1>2 DEF CredentialAwaited, w
<1>7. NothingStored => NothingStored'
  BY <1>2, <1>4, <1>6 DEF NothingStored, w
\* A sign-out awaits the last write.
<1>8. ASSUME change.at = "removing"
      PROVE  /\ credentialWrites[N].op = "remove"
             /\ credentialWrites[N].same \/ NothingStored
             /\ w.by = "change" <=> N = 1
  <2>1. credentialWrites[N].op = "remove" /\ (credentialWrites[N].same \/ NothingStored)
    BY <1>8 DEF CredInv, SignedOff, N
  <2>2. N \in DOMAIN credentialWrites /\ credentialWrites[N].by = "change"
    BY <1>1, <1>2, <2>1 DEF CredentialAwaited
  <2>3. w.by = "change" <=> N = 1
    BY <1>1, <1>2, <2>2, DesktopAssumption DEF CredentialAwaited, w
  <2>4. QED
    BY <2>1, <2>3
<1>9. Addressed'
  <2>1. \A i \in DOMAIN credentialWrites' : credentialWrites'[i].value # None => credentialWrites'[i].value.url # None
    BY <1>2 DEF CredInv, Addressed
  <2>2. credentialFile' # None => credentialFile'.url # None
    BY <1>2, <1>4 DEF CredInv, Addressed, w
  <2>3. QED
    BY <1>1, <1>5, <1>7, <2>1, <2>2 DEF CredInv, Addressed
<1>10. Wanted'
  BY <1>1, <1>2, <1>5 DEF CredInv, Wanted
<1>11. SignedOff'
  <2>1. change'.at = "leaving" /\ "change" \notin sameSession' => NothingStored'
    BY <1>1, <1>5, <1>7 DEF CredInv, SignedOff
  <2>2. ASSUME change'.at = "removing"
        PROVE  /\ credentialWrites' # <<>> /\ credentialWrites'[Len(credentialWrites')].op = "remove"
               /\ credentialWrites'[Len(credentialWrites')].same \/ NothingStored'
    <3>1. change.at = "removing" /\ N # 1
      BY <1>5, <1>8, <2>2
    <3>2. N - 1 \in DOMAIN credentialWrites'
      BY <1>2, <3>1
    <3>3. credentialWrites'[N - 1] = credentialWrites[N] /\ credentialWrites' # <<>>
      BY <1>2, <3>2
    <3>4. QED
      BY <1>3, <1>7, <1>8, <3>1, <3>3
  <2>3. ASSUME accessKey' = None, change'.at \notin Leaving PROVE NothingStored'
    <3>1. CASE change.at = "removing" /\ change'.at = "ended" /\ w.by = "change"
      <4>1. N = 1 /\ (w.same \/ NothingStored) /\ w.value = None
        BY <1>6, <1>8, <3>1 DEF w
      <4>2. DOMAIN credentialWrites' = {}
        BY <1>2, <4>1
      <4>3. CASE w.same
        BY <1>4, <4>1, <4>2, <4>3 DEF NothingStored
      <4>4. QED
        BY <1>7, <4>1, <4>3
    <3>2. CASE change'.at = change.at \/ change.at = "storing"
      BY <1>1, <1>7, <2>3, <3>2 DEF CredInv, SignedOff, Leaving
    <3>3. QED
      BY <1>5, <3>1, <3>2
  <2>4. QED
    BY <2>1, <2>2, <2>3 DEF SignedOff
<1>12. SignedOn'
  <2>1. SUFFICES ASSUME accessKey # None, sessionCookie, change'.at \in Signed
        PROVE  Stored(Credential(accessKey))'
    BY <1>1 DEF SignedOn
  <2>2. change.at \in Signed
    BY <1>5, <2>1 DEF Signed, BaseInv, ChangePlaced
  <2>3. Stored(Credential(accessKey))
    BY <2>1, <2>2 DEF CredInv, SignedOn
  <2>4. Credential(accessKey)' = Credential(accessKey)
    BY <1>1 DEF Credential
  <2> DEFINE c == Credential(accessKey)
  <2> HIDE DEF c
  <2>5. CASE (unsaved \/ credentialFile = c) /\ AllOutdated
    <3>1. ~w.same /\ unsaved' = unsaved /\ credentialFile' = credentialFile /\ AllOutdated'
      BY <1>2, <1>4, <2>5 DEF AllOutdated, w
    <3>2. QED
      BY <2>4, <2>5, <3>1 DEF Stored, c
  <2>6. CASE \E i \in DOMAIN credentialWrites :
               /\ credentialWrites[i].same /\ credentialWrites[i].value = c
               /\ \A j \in DOMAIN credentialWrites : j > i => ~credentialWrites[j].same
    <3>1. PICK i \in 1 .. N : /\ credentialWrites[i].same /\ credentialWrites[i].value = c
                              /\ \A j \in 1 .. N : j > i => ~credentialWrites[j].same
      BY <1>2, <2>6
    <3>2. CASE i = 1
      <4>1. w.same /\ w.value = c
        BY <3>1, <3>2 DEF w
      <4>2. unsaved' \/ credentialFile' = c
        BY <1>4, <4>1
      <4>3. \A j \in DOMAIN credentialWrites' : ~credentialWrites'[j].same
        BY <1>2, <3>1, <3>2
      <4>4. QED
        BY <2>4, <4>2, <4>3 DEF Stored, AllOutdated, c
    <3>3. CASE i # 1
      <4>1. i - 1 \in DOMAIN credentialWrites' /\ credentialWrites'[i - 1] = credentialWrites[i]
        BY <1>2, <3>3
      <4>2. \A j \in DOMAIN credentialWrites' : j > i - 1 => ~credentialWrites'[j].same
        BY <1>2, <3>1
      <4>3. QED
        BY <2>4, <3>1, <4>1, <4>2 DEF Stored, c
    <3>4. QED
      BY <3>2, <3>3
  <2>7. QED
    BY <2>3, <2>5, <2>6 DEF Stored, c
<1>13. QED
  BY <1>9, <1>10, <1>11, <1>12 DEF CredInv

LEMMA SignedInCred ==
    ASSUME BaseInv, CredInv, Account # None, SignedIn,
           UNCHANGED <<accessKey, serverUrl, identity, agentUrl, credentialFile, safeStorage, change>>,
           "change" \in sameSession => "change" \in sameSession'
    PROVE  CredInv'
<1>1. accessKey \in Keys /\ accessKey # None /\ serverUrl \in Urls /\ serverUrl # None /\ identity \in Nat
      /\ sessionCookie \in BOOLEAN /\ safeStorage \in BOOLEAN /\ unsaved \in BOOLEAN
  BY DesktopAssumption DEF Account, BaseInv, SessionTypes, CredentialTypes
<1>2. change.at \notin {"auth", "leaving", "removing"}
  BY <1>1 DEF BaseInv, ChangePlaced
<1>3. CASE sessionCookie
  <2>1. UNCHANGED <<sessionCookie, credentialWrites, unsaved>>
    BY <1>1, <1>3 DEF SignedIn
  <2>2. QED
    BY <1>1, <2>1, CredSame
<1>4. CASE ~sessionCookie /\ ~safeStorage
  <2>1. sessionCookie' = TRUE /\ credentialWrites' = credentialWrites /\ unsaved'
    BY <1>4 DEF SignedIn
  <2>2. AllOutdated
    BY <1>2, <1>4, NothingToWrite
  <2>3. QED
    BY <1>1, <1>2, <2>1, <2>2, UnsavedCred
<1>5. CASE ~sessionCookie /\ safeStorage
  <2> DEFINE w == persistAccessKey(accessKey, None)
  <2>1. credentialWrites' = Append(credentialWrites, w) /\ sessionCookie' = TRUE /\ unsaved' = unsaved
    BY <1>1, <1>5 DEF SignedIn
  <2>2. w \in CredentialOps /\ w.same /\ w.value = Credential(accessKey) /\ w.value \in Credentials
    BY <1>1 DEF persistAccessKey, CredentialOps, Credentials, Credential
  <2>3. w.value = Credential(accessKey)' /\ w.value # None
    BY <2>2, DesktopAssumption DEF Credential
  <2> HIDE DEF w
  <2>4. QED
    BY <1>1, <1>2, <1>5, <2>1, <2>2, <2>3, SaveCred
<1>6. QED
  BY <1>1, <1>3, <1>4, <1>5

LEMMA ListReadCred == ASSUME BaseInv, CredInv, ListRead PROVE CredInv'
<1>1. /\ UNCHANGED <<accessKey, serverUrl, identity, agentUrl, credentialFile, safeStorage, change>>
      /\ SignedIn /\ refresh.account \in Accounts /\ refresh.account = Account
  BY DEF BaseInv, SessionTypes, ListRead, Answered, ReadTypes, ReadPlaced, Refreshes, Idle, userVars
<1>2. Account # None
  BY <1>1, DesktopAssumption
<1>3. "change" \in sameSession => "change" \in sameSession'
  BY DEF ListRead, Continue
<1>4. QED
  BY <1>1, <1>2, <1>3, SignedInCred

LEMMA ListFailsCred == ASSUME BaseInv, CredInv, ListFails PROVE CredInv'
<1>1. /\ UNCHANGED <<accessKey, serverUrl, identity, agentUrl, credentialWrites, credentialFile, safeStorage, change>>
      /\ refresh.at = "list" /\ ("change" \in sameSession => "change" \in sameSession')
  BY DEF ListFails, userVars
<1>2. CASE UNCHANGED <<sessionCookie, unsaved>>
  BY <1>1, <1>2, CredSame
<1>3. CASE "refresh" \in sameSession /\ SignedInUnsaved
  <2>1. refresh.account \in Accounts /\ refresh.account = Account
    BY <1>1, <1>3 DEF BaseInv, ReadTypes, ReadPlaced, Refreshes, Idle
  <2>2. accessKey # None /\ serverUrl # None
    BY <2>1, DesktopAssumption DEF Account
  <2>3. change.at \notin {"auth", "leaving", "removing"}
    BY <2>2 DEF BaseInv, ChangePlaced
  <2>4. AllOutdated /\ sessionCookie' = TRUE /\ unsaved'
    BY <1>3 DEF SignedInUnsaved, AllOutdated
  <2>5. QED
    BY <1>1, <2>2, <2>3, <2>4, UnsavedCred
<1>4. QED
  BY <1>2, <1>3 DEF ListFails

\* A denial ends the session; its key stays in use.
LEMMA DeniedCred ==
    ASSUME BaseInv, CredInv, Account # None, NewEpoch, credentialWrites' = Outdated,
           UNCHANGED <<accessKey, serverUrl, agentUrl, keptVars, change>>
    PROVE  CredInv'
<1>1. accessKey # None /\ serverUrl # None /\ change.at \notin {"auth", "leaving", "removing"}
        /\ sessionCookie' = FALSE
  BY DEF Account, BaseInv, ChangePlaced, NewEpoch
<1>2. QED
  BY <1>1, OutdatedCred

LEMMA SessionDeniedCred ==
    ASSUME BaseInv, CredInv, NEW who, SessionDenied(who) \/ LoginDenied PROVE CredInv'
<1>1. /\ Account # None /\ NewEpoch /\ credentialWrites' = Outdated
      /\ UNCHANGED <<accessKey, serverUrl, agentUrl, keptVars, change>>
  BY DEF SessionDenied, LoginDenied, userVars
<1>2. QED
  BY <1>1, DeniedCred

LEMMA ChangeStartCred == ASSUME BaseInv, CredInv, ChangeStart PROVE CredInv'
<1>1. /\ UNCHANGED <<accessKey, serverUrl, agentUrl, keptVars>> /\ credentialWrites' = Outdated
      /\ change.at = "idle" /\ change'.at = "clearing"
  BY DEF ChangeStart, changing
<1>2. accessKey = None => NothingStored
  BY <1>1 DEF CredInv, SignedOff, Leaving
<1>3. serverUrl' = None /\ agentUrl' # None => accessKey' = None /\ NothingStored
  BY <1>1 DEF CredInv, Addressed
<1>4. QED
  BY <1>1, <1>2, <1>3, OutdatedCred DEF Signed

LEMMA SignOutCred == ASSUME BaseInv, CredInv, SignOut PROVE CredInv'
<1>1. /\ UNCHANGED <<serverUrl, agentUrl, keptVars>> /\ accessKey' = None /\ sameSession' = {"change"}
      /\ credentialWrites' = IF sessionCookie' THEN Outdated ELSE Append(Outdated, removeKey)
      /\ change # Idle
  BY DEF SignOut, changeRest, Idle
<1>2. change'.at = IF sessionCookie' THEN "leaving" ELSE "removing"
  BY <1>1 DEF BaseInv, UserTypes, ConnectionChanges, SignOut
<1>3. serverUrl' = None /\ agentUrl' # None => accessKey' = None /\ NothingStored
  BY <1>1 DEF CredInv, Addressed
<1>4. CASE sessionCookie'
  BY <1>1, <1>2, <1>3, <1>4, OutdatedCred DEF Leaving
<1>5. CASE ~sessionCookie'
  <2>1. Outdated \in Seq(CredentialOps) /\ Leaves(Outdated)
    BY OutdatedLeaves DEF BaseInv
  <2>2. QED
    BY <1>1, <1>2, <1>5, <2>1, RemovalCred
<1>6. QED
  BY <1>4, <1>5

\* The Hub has answered the sign-out: what is stored is removed.
LEMMA SignedOutCred == ASSUME BaseInv, CredInv, SignedOut PROVE CredInv'
<1>1. /\ UNCHANGED <<accessKey, serverUrl, identity, sameSession, agentUrl, keptVars>>
      /\ change.at = "leaving" /\ accessKey = None
      /\ change'.at = IF "change" \in sameSession THEN "removing" ELSE "ended"
  BY DEF SignedOut, changeRest, BaseInv, UserTypes, ConnectionChanges, Idle, ChangePlaced
<1>2. CASE "change" \in sameSession
  <2>1. credentialWrites \in Seq(CredentialOps) /\ Leaves(credentialWrites)
    BY DEF BaseInv, CredentialTypes, Leaves
  <2>2. credentialWrites' = Append(credentialWrites, removeKey) /\ ~sessionCookie'
    BY <1>2 DEF SignedOut
  <2>3. QED
    BY <1>1, <1>2, <2>1, <2>2, RemovalCred
<1>3. CASE "change" \notin sameSession
  <2>1. UNCHANGED <<sessionCookie, credentialWrites>> /\ change'.at = "ended"
    BY <1>1, <1>3 DEF SignedOut
  <2>2. NothingStored' /\ NothingStored
    BY <1>1, <1>3, <2>1 DEF CredInv, SignedOff, NothingStored
  <2>3. Addressed'
    BY <1>1, <2>1, <2>2 DEF CredInv, Addressed
  <2>4. Wanted'
    BY <1>1, <2>1 DEF CredInv, Wanted
  <2>5. SignedOff' /\ SignedOn'
    BY <1>1, <2>1, <2>2 DEF SignedOff, SignedOn
  <2>6. QED
    BY <2>3, <2>4, <2>5 DEF CredInv
<1>4. QED
  BY <1>2, <1>3

LEMMA AddressSetCred == ASSUME BaseInv, CredInv, AddressSet PROVE CredInv'
<1>1. /\ UNCHANGED <<accessKey, identity, agentUrl, keptVars>> /\ change.at = "cleared"
      /\ setServerUrl(change.url) /\ change.url \in Urls /\ change.url # None
  BY DesktopAssumption DEF AddressSet, changeRest, BaseInv, UserTypes, ConnectionChanges, Idle
<1>2. change'.at \in {"undo", "agent"}
  BY DEF AddressSet, BaseInv, UserTypes, ConnectionChanges, Idle
<1>3. CASE change.url = serverUrl
  <2>1. UNCHANGED <<serverUrl, sameSession, sessionCookie, credentialWrites>> /\ serverUrl # None
    BY <1>1, <1>3 DEF setServerUrl
  <2>2. QED
    BY <1>1, <1>2, <2>1, CredSame DEF Signed, Leaving
<1>4. CASE change.url # serverUrl
  <2>1. credentialWrites' = Outdated /\ serverUrl' # None
    BY <1>1, <1>4 DEF setServerUrl
  <2>2. accessKey' = None => NothingStored
    BY <1>1 DEF CredInv, SignedOff, Leaving
  <2>3. QED
    BY <1>1, <1>2, <2>1, <2>2, OutdatedCred DEF Signed
<1>5. QED
  BY <1>3, <1>4

\* A key is tried at an address that is known.
LEMMA LoginCred ==
    ASSUME BaseInv, CredInv, Login, change'.at = "auth", serverUrl' # None, UNCHANGED keptVars
    PROVE  CredInv'
<1>1. accessKey' = None /\ sessionCookie' = FALSE /\ credentialWrites' = Outdated
  BY DEF Login
<1>2. QED
  BY <1>1, OutdatedCred DEF Leaving

LEMMA AgentAnswersCred == ASSUME BaseInv, CredInv, AgentAnswers PROVE CredInv'
<1>1. /\ change.at \in {"cleared", "agent"} /\ UNCHANGED keptVars
      /\ change \in [at : ChangePlaces, op : Changes \cup {"undo"}, key : Keys \cup {None}, url : Urls]
  BY DEF AgentAnswers, changeRest, credentialVars, BaseInv, UserTypes, ConnectionChanges, Idle
<1>2. CASE change.at = "cleared" /\ change.op = "login"
  <2>1. serverUrl' = agentUrl /\ agentUrl' = agentUrl
    BY <1>2 DEF AgentAnswers
  <2>2. CASE agentUrl = None
    <3>1. change'.at = "undo" /\ credentialWrites' = Outdated
      BY <1>1, <1>2, <2>2 DEF AgentAnswers
    <3>2. QED
      BY <1>1, <2>1, <2>2, <3>1, OutdatedCred DEF Leaving, Signed
  <2>3. CASE agentUrl # None
    <3>1. Login /\ change'.at = "auth"
      BY <1>1, <1>2, <2>3 DEF AgentAnswers
    <3>2. QED
      BY <1>1, <2>1, <2>3, <3>1, LoginCred
  <2>4. QED
    BY <2>2, <2>3
<1>3. CASE change.at = "agent" /\ change.op = "save"
  <2>1. Login /\ serverUrl' = serverUrl /\ change'.at = "auth"
    BY <1>1, <1>3 DEF AgentAnswers
  <2>2. serverUrl # None
    BY <1>3 DEF CredInv, Addressed
  <2>3. QED
    BY <1>1, <2>1, <2>2, LoginCred
<1>4. CASE change.at = "cleared" /\ change.op = "disconnect"
  <2>1. /\ UNCHANGED <<accessKey, serverUrl, identity, sessionCookie, sameSession, agentUrl, credentialWrites>>
        /\ change'.at = "signout"
    BY <1>1, <1>4 DEF AgentAnswers, sessionVars, credentialVars
  <2>2. QED
    BY <1>1, <1>4, <2>1, CredSame DEF Signed, Leaving
<1>5. QED
  BY <1>2, <1>3, <1>4 DEF AgentAnswers

LEMMA LoginReplyCred == ASSUME BaseInv, CredInv, LoginReply PROVE CredInv'
<1>1. /\ UNCHANGED <<serverUrl, identity, sameSession, agentUrl, credentialFile, safeStorage>> /\ change.at = "auth"
      /\ change \in [at : ChangePlaces, op : Changes \cup {"undo"}, key : Keys \cup {None}, url : Urls]
      /\ change.key # None /\ serverUrl # None /\ serverUrl \in Urls \cup {None} /\ identity \in Nat
      /\ safeStorage \in BOOLEAN /\ unsaved \in BOOLEAN
  BY DEF LoginReply, changeRest, BaseInv, SessionTypes, CredentialTypes, UserTypes, ConnectionChanges, Idle, ChangePlaced,
      CredInv, Addressed
<1>2. CASE change' = [change EXCEPT !.at = "undo"] /\ UNCHANGED <<accessKey, sessionCookie, credentialWrites, unsaved>>
  <2>1. change'.at = "undo"
    BY <1>1, <1>2
  <2>2. QED
    BY <1>1, <1>2, <2>1, CredSame
<1>3. CASE /\ accessKey' = change.key /\ sessionCookie' = TRUE
           /\ change' = [change EXCEPT !.at = IF safeStorage THEN "storing" ELSE "stored"]
           /\ credentialWrites' = IF safeStorage THEN Append(credentialWrites, persistAccessKey(change.key, "change"))
                                  ELSE credentialWrites
           /\ unsaved' = (unsaved \/ ~safeStorage)
  <2>1. change'.at = IF safeStorage THEN "storing" ELSE "stored"
    BY <1>1, <1>3
  <2>2. CASE safeStorage
    <3> DEFINE w == persistAccessKey(change.key, "change")
    <3>1. w \in CredentialOps /\ w.same /\ w.value = Credential(change.key) /\ w.value \in Credentials
      BY <1>1 DEF persistAccessKey, CredentialOps, Credentials, Credential
    <3>2. w.value = Credential(accessKey)' /\ w.value # None
      BY <1>1, <1>3, <3>1, DesktopAssumption DEF Credential
    <3>3. credentialWrites' = Append(credentialWrites, w) /\ unsaved' = unsaved
      BY <1>1, <1>3, <2>2
    <3> HIDE DEF w
    <3>4. QED
      BY <1>1, <1>3, <2>1, <2>2, <3>1, <3>2, <3>3, SaveCred
  <2>3. CASE ~safeStorage
    <3>1. AllOutdated
      BY <1>1, <2>3, NothingToWrite
    <3>2. QED
      BY <1>1, <1>3, <2>1, <2>3, <3>1, UnsavedCred
  <2>4. QED
    BY <2>2, <2>3
<1>4. QED
  BY <1>2, <1>3 DEF LoginReply

\* The change goes on elsewhere, with the same session.
LEMMA PlacedCred == ASSUME BaseInv, CredInv, AgentFails \/ SecretStored \/ ChangeEnds PROVE CredInv'
<1>1. /\ UNCHANGED <<accessKey, serverUrl, identity, sessionCookie, sameSession, agentUrl, credentialWrites, keptVars>>
      /\ change # Idle
  BY DEF AgentFails, SecretStored, ChangeEnds, changeRest, sessionVars, credentialVars, Idle
<1>2. \/ change.at \in {"agent", "stored", "cleared"} /\ change'.at = "undo"
      \/ change.at = "stored" /\ change'.at = "ended"
      \/ change.at = "ended" /\ change'.at = "idle"
  BY <1>1 DEF AgentFails, SecretStored, ChangeEnds, BaseInv, UserTypes, ConnectionChanges, Idle
<1>3. QED
  BY <1>1, <1>2, CredSame DEF Signed, Leaving

\* The address that was read is written back.
LEMMA ConfigWrittenCred == ASSUME EditsApart, CredInv, ConfigWritten PROVE CredInv'
<1>1. /\ UNCHANGED <<accessKey, serverUrl, identity, sessionCookie, sameSession, credentialWrites, keptVars, change>>
      /\ config.at = "read" /\ agentUrl' = config.was
  BY DEF ConfigWritten, sessionVars, credentialVars
<1>2. agentUrl' # None => agentUrl # None
  BY <1>1 DEF EditsApart
<1>3. QED
  BY <1>1, <1>2, CredSame

\* The address moves as the Agent has it, unless it does so under a change.
LEMMA ConfigMovesCred ==
    ASSUME BaseInv, CredInv, ConfigMoves, serverUrl' # serverUrl => ~changing /\ config.was = agentUrl
    PROVE  CredInv'
<1>1. UNCHANGED <<accessKey, identity, agentUrl, keptVars, change>> /\ setServerUrl(config.was)
  BY DEF ConfigMoves
<1>2. CASE config.was = serverUrl
  <2>1. UNCHANGED <<serverUrl, sameSession, sessionCookie, credentialWrites>>
    BY <1>1, <1>2 DEF setServerUrl
  <2>2. QED
    BY <1>1, <2>1, CredSame
<1>3. CASE config.was # serverUrl
  <2>1. credentialWrites' = Outdated /\ serverUrl' = agentUrl /\ sessionCookie' = FALSE /\ change.at = "idle"
    BY <1>1, <1>3 DEF setServerUrl, NewEpoch, changing
  <2>2. accessKey = None => NothingStored
    BY <2>1 DEF CredInv, SignedOff, Leaving
  <2>3. QED
    BY <1>1, <2>1, <2>2, OutdatedCred
<1>4. QED
  BY <1>2, <1>3

LEMMA AddressDiscoveredCred == ASSUME BaseInv, CredInv, AddressDiscovered PROVE CredInv'
<1>1. /\ UNCHANGED <<accessKey, identity, agentUrl, keptVars, change>> /\ setServerUrl(agentUrl)
      /\ agentUrl # serverUrl /\ serverUrl' # None /\ NothingStored
  BY DEF AddressDiscovered, setServerUrl, userVars, CredInv, Addressed
<1>2. credentialWrites' = Outdated /\ sessionCookie' = FALSE
  BY <1>1 DEF setServerUrl, NewEpoch
<1>3. QED
  BY <1>1, <1>2, OutdatedCred

\* The process starts with what is stored and can be read.
LEMMA FreshCred ==
    ASSUME change = Idle, sessionCookie = FALSE, credentialWrites = <<>>,
           credentialFile # None => credentialFile.url # None,
           accessKey = (IF Decrypted THEN credentialFile.key ELSE None),
           unsaved = (credentialFile # None /\ ~safeStorage),
           credentialFile # None => credentialFile.key # None, serverUrl \in FirstAddress
    PROVE  CredInv
<1>1. NothingStored <=> unsaved \/ credentialFile = None
  BY DEF NothingStored
<1>2. Wanted
  BY DEF Wanted, Idle
<1>3. serverUrl = None => accessKey = None /\ NothingStored
  <2>1. CASE Decrypted
    BY <2>1 DEF FirstAddress, Decrypted
  <2>2. CASE ~Decrypted
    BY <1>1, <2>2 DEF Decrypted
  <2>3. QED
    BY <2>1, <2>2
<1>4. DOMAIN credentialWrites = {} /\ change.at = "idle"
  BY DEF Idle
<1>5. Addressed
  BY <1>3, <1>4 DEF Addressed
<1>6. SignedOff /\ SignedOn
  BY <1>1 DEF SignedOff, SignedOn, Decrypted, Idle
<1>7. QED
  BY <1>2, <1>5, <1>6 DEF CredInv

LEMMA RestartCred == ASSUME BaseInv, Addressed, Restart PROVE CredInv'
<1>1. /\ change' = Idle /\ sessionCookie' = FALSE /\ credentialWrites' = <<>>
      /\ credentialFile' = credentialFile /\ agentUrl' = agentUrl
      /\ accessKey' = (IF Decrypted' THEN credentialFile.key ELSE None) /\ serverUrl' \in FirstAddress'
      /\ unsaved' = (credentialFile # None /\ ~safeStorage')
  BY DEF Restart, Fresh
<1>2. credentialFile # None => credentialFile.url # None /\ credentialFile.key # None
  BY DesktopAssumption DEF Addressed, BaseInv, CredentialTypes, Credentials
<1>3. NothingStored' <=> unsaved' \/ credentialFile = None
  BY <1>1 DEF NothingStored
<1>4. Wanted'
  BY <1>1 DEF Wanted, Idle
<1>5. serverUrl' = None => accessKey' = None /\ NothingStored'
  <2>1. CASE Decrypted'
    BY <1>1, <1>2, <2>1 DEF FirstAddress, Decrypted
  <2>2. CASE ~Decrypted'
    BY <1>1, <1>3, <2>2 DEF Decrypted
  <2>3. QED
    BY <2>1, <2>2
<1>6. DOMAIN credentialWrites' = {} /\ change'.at = "idle"
  BY <1>1 DEF Idle
<1>7. Addressed'
  BY <1>1, <1>2, <1>5, <1>6 DEF Addressed
<1>8. SignedOff' /\ SignedOn'
  BY <1>1, <1>2, <1>3 DEF SignedOff, SignedOn, Decrypted, Idle
<1>9. QED
  BY <1>4, <1>7, <1>8 DEF CredInv

LEMMA StepCred ==
    ASSUME BaseInv, EditsApart, CredInv, [DesktopNext]_desktopVars,
           ConfigMoves /\ serverUrl' # serverUrl => ~changing /\ config.was = agentUrl
    PROVE  CredInv'
<1> DEFINE still == /\ UNCHANGED <<accessKey, serverUrl, identity, sessionCookie, agentUrl>>
                    /\ UNCHANGED <<credentialWrites, keptVars, change>>
                    /\ "change" \in sameSession => "change" \in sameSession'
<1>1. ASSUME still PROVE CredInv'
  BY <1>1, CredSame
<1>2. CASE FlushBegins \/ FlushEnds \/ AskRefresh \/ Hide \/ Open \/ Opened \/ ConfigRead
  <2>1. still
    BY <1>2 DEF FlushBegins, FlushEnds, AskRefresh, Hide, Open, Opened, ConfigRead, sessionVars, credentialVars, userVars
  <2>2. QED
    BY <1>1, <2>1
<1>3. CASE CacheRead \/ ChartRead
  <2>1. still
    BY <1>3 DEF CacheRead, ChartRead, Continue, credentialVars, userVars
  <2>2. QED
    BY <1>1, <2>1
<1>4. CASE Mutate \/ MutationReply \/ MutationFails \/ Shutdown \/ UNCHANGED desktopVars
  <2>1. still
    BY <1>4 DEF Mutate, MutationReply, MutationFails, Shutdown, desktopVars, sessionVars, credentialVars, userVars
  <2>2. QED
    BY <1>1, <2>1
<1>5. CASE (\E who \in {"refresh", "mutation", "live"} : SessionDenied(who)) \/ LoginDenied
  BY <1>5, SessionDeniedCred
<1>6. CASE ClearEnds \/ CredentialWrite \/ ListRead \/ ListFails
  BY <1>6, ClearEndsCred, CredentialWriteCred, ListReadCred, ListFailsCred
<1>7. CASE ChangeStart \/ SignOut \/ SignedOut \/ AddressSet \/ AgentAnswers \/ LoginReply
  BY <1>7, ChangeStartCred, SignOutCred, SignedOutCred, AddressSetCred, AgentAnswersCred, LoginReplyCred
<1>8. CASE AgentFails \/ SecretStored \/ ChangeEnds
  BY <1>8, PlacedCred
<1>9. CASE ConfigWritten \/ ConfigMoves \/ AddressDiscovered \/ Restart
  BY <1>9, ConfigWrittenCred, ConfigMovesCred, AddressDiscoveredCred, RestartCred DEF CredInv
<1>10. QED
  BY <1>2, <1>3, <1>4, <1>5, <1>6, <1>7, <1>8, <1>9 DEF DesktopNext

LEMMA StepEdits == ASSUME BaseInv, EditsApart, [DesktopNext]_desktopVars PROVE EditsApart'
<1>1. ASSUME agentUrl' = agentUrl, config' = config PROVE EditsApart'
  BY <1>1 DEF EditsApart
<1>2. CASE AgentAnswers
  <2>1. config' = config /\ (agentUrl' = agentUrl \/ agentUrl' = change.url)
        /\ (agentUrl' # agentUrl => change.at = "agent")
    BY <1>2 DEF AgentAnswers, changeRest
  <2>2. change.at = "agent" => change.url # None
    BY DesktopAssumption DEF BaseInv, UserTypes, ConnectionChanges, Idle
  <2>3. QED
    BY <2>1, <2>2 DEF EditsApart
<1>3. CASE ConfigRead
  BY <1>3 DEF ConfigRead, EditsApart
<1>4. CASE ConfigWritten
  <2>1. config \in [at : {"read", "clearing", "cleared"}, was : Urls \cup {None}] /\ agentUrl' = config.was
        /\ config' \in {[config EXCEPT !.at = "clearing"], Idle}
    BY <1>4 DEF ConfigWritten, BaseInv, UserTypes, ConfigEdits, Idle
  <2>2. config'.at = "idle" \/ config'.was = config.was
    BY <2>1 DEF Idle
  <2>3. QED
    BY <2>1, <2>2 DEF EditsApart
<1>5. CASE ConfigMoves \/ Restart
  BY <1>5 DEF ConfigMoves, Restart, Fresh, EditsApart, Idle
<1>6. CASE ClearEnds
  <2>1. /\ agentUrl' = agentUrl
        /\ \/ config' = config \/ config' = Idle
           \/ Head(cacheWrites).by = "config" /\ config' = [config EXCEPT !.at = "cleared"]
    BY <1>6 DEF ClearEnds
  <2>2. Head(cacheWrites).by = "config" => config.at = "clearing"
    <3>1. cacheWrites \in Seq(CacheOps) /\ cacheWrites # <<>>
      BY <1>6 DEF ClearEnds, BaseInv, CacheTypes
    <3>2. 1 \in DOMAIN cacheWrites /\ Head(cacheWrites) = cacheWrites[1]
      BY <3>1, TailFacts
    <3>3. QED
      BY <3>2 DEF BaseInv, CacheAwaited
  <2>3. config' = config \/ config' = Idle \/ (config.at # "idle" /\ config'.was = config.was)
    BY <2>1, <2>2 DEF BaseInv, UserTypes, ConfigEdits, Idle
  <2>4. QED
    BY <2>1, <2>3 DEF EditsApart, Idle
<1>7. CASE FlushBegins \/ FlushEnds \/ CredentialWrite \/ AskRefresh \/ Hide \/ CacheRead \/ ListRead \/ ListFails
           \/ ChartRead \/ Open \/ Opened \/ (\E who \in {"refresh", "mutation", "live"} : SessionDenied(who))
  BY <1>1, <1>7 DEF FlushBegins, FlushEnds, CredentialWrite, AskRefresh, Hide, CacheRead, ListRead, ListFails, ChartRead,
      Open, Opened, SessionDenied, userVars
<1>8. CASE LoginDenied \/ Mutate \/ MutationReply \/ MutationFails \/ ChangeStart \/ SignOut \/ SignedOut \/ AddressSet
           \/ AgentFails \/ LoginReply \/ SecretStored \/ ChangeEnds
  BY <1>1, <1>8 DEF LoginDenied, Mutate, MutationReply, MutationFails, ChangeStart, SignOut, SignedOut, AddressSet,
      AgentFails, LoginReply, SecretStored, ChangeEnds, changeRest, userVars
<1>9. CASE AddressDiscovered \/ Shutdown \/ UNCHANGED desktopVars
  BY <1>1, <1>9 DEF AddressDiscovered, Shutdown, desktopVars, userVars
<1>10. QED
  BY <1>2, <1>3, <1>4, <1>5, <1>6, <1>7, <1>8, <1>9 DEF DesktopNext

\* The stored credential is that of the open session, and a restart after a
\* sign-out signs in as nobody, in every behaviour of the code, unless a write of
\* the file failed or an edit of the configuration moved the address under a
\* change of the connection (HubClient.logout, login).
THEOREM CredentialMatchesHolds == DesktopSpec => []CredentialMatches
<1> DEFINE Inv == BaseInv /\ EditsApart /\ (~crossed => CredInv)
<1>1. DesktopInit => Inv
  <2> SUFFICES ASSUME DesktopInit PROVE EditsApart /\ CredInv
    BY InitTypes
  <2>1. credentialFile # None => credentialFile.url \in Urls /\ credentialFile.key \in Keys
    BY DEF DesktopInit
  <2>2. credentialFile # None => credentialFile.url # None /\ credentialFile.key # None
    BY <2>1, DesktopAssumption
  <2>3. EditsApart
    BY DEF DesktopInit, EditsApart, Idle
  <2>4. QED
    BY <2>2, <2>3, FreshCred DEF DesktopInit
<1>2. Inv /\ [DesktopNext /\ Overlaps]_<<desktopVars, overlapVars>> => Inv'
  <2> SUFFICES ASSUME Inv, [DesktopNext /\ Overlaps]_<<desktopVars, overlapVars>> PROVE Inv'
    OBVIOUS
  <2>1. BaseInv' /\ [DesktopNext]_desktopVars
    BY StepIs, StepTypes
  <2>2. EditsApart'
    BY <2>1, StepEdits
  <2>3. ASSUME ~crossed' PROVE CredInv'
    <3>1. ~crossed
      BY <2>3 DEF Overlaps, overlapVars
    <3>2. ConfigMoves /\ serverUrl' # serverUrl => ~changing /\ config.was = agentUrl
      <4> SUFFICES ASSUME ConfigMoves, serverUrl' # serverUrl PROVE ~changing /\ config.was = agentUrl
        OBVIOUS
      <4>1. config.at = "cleared" /\ config'.at = "idle" /\ change' = change
        BY DEF ConfigMoves, Idle
      <4>2. Overlaps
        BY DEF desktopVars, sessionVars
      <4>3. QED
        BY <2>3, <4>1, <4>2 DEF Overlaps, changing
    <3>3. QED
      BY <2>1, <3>1, <3>2, StepCred
  <2>4. QED
    BY <2>1, <2>2, <2>3
<1>3. Inv => CredentialMatches
  BY StoredMatches
<1> HIDE DEF Inv
<1>4. QED
  BY <1>1, <1>2, <1>3, PTL DEF DesktopSpec
=============================================================================
