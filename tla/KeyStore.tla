------------------------------- MODULE KeyStore -------------------------------
(***************************************************************************)
(* The proxy-key store at work (src/src/proxy/auth/api_key_manager.py,     *)
(* pg_key_store.py): several proxy instances over one store, a Secret      *)
(* Manager secret ("secret") or a Postgres table ("postgres"); in each     *)
(* instance a validate cache, worker threads that look a key up or change  *)
(* the store, and, over Postgres, the task that refreshes the cache.       *)
(*                                                                         *)
(* A thread runs from one lock or store call to the next in one step.  A   *)
(* store call takes effect at one moment and its answer arrives later.     *)
(* The local key file behaves as the secret whose calls do not fail.       *)
(***************************************************************************)
EXTENDS KeyOps

CONSTANTS
    Instances,
    Lookups,         \* threads that validate one key
    Writers,         \* threads that run one lifecycle operation
    Nobody,          \* no thread
    None,            \* no entry
    Backends,        \* the stores a run starts with
    WritersAt,       \* backend -> the instances whose threads may write
    FreshKey,        \* writer -> the key it would issue
    FirstStore,      \* the store at the start
    FirstStamp,      \* the newest created_at in it
    Warm,            \* instances whose cache holds it at the start
    LookedUp,        \* keys that callers present
    Changes,         \* backend -> writer -> operations it may run: kind, tenant, arguments
    CacheTtl,        \* KEY_CACHE_TTL_SECONDS
    CheckInterval,   \* KEY_SECRET_CHECK_SECONDS
    ForcedInterval,  \* KEY_FORCED_RELOAD_MIN_INTERVAL_SECONDS
    MaxTime,         \* bound: clock
    FaultKinds, MaxFaults   \* bound: calls that fail

ASSUME StoreAssumption ==
    /\ IsTable(FirstStore) /\ Warm \subseteq Instances
    /\ \A j, k \in DOMAIN FirstStore :
          FirstStore[j].tenant = FirstStore[k].tenant =>
              FirstStore[j].ip_allowlist = FirstStore[k].ip_allowlist
    /\ FirstStamp \in Nat
    /\ Backends \subseteq {"secret", "postgres"}
    /\ CacheTtl \in Nat /\ CheckInterval \in Nat /\ ForcedInterval \in Nat
    /\ MaxTime \in Nat /\ MaxFaults \in Nat

\* A key is drawn at random (secrets.token_urlsafe): nobody has had it before.
ASSUME FreshAssumption ==
    /\ \A w \in Writers : FreshKey[w] \in Keys \ DOMAIN FirstStore
    /\ \A v, w \in Writers : FreshKey[v] = FreshKey[w] => v = w

Kinds == {"create", "rotate", "delete", "suspended", "contract", "allow"}

Op == [kind : Kinds, tenant : Tenants, key : Keys, stamp : Nat, on : BOOLEAN,
       cidrs : SUBSET Cidrs]

ASSUME ThreadsAssumption ==
    /\ Nobody \notin Lookups \cup Writers
    /\ None \notin Instances /\ None \notin Entry /\ None \notin Op
    /\ \A b \in Backends :
          /\ WritersAt[b] \subseteq Instances
          /\ \A w \in Writers : \A c \in Changes[b][w] :
                c.kind \in Kinds /\ c.tenant \in Tenants /\ c.on \in BOOLEAN /\ c.cidrs \subseteq Cidrs

VARIABLES
    backend,
    store,         \* the secret's latest version, or the committed table
    version,       \* the name of that version
    revoked,       \* revoked_proxy_keys
    advisory,      \* who holds the advisory lock
    cache, loadedAt, cacheVersion, lastVersionCheck, lastAttempt, lastForced,
    loadLock, versionLock, writeLock,
    look,          \* lookup threads
    wr,            \* writer threads
    refresher,     \* CacheRefresher tasks
    mail,          \* announced tenants an instance has not heard of yet
    stamps,        \* the latest created_at given out
    now, faults,
    goneAt,        \* history: when a looked-up key left the store
    overtaken      \* history: tenants of which a write for another one put old rows back

storeVars == <<store, version, revoked, goneAt>>
cacheVars == <<cache, loadedAt, cacheVersion, overtaken>>
loadVars == <<lastVersionCheck, lastAttempt, lastForced>>
lockVars == <<loadLock, versionLock, writeLock, advisory>>
vars == <<backend, storeVars, cacheVars, loadVars, lockVars, look, wr, refresher,
          mail, stamps, now, faults>>

Never == -1 - CacheTtl - CheckInterval - ForcedInterval   \* long before the start

At(tb, k) == IF k \in DOMAIN tb THEN tb[k] ELSE None

\* The mutation an operation passes to _mutate_store.
Mutated(op, tb) ==
    CASE op.kind = "create" -> CreateKey(tb, op.tenant, op.key, op.stamp)
      [] op.kind = "rotate" -> RotateTenantKeys(tb, op.tenant, op.key, op.stamp)
      [] op.kind = "delete" -> DeleteTenantKeys(tb, op.tenant)
      [] op.kind = "suspended" -> SetSuspended(tb, op.tenant, op.on)
      [] op.kind = "contract" -> SetContractActive(tb, op.tenant, op.on)
      [] op.kind = "allow" -> SetIpAllowlist(tb, op.tenant, op.cidrs)

\* The ValueErrors of the mutations: nothing is written.
Refuses(op, tb) ==
    \/ op.kind = "create" /\ op.key \in DOMAIN tb
    \/ op.kind = "rotate" /\ KeysOf(tb, op.tenant) = {}

NewLookup == [pc |-> "start", home |-> None, key |-> None, asked |-> 0,
              attempted |-> FALSE, versionKnown |-> FALSE, reason |-> "none",
              seen |-> 0, ver |-> 0, data |-> NoKeys,
              checked |-> FALSE, window |-> {}, stale |-> FALSE, late |-> FALSE]

\* A writer that has not begun or is over.
Over(how) == [pc |-> how, home |-> None, op |-> None, data |-> NoKeys]

\* A refresher between two passes.
IdleRefresher == [pc |-> "idle", full |-> FALSE, tenants |-> {}, servesFull |-> FALSE,
                  serves |-> {}, data |-> NoKeys]

\* Instances over the secret are cold or have just loaded it; over Postgres their
\* refreshers have made a first pass.
Loaded(i) == backend = "postgres" \/ i \in Warm

Init ==
    /\ backend \in Backends
    /\ store = FirstStore /\ version = 1 /\ revoked = {} /\ advisory = Nobody
    /\ cache = [i \in Instances |-> IF Loaded(i) THEN FirstStore ELSE NoKeys]
    /\ loadedAt = [i \in Instances |-> IF Loaded(i) THEN 0 ELSE Never]
    /\ cacheVersion = [i \in Instances |-> IF Loaded(i) THEN 1 ELSE 0]
    /\ lastVersionCheck = [i \in Instances |-> IF Loaded(i) THEN 0 ELSE Never]
    /\ lastAttempt = [i \in Instances |-> IF Loaded(i) THEN 0 ELSE Never]
    /\ lastForced = [i \in Instances |-> Never]
    /\ loadLock = [i \in Instances |-> Nobody]
    /\ versionLock = [i \in Instances |-> Nobody]
    /\ writeLock = [i \in Instances |-> Nobody]
    /\ look = [l \in Lookups |-> NewLookup]
    /\ wr = [w \in Writers |-> Over("start")]
    /\ refresher = [i \in Instances |-> IdleRefresher]
    /\ mail = [i \in Instances |-> {}]
    /\ stamps = FirstStamp
    /\ now = 0 /\ faults = 0
    /\ goneAt = [k \in LookedUp |-> MaxTime + 1]
    /\ overtaken = [i \in Instances |-> {}]

\* Over Postgres nothing that is modelled waits for the clock.
Tick ==
    /\ backend = "secret"
    /\ now < MaxTime
    /\ now' = now + 1
    /\ UNCHANGED <<backend, storeVars, cacheVars, loadVars, lockVars,
                    look, wr, refresher, mail, stamps, faults>>

Fault(kind) ==
    /\ kind \in FaultKinds
    /\ faults < MaxFaults
    /\ faults' = faults + 1

\* The store becomes tb, and the lookups under way may answer with it.
Committed(tb) ==
    /\ store' = tb
    /\ goneAt' = [k \in LookedUp |->
                    IF k \in DOMAIN store \ DOMAIN tb THEN now ELSE goneAt[k]]
    /\ look' = [l \in Lookups |->
                  IF look[l].pc \in {"start", "done"} THEN look[l]
                  ELSE [look[l] EXCEPT !.window = @ \cup {At(tb, look[l].key)}]]

-----------------------------------------------------------------------------
\* validate_proxy_key, over the secret.  Each operator is where a lookup r goes
\* next, given its instance's cache c and last version check.  Whether a load was
\* attempted (_last_load_attempt >= asked_at) or the version asked for
\* (_last_version_check >= asked_at) since a lookup began is kept with the
\* lookup: the clock of the code is finer than the model's.

\* The answer ends a lookup; stale and late record what it was like.
Answered(r, c) ==
    [NewLookup EXCEPT !.pc = "done",
        !.stale = r.checked /\ At(c, r.key) \notin r.window,
        !.late = r.key \in DOMAIN c /\ r.asked > goneAt[r.key] + CheckInterval]

LookedIn(r, c) ==
    IF r.key \in DOMAIN c THEN Answered(r, c)
    ELSE [r EXCEPT !.pc = "wantLoad", !.reason = "miss"]

VersionCheckDue(r, c, checkedAt) == c # NoKeys /\ r.asked - checkedAt >= CheckInterval

CheckedNext(r, c, checkedAt) ==
    IF VersionCheckDue(r, c, checkedAt) THEN [r EXCEPT !.pc = "wantVersion"]
    ELSE LookedIn(r, c)

\* After _reload returned, whatever it did.
Resumed(r, c, checkedAt) ==
    CASE r.reason = "stale" -> CheckedNext(r, c, checkedAt)
      [] r.reason = "changed" -> LookedIn(r, c)
      [] r.reason = "miss" -> Answered(r, c)

Home(l) == look[l].home

ColdOrStale(i) == cache[i] = NoKeys \/ now - loadedAt[i] > CacheTtl

\* Over Postgres a lookup runs on the event loop, where load_fn returns None: it
\* only reads the cache.
LookBegin(l) ==
    /\ backend = "secret"
    /\ look[l].pc = "start"
    /\ \E k \in LookedUp, i \in Instances :
        LET r == [look[l] EXCEPT !.home = i, !.key = k, !.asked = now,
                                 !.window = {At(store, k)}]
        IN look' = [look EXCEPT ![l] =
                IF \/ cache[i] = NoKeys
                   \/ /\ now - loadedAt[i] > CacheTtl
                      /\ now - lastAttempt[i] >= ForcedInterval
                THEN [r EXCEPT !.pc = "wantLoad", !.reason = "stale"]
                ELSE CheckedNext(r, cache[i], lastVersionCheck[i])]
    /\ UNCHANGED <<backend, storeVars, cacheVars, loadVars, lockVars, wr, refresher,
                   mail, stamps, now, faults>>

\* Mutant: a changed store is only loaded when the cache is old, too.
BugStaleOnly(l) ==
    CASE look[l].reason \in {"stale", "changed"} -> ColdOrStale(Home(l))
      [] look[l].reason = "miss" -> look[l].key \notin DOMAIN cache[Home(l)]

\* still_needed of the three callers of _reload.
StillNeeded(l) ==
    CASE look[l].reason = "stale" -> ColdOrStale(Home(l))
      [] look[l].reason = "changed" -> cacheVersion[Home(l)] # look[l].seen
      [] look[l].reason = "miss" -> look[l].key \notin DOMAIN cache[Home(l)]

MayLoad(l) ==
    /\ StillNeeded(l)
    /\ ~look[l].attempted
    /\ look[l].reason = "miss" =>
         look[l].asked - lastForced[Home(l)] >= ForcedInterval

\* The lookups of an instance, once the time of a load or a check was noted.
Noted(i, what) ==
    [l \in Lookups |->
        IF look[l].home = i /\ look[l].pc # "done" THEN [look[l] EXCEPT ![what] = TRUE]
        ELSE look[l]]

\* A lookup that leaves _check_store_version gives its lock back.
VersionLockAfter(l) ==
    [i \in Instances |-> IF versionLock[i] = l THEN Nobody ELSE versionLock[i]]

ResumeLookup(l) ==
    /\ look' = [look EXCEPT ![l] = Resumed(@, cache[Home(l)], lastVersionCheck[Home(l)])]
    /\ versionLock' = VersionLockAfter(l)

\* _reload: the lock is free.
EnterReload(l) ==
    /\ look[l].pc = "wantLoad"
    /\ loadLock[Home(l)] = Nobody
    /\ \/ /\ MayLoad(l)
          /\ loadLock' = [loadLock EXCEPT ![Home(l)] = l]
          /\ lastAttempt' = [lastAttempt EXCEPT ![Home(l)] = now]
          /\ lastForced' = IF look[l].reason = "miss"
                           THEN [lastForced EXCEPT ![Home(l)] = look[l].asked] ELSE lastForced
          /\ look' = [Noted(Home(l), "attempted") EXCEPT ![l].pc = "loadVersion"]
          /\ UNCHANGED versionLock
       \/ /\ ~MayLoad(l)
          /\ ResumeLookup(l)
          /\ UNCHANGED <<loadLock, lastAttempt, lastForced>>
    /\ UNCHANGED <<backend, storeVars, cacheVars, lastVersionCheck, writeLock, advisory,
                   wr, refresher, mail, stamps, now, faults>>

\* _LOAD_LOCK.acquire or _VERSION_LOCK.acquire runs into _LOCK_WAIT_SECONDS.
LockTimeout(l) ==
    /\ Fault("lock")
    /\ \/ /\ look[l].pc = "wantLoad" /\ loadLock[Home(l)] # Nobody
          /\ ResumeLookup(l)
       \/ /\ look[l].pc = "wantVersion" /\ versionLock[Home(l)] # Nobody
          /\ look' = [look EXCEPT ![l] = LookedIn(@, cache[Home(l)])]
          /\ UNCHANGED versionLock
    /\ UNCHANGED <<backend, storeVars, cacheVars, loadVars, loadLock, writeLock, advisory,
                   wr, refresher, mail, stamps, now>>

\* _load_key_cache reads the version before the data.
LoadVersion(l) ==
    /\ look[l].pc = "loadVersion"
    /\ \/ /\ look' = [look EXCEPT ![l].pc = "loadData", ![l].ver = version]
          /\ UNCHANGED faults
       \/ /\ Fault("version")
          /\ look' = [look EXCEPT ![l].pc = "loadData", ![l].ver = 0]
    /\ UNCHANGED <<backend, storeVars, cacheVars, loadVars, lockVars, wr, refresher,
                   mail, stamps, now>>

LoadData(l) ==
    /\ look[l].pc = "loadData"
    /\ \/ /\ look' = [look EXCEPT ![l].pc = "loadApply", ![l].data = store]
          /\ UNCHANGED <<loadLock, versionLock, faults>>
       \/ /\ Fault("fetch")
          /\ loadLock' = [loadLock EXCEPT ![Home(l)] = Nobody]
          /\ ResumeLookup(l)
    /\ UNCHANGED <<backend, storeVars, cacheVars, loadVars, writeLock, advisory, wr,
                   refresher, mail, stamps, now>>

\* The cache becomes what was read, under the version ver.
LoadedUnder(l, ver) ==
    LET i == Home(l)
        c == [cache EXCEPT ![i] = look[l].data]
        checkedAt == [lastVersionCheck EXCEPT ![i] = now]
    IN  /\ look[l].pc = "loadApply"
        /\ cache' = c
        /\ loadedAt' = [loadedAt EXCEPT ![i] = now]
        /\ cacheVersion' = [cacheVersion EXCEPT ![i] = ver]
        /\ lastVersionCheck' = checkedAt
        /\ loadLock' = [loadLock EXCEPT ![i] = Nobody]
        /\ versionLock' = VersionLockAfter(l)
        /\ look' = [Noted(i, "versionKnown") EXCEPT ![l] = Resumed(@, c[i], checkedAt[i])]
        /\ UNCHANGED <<backend, storeVars, overtaken, lastAttempt, lastForced, writeLock,
                       advisory, wr, refresher, mail, stamps, now, faults>>

\* Mutant: the version is read after the data.
BugVersionLast(l) == LoadedUnder(l, version)

LoadApply(l) == LoadedUnder(l, look[l].ver)

\* _check_store_version: the lock is free.
EnterVersionCheck(l) ==
    /\ look[l].pc = "wantVersion"
    /\ versionLock[Home(l)] = Nobody
    /\ IF look[l].versionKnown
       THEN /\ look' = [look EXCEPT ![l] = LookedIn(@, cache[Home(l)])]
            /\ UNCHANGED <<versionLock, lastVersionCheck>>
       ELSE /\ look' = [Noted(Home(l), "versionKnown") EXCEPT ![l].pc = "askVersion"]
            /\ versionLock' = [versionLock EXCEPT ![Home(l)] = l]
            /\ lastVersionCheck' = [lastVersionCheck EXCEPT ![Home(l)] = now]
    /\ UNCHANGED <<backend, storeVars, cacheVars, lastAttempt, lastForced, loadLock,
                   writeLock, advisory, wr, refresher, mail, stamps, now, faults>>

AskVersion(l) ==
    /\ look[l].pc = "askVersion"
    /\ \/ /\ version # cacheVersion[Home(l)]
          /\ look' = [look EXCEPT ![l].pc = "wantLoad", ![l].reason = "changed",
                                  ![l].seen = version, ![l].checked = TRUE]
          /\ UNCHANGED <<versionLock, faults>>
       \/ /\ version = cacheVersion[Home(l)]
          /\ look' = [look EXCEPT ![l] = LookedIn([@ EXCEPT !.checked = TRUE], cache[Home(l)])]
          /\ versionLock' = VersionLockAfter(l)
          /\ UNCHANGED faults
       \/ /\ Fault("version")
          /\ look' = [look EXCEPT ![l] = LookedIn(@, cache[Home(l)])]
          /\ versionLock' = VersionLockAfter(l)
    /\ UNCHANGED <<backend, storeVars, cacheVars, loadVars, loadLock, writeLock, advisory,
                   wr, refresher, mail, stamps, now>>

-----------------------------------------------------------------------------
\* The lifecycle operations: _mutate_store on a worker thread.

WHome(w) == wr[w].home

\* create_key stamps its metadata here, before it asks for the lock.
WriteBegin(w) ==
    /\ wr[w].pc = "start"
    /\ \E c \in Changes[backend][w], i \in WritersAt[backend] :
        LET op == [kind |-> c.kind, tenant |-> c.tenant, on |-> c.on, cidrs |-> c.cidrs,
                   key |-> FreshKey[w], stamp |-> stamps + 1]
        IN  /\ wr' = [wr EXCEPT ![w].pc = "wantWrite", ![w].home = i, ![w].op = op]
            /\ stamps' = IF c.kind = "create" THEN stamps + 1 ELSE stamps
    /\ UNCHANGED <<backend, storeVars, cacheVars, loadVars, lockVars, look, refresher,
                   mail, now, faults>>

TakeWriteLock(w) ==
    /\ wr[w].pc = "wantWrite"
    /\ writeLock[WHome(w)] = Nobody
    /\ writeLock' = [writeLock EXCEPT ![WHome(w)] = w]
    /\ wr' = [wr EXCEPT ![w].pc = IF backend = "postgres" THEN "begin" ELSE "load"]
    /\ UNCHANGED <<backend, storeVars, cacheVars, loadVars, loadLock, versionLock, advisory,
                   look, refresher, mail, stamps, now, faults>>

\* The operation as it is applied to a store: rotation stamps here.
Applied(w) ==
    IF wr[w].op.kind = "rotate" THEN [wr[w].op EXCEPT !.stamp = stamps + 1] ELSE wr[w].op

StampsAfter(w) == IF wr[w].op.kind = "rotate" THEN stamps + 1 ELSE stamps

Ends(w, how) ==
    /\ wr' = [wr EXCEPT ![w] = Over(how)]
    /\ writeLock' = [writeLock EXCEPT ![WHome(w)] = Nobody]

\* _load_full_store and the mutation.  A fetch that failed reads as an empty
\* store: _fetch_secret returns None.
LoadFullStore(w) ==
    /\ wr[w].pc = "load"
    /\ \E tb \in {store, NoKeys} :
        /\ \/ tb = store /\ UNCHANGED faults
           \/ tb = NoKeys /\ Fault("write_fetch")
        /\ \/ /\ Refuses(Applied(w), tb)
              /\ Ends(w, "failed")
              /\ UNCHANGED stamps
           \/ /\ ~Refuses(Applied(w), tb)
              /\ stamps' = StampsAfter(w)
              /\ IF Mutated(Applied(w), tb) = tb
                 THEN Ends(w, "done")
                 ELSE /\ wr' = [wr EXCEPT ![w].pc = "persist",
                                          ![w].data = Mutated(Applied(w), tb)]
                      /\ UNCHANGED writeLock
    /\ UNCHANGED <<backend, storeVars, cacheVars, loadVars, loadLock, versionLock, advisory,
                   look, refresher, mail, now>>

\* _persist_store: the new secret version.  A call that fails raises, whether
\* the version was added or not.
Persist(w) ==
    /\ wr[w].pc = "persist"
    /\ \/ /\ Committed(wr[w].data)
          /\ version' = version + 1
          /\ \/ wr' = [wr EXCEPT ![w].pc = "assign"] /\ UNCHANGED <<writeLock, faults>>
             \/ Fault("write") /\ Ends(w, "failed")
       \/ /\ Fault("write")
          /\ Ends(w, "failed")
          /\ UNCHANGED <<store, version, goneAt, look>>
    /\ UNCHANGED <<backend, revoked, cacheVars, loadVars, loadLock, versionLock, advisory,
                   refresher, mail, stamps, now>>

\* Other tenants whose rows changed since the operation took its copy of the store.
Older(w) ==
    {t \in Tenants \ {wr[w].op.tenant} : Rows(wr[w].data, t) # Rows(store, t)}

\* The cache is refreshed and the write lock released; then the announcement.
Assign(w) ==
    /\ wr[w].pc = "assign"
    /\ cache' = [cache EXCEPT ![WHome(w)] = wr[w].data]
    /\ loadedAt' = [loadedAt EXCEPT ![WHome(w)] = now]
    /\ overtaken' = [overtaken EXCEPT ![WHome(w)] = Older(w)]
    /\ \/ backend = "secret" /\ Ends(w, "done")
       \/ /\ backend = "postgres"
          /\ wr' = [wr EXCEPT ![w].pc = "announce", ![w].data = NoKeys]
          /\ writeLock' = [writeLock EXCEPT ![WHome(w)] = Nobody]
    /\ UNCHANGED <<backend, storeVars, cacheVersion, loadVars, loadLock, versionLock,
                   advisory, look, refresher, mail, stamps, now, faults>>

-----------------------------------------------------------------------------
\* Over Postgres the operation is one transaction (pg_key_store.transact).

\* Mutant: the transaction does not wait for the lock.
BugNoLock == TRUE

AdvisoryFree == advisory = Nobody

\* pg_advisory_xact_lock, then the rows as they are inside it.
BeginTransaction(w) ==
    /\ wr[w].pc = "begin"
    /\ AdvisoryFree
    /\ advisory' = w
    /\ wr' = [wr EXCEPT ![w].pc = "commit", ![w].data = store]
    /\ UNCHANGED <<backend, storeVars, cacheVars, loadVars, loadLock, versionLock, writeLock,
                   look, refresher, mail, stamps, now, faults>>

\* _write_diff: only the rows that differ are written, and none that is
\* recorded as revoked.
Removed(before, after) == DOMAIN before \ DOMAIN after
Upserts(before, after) ==
    {k \in DOMAIN after : At(before, k) # after[k]} \ (revoked \cup Removed(before, after))

DiffWritten(before, after) ==
    [k \in (DOMAIN store \ Removed(before, after)) \cup Upserts(before, after) |->
        IF k \in Upserts(before, after) THEN after[k] ELSE store[k]]

\* What transact returns: the store without the keys it refused to write.
Kept(before, after) ==
    [k \in {h \in DOMAIN after : At(before, h) = after[h] \/ h \in Upserts(before, after)}
        |-> after[k]]

Commit(w) ==
    LET before == wr[w].data
        after == Mutated(Applied(w), before)
    IN  /\ wr[w].pc = "commit"
        /\ advisory' = Nobody
        /\ \/ /\ Refuses(Applied(w), before)
              /\ Ends(w, "failed")
              /\ UNCHANGED <<storeVars, look, stamps>>
           \/ /\ ~Refuses(Applied(w), before)
              /\ Committed(DiffWritten(before, after))
              /\ revoked' = revoked \cup (Removed(before, after) \cap DOMAIN store)
              /\ stamps' = StampsAfter(w)
              /\ wr' = [wr EXCEPT ![w].pc = "assign", ![w].data = Kept(before, after)]
              /\ UNCHANGED <<version, writeLock>>
        /\ UNCHANGED <<backend, cacheVars, loadVars, loadLock, versionLock, refresher, mail,
                       now, faults>>

\* _run_on_loop times out: the transaction is rolled back, unless it has just
\* committed.  The operation fails: no cache is refreshed, nothing announced.
TransactTimeout(w) ==
    /\ backend = "postgres"
    /\ wr[w].pc \in {"begin", "commit", "assign"}
    /\ Fault("timeout")
    /\ Ends(w, "failed")
    /\ advisory' = IF advisory = w THEN Nobody ELSE advisory
    /\ UNCHANGED <<backend, storeVars, cacheVars, loadVars, loadLock, versionLock, look,
                   refresher, mail, stamps, now>>

\* _announce_change: the hook tells every instance; best-effort.
Announce(w) ==
    /\ wr[w].pc = "announce"
    /\ wr' = [wr EXCEPT ![w] = Over("done")]
    /\ \/ /\ mail' = [i \in Instances |-> mail[i] \cup {wr[w].op.tenant}]
          /\ UNCHANGED faults
       \/ Fault("announce") /\ UNCHANGED mail
    /\ UNCHANGED <<backend, storeVars, cacheVars, loadVars, lockVars, look, refresher,
                   stamps, now>>

-----------------------------------------------------------------------------
\* CacheRefresher, one task in each instance over Postgres: full and tenants are
\* what it is asked for, servesFull and serves what it is at.

\* The hook of the host calls request on the refresher's loop.
Request(i) ==
    /\ \E t \in mail[i] :
        /\ mail' = [mail EXCEPT ![i] = @ \ {t}]
        /\ refresher' = [refresher EXCEPT ![i].tenants = @ \cup {t}]
    /\ UNCHANGED <<backend, storeVars, cacheVars, loadVars, lockVars, look, wr, stamps,
                   now, faults>>

Asked(i) == refresher[i].full \/ refresher[i].tenants # {}

\* run: asked to, or the interval is over.
RefreshBegin(i) ==
    /\ backend = "postgres"
    /\ refresher[i].pc = "idle"
    /\ refresher' = [refresher EXCEPT ![i] =
          [@ EXCEPT !.pc = "read", !.full = FALSE, !.tenants = {},
                    !.servesFull = ~Asked(i) \/ refresher[i].full,
                    !.serves = refresher[i].tenants]]
    /\ UNCHANGED <<backend, storeVars, cacheVars, loadVars, lockVars, look, wr, mail,
                   stamps, now, faults>>

\* load_all or load_tenants; when it fails everything is asked for again.
RefreshRead(i) ==
    LET r == refresher[i]
    IN  /\ r.pc = "read"
        /\ \/ /\ refresher' = [refresher EXCEPT ![i].pc = "apply", ![i].data =
                    [k \in {h \in DOMAIN store : r.servesFull \/ store[h].tenant \in r.serves}
                        |-> store[k]]]
              /\ UNCHANGED faults
           \/ /\ Fault("refresh")
              /\ refresher' = [refresher EXCEPT ![i] =
                    [@ EXCEPT !.pc = "idle", !.full = TRUE, !.servesFull = FALSE, !.serves = {}]]
        /\ UNCHANGED <<backend, storeVars, cacheVars, loadVars, lockVars, look, wr, mail,
                       stamps, now>>

\* Mutant: a key the tenant lost stays.
BugOnlyAdds(c, ts, data) ==
    [k \in DOMAIN c \cup DOMAIN data |-> IF k \in DOMAIN data THEN data[k] ELSE c[k]]

\* replace_tenants_in_cache keeps every other tenant's keys.
TenantsReplaced(c, ts, data) ==
    LET kept == {k \in DOMAIN c : c[k].tenant \notin ts}
    IN [k \in kept \cup DOMAIN data |-> IF k \in DOMAIN data THEN data[k] ELSE c[k]]

RefreshApply(i) ==
    LET r == refresher[i]
    IN  /\ r.pc = "apply"
        /\ IF r.servesFull
           THEN /\ cache' = [cache EXCEPT ![i] = r.data]
                /\ loadedAt' = [loadedAt EXCEPT ![i] = now]
                /\ lastVersionCheck' = [lastVersionCheck EXCEPT ![i] = now]
                /\ overtaken' = [overtaken EXCEPT ![i] = {}]
           ELSE /\ cache' = [cache EXCEPT ![i] = TenantsReplaced(@, r.serves, r.data)]
                /\ overtaken' = [overtaken EXCEPT ![i] = @ \ r.serves]
                /\ UNCHANGED <<loadedAt, lastVersionCheck>>
        /\ refresher' = [refresher EXCEPT ![i] =
              [@ EXCEPT !.pc = "idle", !.servesFull = FALSE, !.serves = {}, !.data = NoKeys]]
        /\ UNCHANGED <<backend, storeVars, cacheVersion, lastAttempt, lastForced, lockVars,
                       look, wr, mail, stamps, now, faults>>

-----------------------------------------------------------------------------
Look(l) ==
    \/ LookBegin(l) \/ EnterReload(l) \/ LockTimeout(l) \/ LoadVersion(l)
    \/ LoadData(l) \/ LoadApply(l) \/ EnterVersionCheck(l) \/ AskVersion(l)

Write(w) ==
    \/ WriteBegin(w) \/ TakeWriteLock(w) \/ LoadFullStore(w) \/ Persist(w) \/ Assign(w)
    \/ BeginTransaction(w) \/ Commit(w) \/ TransactTimeout(w) \/ Announce(w)

Refresh(i) == Request(i) \/ RefreshBegin(i) \/ RefreshRead(i) \/ RefreshApply(i)

Next ==
    \/ Tick
    \/ \E l \in Lookups : Look(l)
    \/ \E w \in Writers : Write(w)
    \/ \E i \in Instances : Refresh(i)

Spec == Init /\ [][Next]_vars

-----------------------------------------------------------------------------
Times == Never .. MaxTime

TypeOK ==
    /\ backend \in Backends
    /\ IsTable(store) /\ version \in Nat /\ revoked \subseteq Keys
    /\ \A i \in Instances :
        /\ IsTable(cache[i]) /\ cacheVersion[i] \in 0 .. version
        /\ {loadedAt[i], lastVersionCheck[i], lastAttempt[i], lastForced[i]} \subseteq Times
        /\ loadLock[i] \in Lookups \cup {Nobody}
        /\ versionLock[i] \in Lookups \cup {Nobody}
        /\ writeLock[i] \in Writers \cup {Nobody}
        /\ refresher[i].pc \in {"idle", "read", "apply"}
        /\ refresher[i].tenants \cup refresher[i].serves \cup mail[i] \subseteq Tenants
    /\ advisory \in Writers \cup {Nobody}
    /\ \A l \in Lookups :
        look[l].pc \in {"start", "wantLoad", "loadVersion", "loadData", "loadApply",
                        "wantVersion", "askVersion", "done"}
    /\ \A w \in Writers :
        /\ wr[w].pc \in {"start", "wantWrite", "load", "persist", "assign", "begin",
                          "commit", "announce", "done", "failed"}
        /\ wr[w].pc \notin {"start", "done", "failed"} => wr[w].op \in Op
    /\ stamps \in Stamps /\ now \in 0 .. MaxTime /\ faults \in 0 .. MaxFaults

\* However threads and instances interleave, the store only ever changes by
\* whole operations, each applied to the store as it then is: no write is lost,
\* torn or applied to a stale copy (_mutate_store, transact).
Table == INSTANCE KeyTable WITH table <- store
ImplementsTable == Table!Spec

\* No key of a tenant escapes its source-IP restriction, also when it is issued
\* or rotated while the restriction is being set on another instance.
OneRestriction == Table!OneRestriction

\* A cache that calls itself current is: when its version is the store's, no
\* version check would ever reload it, so it must hold the store
\* (_load_key_cache reads the version before the data).
Assigning(i) == \E w \in Writers : wr[w].home = i /\ wr[w].pc = "assign"

VersionHonest ==
    backend = "secret" =>
        \A i \in Instances :
            cacheVersion[i] = version /\ ~Assigning(i) => cache[i] = store

\* While no call fails, a lookup that asked for the store's version answers with
\* an entry the key had while the lookup ran, never with an older one, whatever
\* reloads and writes run beside it (_check_store_version, _reload).
CheckedIsCurrent == faults = 0 => \A l \in Lookups : ~look[l].stale

\* What says it is current is: a cache under the store's version, and an answer
\* given after the version was asked for.
ClaimsAreCurrent == VersionHonest /\ CheckedIsCurrent

\* Once every announcement was heard and served, an instance's cache holds every
\* tenant's rows as the table does, without waiting for the interval: no reload that
\* read the table before a change overtakes that change's own re-read
\* (CacheRefresher).  Only a write for one tenant may put another's old rows back.
Quiet(i) ==
    /\ mail[i] = {} /\ refresher[i].pc = "idle" /\ ~Asked(i)
    /\ \A w \in Writers : wr[w].pc \notin {"assign", "announce"}

QuietIsCurrent ==
    backend = "postgres" /\ faults = 0 =>
        \A i \in Instances : Quiet(i) =>
            \A t \in Tenants \ overtaken[i] : Rows(cache[i], t) = Rows(store, t)

\* What CacheRefresher says: one task applies every update in turn, so a change
\* that was heard of does not wait out the interval.
HeardIsCurrent ==
    backend = "postgres" /\ faults = 0 =>
        \A i \in Instances : Quiet(i) => cache[i] = store

\* A write for one tenant leaves every other tenant's keys alone.
OtherTenantsKept ==
    [][\A k \in DOMAIN store :
         (\A w \in Writers : wr[w].op # None => wr[w].op.tenant # store[k].tenant) =>
             k \in DOMAIN store' /\ store'[k] = store[k]]_vars

\* What _FILE_CHECK_SECONDS and _SECRET_CHECK_SECONDS are said to do: a key revoked
\* through another instance stops working here within the interval.
StopsWithinInterval == faults = 0 => \A l \in Lookups : ~look[l].late
=============================================================================
