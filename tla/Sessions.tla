------------------------------ MODULE Sessions ------------------------------
(***************************************************************************)
(* What a conversation keeps in the proxy between its turns, for one tenant *)
(* key prefix: G17's turn counter and start time of one workflow            *)
(* (middleware/g17_loop_control.py), G10's session summary, and G10's       *)
(* long-term memory client (middleware/g10_memory.py).  Turns of the same   *)
(* workflow or session interleave between their awaits.                     *)
(***************************************************************************)
EXTENDS Integers, FiniteSets, Sequences

CONSTANTS
    LoopTurns,      \* concurrent turns of one workflow
    MaxIterations,  \* max_iterations
    WallClock,      \* wall_clock_timeout_seconds
    KeyTtl,         \* the keys' 3600 s, in ticks
    MaxClock,       \* bound: the clock
    MaxLoopTurns,   \* bound: turns of the workflow
    MemTurns,       \* concurrent turns of one session
    MaxSaid,        \* bound: messages of the conversation
    MemTenants, Users, \* names, as sequences of parts (an id joins them with "::")
    MaxPending,     \* _MEM0_MAX_PENDING_STORES
    MaxStores,      \* bound: exchanges handed to Mem0
    MaxSessionFaults \* bound: calls that fail

ASSUME SessionAssumption ==
    /\ {MaxIterations, WallClock, KeyTtl, MaxPending} \subseteq Nat \ {0}
    /\ IsFiniteSet(LoopTurns)
    /\ MemTenants \subseteq Seq(STRING) /\ Users \subseteq Seq(STRING)

VARIABLES
    clock, startKey, startAt, turnKey, turnDue, loopTurn, loopStarted,
    unstopped,  \* ghost: counted turns of this counter that were let through
    session, said, memTurn, style,
    disturbed,  \* ghost: a summary failed or was not stored, or two turns overlapped
    mem0, client, storing, recalled, stored,
    sessionFaults

loopVars == <<clock, startKey, startAt, turnKey, turnDue, loopTurn, loopStarted, unstopped>>
memVars == <<session, said, memTurn, style, disturbed>>
longVars == <<mem0, client, storing, recalled, stored>>

SessionFails == sessionFaults < MaxSessionFaults /\ sessionFaults' = sessionFaults + 1

----------------------------------------------------------------------------
(* G17: the loop's keys.  0 stands for an absent key.                       *)

NoLoopTurn == [at |-> "idle", begun |-> 0, number |-> 0, sure |-> FALSE,
               mine |-> FALSE]   \* ghost: its number is of the counter that lives now

LoopInit ==
    /\ clock = 1 /\ startKey = 0 /\ startAt = 0 /\ turnKey = 0 /\ turnDue = 0
    /\ loopTurn = [t \in LoopTurns |-> NoLoopTurn] /\ loopStarted = 0 /\ unstopped = 0

Numbered(t, n) ==
    loopTurn' = [loopTurn EXCEPT ![t] = [@ EXCEPT !.at = "expire", !.number = n, !.mine = TRUE]]
LoopEnds(t) == loopTurn' = [loopTurn EXCEPT ![t] = NoLoopTurn]

\* mutant: the count is read before it is raised, in two steps
BugCountedLate(t) == /\ turnKey' = loopTurn[t].number + 1
                     /\ Numbered(t, loopTurn[t].number + 1)

\* a turn without a workflow id reads and writes nothing here
LoopStart(t) ==
    /\ loopTurn[t].at = "idle" /\ loopStarted < MaxLoopTurns
    /\ loopStarted' = loopStarted + 1
    /\ \E sure \in BOOLEAN :
         loopTurn' = [loopTurn EXCEPT
             ![t] = [at |-> IF startKey = 0 THEN "first" ELSE "count", begun |-> startKey,
                     number |-> turnKey, sure |-> sure, mine |-> FALSE]]
    /\ UNCHANGED <<clock, startKey, startAt, turnKey, turnDue, unstopped, sessionFaults>>

\* the first turn writes the start time; a concurrent first turn writes it again
SetStart(t) ==
    /\ loopTurn[t].at = "first"
    /\ startKey' = clock /\ startAt' = clock
    /\ loopTurn' = [loopTurn EXCEPT ![t] = [@ EXCEPT !.at = "count", !.begun = clock]]
    /\ UNCHANGED <<clock, turnKey, turnDue, loopStarted, unstopped, sessionFaults>>

\* INCR
TurnCounted(t) == turnKey' = turnKey + 1 /\ Numbered(t, turnKey + 1)

CountTurn(t) ==
    /\ loopTurn[t].at = "count" /\ TurnCounted(t)
    /\ UNCHANGED <<clock, startKey, startAt, turnDue, loopStarted, unstopped, sessionFaults>>

\* EXPIRE, then the three stop conditions
Stopped(t) ==
    \/ clock - loopTurn[t].begun > WallClock
    \/ loopTurn[t].number > MaxIterations
    \/ loopTurn[t].sure                          \* x_confidence_score over its threshold

CheckLoop(t) ==
    /\ loopTurn[t].at = "expire"
    /\ turnDue' = IF turnKey = 0 THEN turnDue ELSE clock + KeyTtl
    /\ unstopped' = IF Stopped(t) \/ ~loopTurn[t].mine THEN unstopped ELSE unstopped + 1
    /\ LoopEnds(t)
    /\ UNCHANGED <<clock, startKey, startAt, turnKey, loopStarted, sessionFaults>>

\* any Redis error is logged and the request goes on with no limit
LoopFails(t) ==
    /\ loopTurn[t].at # "idle" /\ SessionFails /\ LoopEnds(t)
    /\ UNCHANGED <<clock, startKey, startAt, turnKey, turnDue, loopStarted, unstopped>>

\* time passes and takes the expired keys along
LoopTick ==
    /\ clock < MaxClock /\ clock' = clock + 1
    /\ LET old == startKey # 0 /\ startAt + KeyTtl <= clock + 1
           gone == turnDue # 0 /\ turnDue <= clock + 1
       IN  /\ startKey' = IF old THEN 0 ELSE startKey
           /\ startAt' = IF old THEN 0 ELSE startAt
           /\ turnKey' = IF gone THEN 0 ELSE turnKey
           /\ turnDue' = IF gone THEN 0 ELSE turnDue
           /\ unstopped' = IF gone THEN 0 ELSE unstopped
           /\ loopTurn' = [t \in LoopTurns |-> [loopTurn[t] EXCEPT !.mine = @ /\ ~gone]]
    /\ UNCHANGED <<loopStarted, sessionFaults>>

LoopNext ==
    \/ \E t \in LoopTurns : LoopStart(t) \/ SetStart(t) \/ CountTurn(t) \/ CheckLoop(t) \/ LoopFails(t)
    \/ LoopTick

(* However its turns interleave, a workflow gets at most max_iterations     *)
(* turns past G17 unflagged while its counter lives: each counted turn has  *)
(* a number of its own.  (A turn whose Redis call failed is not counted and *)
(* not stopped: _get_redis errors let the request go on.)                   *)
LoopIsStopped == unstopped <= MaxIterations

----------------------------------------------------------------------------
(* G10: the session summary.  The conversation's messages are numbered; a   *)
(* summary is the set of messages it covers.                                *)

NoSession == [facts |-> {}, count |-> -1]
NoMemTurn == [at |-> "idle", sent |-> {}, prompt |-> {}, kept |-> {}, before |-> {}]

MemInit ==
    /\ session = NoSession /\ said = 0 /\ disturbed = FALSE
    /\ style \in {"relying", "resending"}
    /\ memTurn = [t \in MemTurns |-> NoMemTurn]

MemBusy(t) == \E u \in MemTurns \ {t} : memTurn[u].at # "idle"
MemEnds(t) == memTurn' = [memTurn EXCEPT ![t] = NoMemTurn]

\* mutant: the update summarises the request's own turns only
BugOneRequestOnly(t) == memTurn[t].sent

\* a relying client sends its new message, a resending one all of them
MemStart(t) ==
    /\ memTurn[t].at = "idle" /\ said < MaxSaid
    /\ said' = said + 1
    /\ disturbed' = (disturbed \/ MemBusy(t))
    /\ memTurn' = [memTurn EXCEPT ![t] = [@ EXCEPT
           !.at = "load", !.before = 1 .. said,
           !.sent = IF style = "relying" THEN {said + 1} ELSE 1 .. said + 1]]
    /\ UNCHANGED <<session, style, sessionFaults>>

\* _apply_session_state: more turns than last time means the client resent them
Resent(t) == session.count # -1 /\ Cardinality(memTurn[t].sent) > session.count

Load(t) ==
    /\ memTurn[t].at = "load"
    /\ \/ /\ UNCHANGED <<sessionFaults, disturbed>>
          /\ LET stored1 == IF Resent(t) THEN {} ELSE session.facts
             IN  memTurn' = [memTurn EXCEPT ![t] = [@ EXCEPT
                     !.at = IF Resent(t) THEN "keep" ELSE "summarise",
                     !.kept = session.facts, !.prompt = stored1 \cup memTurn[t].sent]]
       \* the session cannot be read: window only, nothing is stored
       \/ /\ SessionFails /\ disturbed' = TRUE /\ MemEnds(t)
    /\ UNCHANGED <<session, said, style>>

\* a resent conversation keeps the stored summary and the new count; if SET fails the
\* old count stays, which the client's next turn exceeds all the same
KeepSession(t) ==
    /\ memTurn[t].at = "keep"
    /\ \/ /\ session' = [facts |-> memTurn[t].kept, count |-> Cardinality(memTurn[t].sent)]
          /\ UNCHANGED sessionFaults
       \/ SessionFails /\ UNCHANGED session
    /\ MemEnds(t)
    /\ UNCHANGED <<said, style, disturbed>>

\* summarise_turns of the stored summary and this request's turns
Summary(t) == memTurn[t].kept \cup memTurn[t].sent

SaveSession(t) ==
    /\ memTurn[t].at = "summarise"
    /\ \/ \E facts \in {Summary(t), {}} :        \* {}: "[summary unavailable]"
            /\ session' = [facts |-> facts, count |-> Cardinality(memTurn[t].sent)]
            /\ IF facts = Summary(t) THEN UNCHANGED <<disturbed, sessionFaults>>
               ELSE SessionFails /\ disturbed' = TRUE
       \* SET fails: what the session knew stays, without this turn
       \/ SessionFails /\ UNCHANGED session /\ disturbed' = (disturbed \/ style = "relying")
    /\ MemEnds(t)
    /\ UNCHANGED <<said, style>>

SessionExpires ==
    /\ session # NoSession /\ session' = NoSession /\ disturbed' = TRUE
    /\ UNCHANGED <<said, memTurn, style, sessionFaults>>

MemNext ==
    \/ \E t \in MemTurns : MemStart(t) \/ Load(t) \/ KeepSession(t) \/ SaveSession(t)
    \/ SessionExpires

(* Whether the client resends its conversation or relies on the proxy, the  *)
(* prompt of each turn covers every message said before it: the memory      *)
(* "builds up rather than lasting one request" (_apply_session_state), as   *)
(* long as no summary failed or, for a client that relies on it, failed to  *)
(* be stored, and no two turns of the session overlapped.                   *)
MemoryBuildsUp ==
    \A t \in MemTurns :
        memTurn[t].at \in {"keep", "summarise"} /\ ~disturbed
            => memTurn[t].before \subseteq memTurn[t].prompt

----------------------------------------------------------------------------
(* G10: Mem0, a service keyed by one string per user.                       *)

LongInit ==
    /\ mem0 = {} /\ client = "none" /\ storing = {} /\ recalled = {} /\ stored = 0

\* scoped_user_id: "tenant::user"
ScopedId(tenant, user) == tenant \o <<"::">> \o user

\* Mem0MemoryClient.client and _start: one attempt at a time, again after a failure
StartClient ==
    /\ client \in {"none", "failed"} /\ client' = "starting"
    /\ UNCHANGED <<mem0, storing, recalled, stored, sessionFaults>>

ClientStarts ==
    /\ client = "starting"
    /\ \/ client' = "ready" /\ UNCHANGED sessionFaults
       \/ client' = "failed" /\ SessionFails
    /\ UNCHANGED <<mem0, storing, recalled, stored>>

\* store_exchange: in the background, skipped while too many are waiting
StoreExchange(tenant, user) ==
    /\ client = "ready" /\ stored < MaxStores /\ Cardinality(storing) < MaxPending
    /\ stored' = stored + 1
    /\ storing' = storing \cup {[id |-> ScopedId(tenant, user), tenant |-> tenant, user |-> user]}
    /\ UNCHANGED <<mem0, client, recalled, sessionFaults>>

ExchangeArrives(e) ==
    /\ e \in storing /\ storing' = storing \ {e}
    /\ \/ mem0' = mem0 \cup {e} /\ UNCHANGED sessionFaults
       \/ UNCHANGED mem0 /\ SessionFails
    /\ UNCHANGED <<client, recalled, stored>>

\* mutant: the id alone
BugIdAlone(m, tenant, user) == m.id = ScopedId(tenant, user)

\* retrieve_memories: by id, then by the tenant the memory was stored with
Recalls(m, tenant, user) == m.id = ScopedId(tenant, user) /\ m.tenant = tenant

Recall(tenant, user) ==
    /\ client = "ready"
    /\ recalled' = {[of |-> m, by |-> <<tenant, user>>] : m \in {x \in mem0 : Recalls(x, tenant, user)}}
    /\ UNCHANGED <<mem0, client, storing, stored, sessionFaults>>

LongNext ==
    \/ StartClient
    \/ ClientStarts
    \/ \E tenant \in MemTenants, user \in Users : StoreExchange(tenant, user) \/ Recall(tenant, user)
    \/ \E e \in storing : ExchangeArrives(e)

(* A request is shown only memories its own tenant's same user stored, even *)
(* where two tenants' user ids join to the same Mem0 id.                    *)
MemoriesAreOwn == \A r \in recalled : r.by = <<r.of.tenant, r.of.user>>

(* A tenant's user gets back what it said, within a session and from the    *)
(* long-term memory, and nothing that another one said.                     *)
MemoryIsOwnAndWhole == MemoryBuildsUp /\ MemoriesAreOwn

----------------------------------------------------------------------------
(* The three beside each other.                                             *)

sessionVars == <<loopVars, memVars, longVars, sessionFaults>>

SessionsInit == LoopInit /\ MemInit /\ LongInit /\ sessionFaults = 0

SessionsNext ==
    \/ LoopNext /\ UNCHANGED <<memVars, longVars>>
    \/ MemNext /\ UNCHANGED <<loopVars, longVars>>
    \/ LongNext /\ UNCHANGED <<loopVars, memVars>>

SessionsSpec == SessionsInit /\ [][SessionsNext]_sessionVars
=============================================================================
