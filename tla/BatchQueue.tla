------------------------------ MODULE BatchQueue ------------------------------
(***************************************************************************)
(* G13's batch queue (src/src/proxy/middleware/g13_batch.py): requests     *)
(* deferred onto their tenants' Redis streams, the consumer and the        *)
(* native-batch poller every worker process runs, the results they leave   *)
(* for GET /v1/batch/results/{id}, and the tenants' spend counters.        *)
(*                                                                         *)
(* Each action is the code between two awaits of a Redis or provider call. *)
(* A Redis call may fail: the kinds of failure a run admits are            *)
(* FaultKinds, MaxFaults of them in all.  Key expiry (a result's hour, an  *)
(* owner's three days) is not modelled.                                    *)
(***************************************************************************)
EXTENDS Integers, Sequences, FiniteSets

CONSTANTS
    Requests,
    Placings,      \* which stream each request is queued on, one choice per behaviour
    Workers,       \* proxy processes, each with a consumer and a poller
    Native,        \* provider_native
    MaxBacklog,    \* max_backlog
    MaxBatch,      \* max_batch_size
    MaxAttempts,   \* max_attempts
    Stale,         \* max_pending_ack_ms, in holding intervals (a third each)
    MaxEntries,    \* bound: entries ever added to the streams
    FaultKinds, MaxFaults, MaxCrashes,  \* bounds: Redis failures, process deaths
    MaxTrouble                          \* bound: both together, by the placing

ASSUME ConstantsAssumption ==
    /\ \A placing \in Placings : placing \in [Requests -> Nat]
    /\ Native \in BOOLEAN
    /\ MaxBacklog \in Nat /\ MaxBatch \in Nat \ {0} /\ MaxAttempts \in Nat \ {0}
    /\ Stale \in Nat \ {0, 1} /\ MaxEntries \in Nat
    /\ MaxFaults \in Nat /\ MaxCrashes \in Nat /\ MaxTrouble \in [Placings -> Nat]
    /\ IsFiniteSet(Requests) /\ IsFiniteSet(Workers)

VARIABLES
    pc,          \* where each request's process_request is
    owner,       \* requests with an owner record (tok_opt:batch_owner)
    registered,  \* streams in tok_opt:batch_streams
    queue,       \* the stream of a request's tenant and topic
    log,         \* every entry ever added to a stream: the request it carries
    deleted,     \* entries removed with XDEL
    given,       \* entries the group has delivered
    deliveries,  \* delivery count of a pending entry, 0 when not pending
    idle,        \* how long a pending entry has been idle, at most Stale
    at,          \* where each worker's consumer is
    todo,        \* entries it has still to judge or to flush
    mine,        \* entries it holds and will acknowledge
    later,       \* entries of its read whose stream's turn has not come
    settled,     \* sweep: entries with nothing left to do
    retry,       \* sweep: entries to flush again
    out,         \* how its current provider call ended
    held,        \* whether its next re-claim is due
    unsupported, \* failed native submits memoised: by which worker, for which stream
    jobs,        \* native jobs: their entries, their status, the answered ones
    recorded,    \* jobs in tok_opt:batch_jobs
    pat,         \* where each worker's poller is
    plist,       \* jobs of its snapshot still to look at
    pjob,        \* the job it is finishing
    ptodo,       \* that job's entries still to store
    result,      \* tok_opt:batch_result of a request
    spend,       \* answers of a request added to the spend counter
    paid,        \* history: answers the provider produced for a request
    flushes,     \* history: flushes an entry was part of
    waited,      \* history: entries delivered behind another stream's flush
    faults,      \* history: the kinds of the Redis calls that failed
    crashes      \* history: how many workers died

reqVars == <<pc, owner, registered>>
streamVars == <<queue, log, deleted, given>>
pelVars == <<deliveries, idle>>
consVars == <<at, todo, mine, later, settled, retry, out, held, unsupported, flushes,
              waited>>
jobVars == <<jobs, recorded>>
pollVars == <<pat, plist, pjob, ptodo>>
resVars == <<result, spend, paid>>
faultVars == <<faults, crashes>>
vars == <<pc, owner, registered, queue, log, deleted, given, deliveries, idle, at,
          todo, mine, later, settled, retry, out, held, unsupported, jobs, recorded,
          pat, plist, pjob, ptodo, result, spend, paid, flushes, waited, faults,
          crashes>>

Entries == 1 .. MaxEntries

Phases == {"idle", "submit", "record", "call", "store", "cost", "ack", "del",
           "judge", "judge2"}

\* Phases of a flush: the holder task runs.
Flushing == {"submit", "record", "call", "store", "cost"}

\* Streams are numbered in the order of their names; each is another tenant's.
Stream(e) == queue[log[e]]

\* A stream's entries are taken to be one provider's, so a batch is one job.
Job == [by : Workers, items : SUBSET Entries, status : {"pending", "completed", "failed"},
        answers : SUBSET Entries]

Init ==
    /\ pc = [r \in Requests |-> "arrived"]
    /\ owner = {} /\ registered = {}
    /\ queue \in Placings
    /\ log = <<>> /\ deleted = {} /\ given = {}
    /\ deliveries = [e \in Entries |-> 0]
    /\ idle = [e \in Entries |-> 0]
    /\ at = [w \in Workers |-> "idle"]
    /\ todo = [w \in Workers |-> {}]
    /\ mine = [w \in Workers |-> {}]
    /\ later = [w \in Workers |-> {}]
    /\ settled = [w \in Workers |-> {}]
    /\ retry = [w \in Workers |-> {}]
    /\ out = [w \in Workers |-> "none"]
    /\ held = [w \in Workers |-> TRUE]
    /\ unsupported = {}
    /\ jobs = <<>> /\ recorded = {}
    /\ pat = [w \in Workers |-> "idle"]
    /\ plist = [w \in Workers |-> {}]
    /\ pjob = [w \in Workers |-> 0]
    /\ ptodo = [w \in Workers |-> {}]
    /\ result = [r \in Requests |-> "none"]
    /\ spend = [r \in Requests |-> 0]
    /\ paid = [r \in Requests |-> 0]
    /\ flushes = [e \in Entries |-> 0]
    /\ waited = {}
    /\ faults = <<>> /\ crashes = 0

\* A Redis call of this kind fails.
Fault(kind) ==
    /\ kind \in FaultKinds
    /\ Len(faults) < MaxFaults /\ Len(faults) + crashes < MaxTrouble[queue]
    /\ faults' = Append(faults, kind)
    /\ UNCHANGED crashes

NoFault == UNCHANGED faultVars

-----------------------------------------------------------------------------
(* process_request: a request is deferred, or answered now. *)

Goto(r, where) == pc' = [pc EXCEPT ![r] = where]

\* Tools in the request, a response-side safety step, or a topic nobody reads: any
\* request may have one of them.
AnswerNow(r) ==
    /\ pc[r] = "arrived"
    /\ Goto(r, "sync")
    /\ UNCHANGED <<owner, registered, streamVars, pelVars, consVars, jobVars,
                   pollVars, resVars, faultVars>>

BugIgnoresFailedWrite(r) ==
    /\ pc[r] = "arrived"
    /\ Goto(r, "owned")
    /\ \/ owner' = owner \cup {r} /\ NoFault
       \/ Fault("owner") /\ UNCHANGED owner
    /\ UNCHANGED <<registered, streamVars, pelVars, consVars, jobVars, pollVars,
                   resVars>>

\* The owner is on record before the request is queued.
RecordOwner(r) ==
    /\ pc[r] = "arrived"
    /\ \/ owner' = owner \cup {r} /\ Goto(r, "owned") /\ NoFault
       \/ Fault("owner") /\ Goto(r, "sync") /\ UNCHANGED owner
    /\ UNCHANGED <<registered, streamVars, pelVars, consVars, jobVars, pollVars,
                   resVars>>

StreamLen(s) == Cardinality({e \in 1 .. Len(log) \ deleted : Stream(e) = s})

CheckBacklog(r) ==
    /\ pc[r] = "owned"
    /\ \/ /\ Goto(r, IF MaxBacklog > 0 /\ StreamLen(queue[r]) >= MaxBacklog
                     THEN "refused" ELSE "checked")
          /\ NoFault
       \/ Fault("backlog") /\ Goto(r, "refused")
    /\ UNCHANGED <<owner, registered, streamVars, pelVars, consVars, jobVars,
                   pollVars, resVars>>

\* SADD: the consumers learn of the stream before it holds the entry.
RegisterStream(r) ==
    /\ pc[r] = "checked"
    /\ \/ registered' = registered \cup {queue[r]} /\ Goto(r, "registered") /\ NoFault
       \/ Fault("register") /\ Goto(r, "refused") /\ UNCHANGED registered
    /\ UNCHANGED <<owner, streamVars, pelVars, consVars, jobVars, pollVars, resVars>>

\* XADD.  A call that times out may or may not have been applied.
Accumulate(r) ==
    /\ pc[r] = "registered"
    /\ Len(log) < MaxEntries
    /\ \/ log' = Append(log, r) /\ Goto(r, "queued") /\ NoFault
       \/ Fault("xadd_lost") /\ Goto(r, "refused") /\ UNCHANGED log
       \/ Fault("xadd_late") /\ Goto(r, "refused") /\ log' = Append(log, r)
    /\ UNCHANGED <<owner, registered, queue, deleted, given, pelVars, consVars,
                   jobVars, pollVars, resVars>>

\* Not queued: the owner record is taken back and the request answered now.
ForgetOwner(r) ==
    /\ pc[r] = "refused"
    /\ \/ owner' = owner \ {r} /\ NoFault
       \/ Fault("forget") /\ UNCHANGED owner
    /\ Goto(r, "sync")
    /\ UNCHANGED <<registered, streamVars, pelVars, consVars, jobVars, pollVars,
                   resVars>>

\* The process dies under the handler.
HandlerDies(r) ==
    /\ pc[r] \in {"owned", "checked", "registered", "refused"}
    /\ crashes < MaxCrashes /\ Len(faults) + crashes < MaxTrouble[queue]
    /\ crashes' = crashes + 1
    /\ Goto(r, "gone")
    /\ UNCHANGED <<owner, registered, streamVars, pelVars, consVars, jobVars,
                   pollVars, resVars, faults>>

-----------------------------------------------------------------------------
(* The results. *)

BugStoreOverwrites(r, status) == result' = [result EXCEPT ![r] = status]

\* _store_batch_result: a completed answer always wins (_UNLESS_COMPLETED).
StoreResult(r, status) ==
    result' = IF status # "completed" /\ result[r] = "completed" THEN result
              ELSE [result EXCEPT ![r] = status]

\* A failed write is logged and forgotten.
StoreOrLose(r, status) ==
    \/ StoreResult(r, status) /\ NoFault
    \/ Fault("store") /\ UNCHANGED result

\* What GET /v1/batch/results/{id} answers the owning tenant.
Seen(r) ==
    IF r \notin owner THEN "not_found"
    ELSE IF result[r] = "none" THEN "pending" ELSE result[r]

-----------------------------------------------------------------------------
(* The consumer of one worker: reading, flushing, holding, acknowledging. *)

First(S) == CHOOSE e \in S : \A f \in S : e <= f

Item(w) == First(todo[w])

\* Those of a set of entries whose stream comes first.
FirstStream(S) == {e \in S : \A f \in S : Stream(e) <= Stream(f)}

\* Into the flush of these entries of one stream, with the holder started for them
\* alone; the rest of the read waits.
StartFlush(w, items, rest) ==
    /\ at' = [at EXCEPT ![w] =
                 IF Native /\ <<w, Stream(First(items))>> \notin unsupported
                 THEN "submit" ELSE "call"]
    /\ todo' = [todo EXCEPT ![w] = items]
    /\ mine' = [mine EXCEPT ![w] = items]
    /\ later' = [later EXCEPT ![w] = rest]
    /\ retry' = [retry EXCEPT ![w] = {}]
    /\ settled' = [settled EXCEPT ![w] = {}]
    /\ held' = [held EXCEPT ![w] = TRUE]
    /\ flushes' = [e \in Entries |-> IF e \in items THEN flushes[e] + 1 ELSE flushes[e]]

\* Nothing in hand: the next round of the consumer loop.
Rest(w) ==
    /\ at' = [at EXCEPT ![w] = "idle"]
    /\ todo' = [todo EXCEPT ![w] = {}]
    /\ mine' = [mine EXCEPT ![w] = {}]
    /\ later' = [later EXCEPT ![w] = {}]
    /\ retry' = [retry EXCEPT ![w] = {}]
    /\ settled' = [settled EXCEPT ![w] = {}]
    /\ UNCHANGED <<held, flushes>>

\* A flush has ended: on to the next stream of the read, if there is one.
Proceed(w) ==
    IF later[w] = {} THEN Rest(w)
    ELSE LET items == FirstStream(later[w])
         IN  StartFlush(w, items, later[w] \ items)

\* The entries of a stream nobody was given that come before this one.
Ahead(e) == {f \in 1 .. e - 1 : f \notin given /\ Stream(f) = Stream(e)}

\* What XREADGROUP delivers: of each of these streams, at most MaxBatch entries.
NewOf(streams) ==
    {e \in 1 .. Len(log) : /\ e \notin given
                           /\ Stream(e) \in streams
                           /\ Cardinality(Ahead(e)) < MaxBatch}

\* One XREADGROUP over the streams the worker knows of, which may not be all that
\* are registered by now; then the flush of the first of them.  A reply that is
\* lost leaves the entries pending with nobody working on them.
Read(w) ==
    \E known \in SUBSET registered :
        LET new == NewOf(known)
            items == FirstStream(new)
        IN  /\ at[w] = "idle"
            /\ new # {}
            /\ given' = given \cup new
            /\ deliveries' = [e \in Entries |-> IF e \in new THEN 1 ELSE deliveries[e]]
            /\ idle' = [e \in Entries |-> IF e \in new THEN 0 ELSE idle[e]]
            /\ waited' = waited \cup (new \ items)
            /\ \/ StartFlush(w, items, new \ items) /\ NoFault
               \/ Fault("read") /\ Rest(w)
            /\ UNCHANGED <<reqVars, queue, log, deleted, out, unsupported, jobVars,
                           pollVars, resVars>>

\* _flush_batch_native: one job for the batch; no key of the tenant's own or a
\* failed submit falls back to the loop.
Submit(w) ==
    /\ at[w] = "submit"
    /\ \/ /\ jobs' = Append(jobs, [by |-> w, items |-> todo[w],
                                status |-> "pending", answers |-> {}])
          /\ at' = [at EXCEPT ![w] = "record"]
          /\ UNCHANGED unsupported
       \/ /\ at' = [at EXCEPT ![w] = "call"]
          /\ unsupported' \in {unsupported,
                                unsupported \cup {<<w, Stream(Item(w))>>}}
          /\ UNCHANGED jobs
    /\ UNCHANGED <<reqVars, streamVars, pelVars, todo, mine, later, settled, retry,
                   out, held, flushes, waited, recorded, pollVars, resVars,
                   faultVars>>

\* _record_batch_job: a failed write is logged and forgotten.
RecordJob(w) ==
    /\ at[w] = "record"
    /\ \E j \in 1 .. Len(jobs) :
         /\ jobs[j].by = w /\ \A k \in j + 1 .. Len(jobs) : jobs[k].by # w
         /\ \/ recorded' = recorded \cup {j} /\ NoFault
            \/ Fault("record") /\ UNCHANGED recorded
    /\ at' = [at EXCEPT ![w] = "ack"]
    /\ todo' = [todo EXCEPT ![w] = {}]
    /\ UNCHANGED <<reqVars, streamVars, pelVars, mine, later, settled, retry, out,
                   held, unsupported, flushes, waited, jobs, pollVars, resVars>>

\* The provider answers, or the call fails, or no key is found for it.
CallEnds(w) ==
    /\ at[w] = "call"
    /\ \/ /\ out' = [out EXCEPT ![w] = "completed"]
          /\ paid' = [paid EXCEPT ![log[Item(w)]] = @ + 1]
       \/ out' = [out EXCEPT ![w] = "failed"] /\ UNCHANGED paid
    /\ at' = [at EXCEPT ![w] = "store"]
    /\ UNCHANGED <<reqVars, streamVars, pelVars, todo, mine, later, settled, retry,
                   held, unsupported, flushes, waited, jobVars, pollVars, result,
                   spend, faultVars>>

AfterItem(w) == IF todo[w] = {Item(w)} THEN "ack" ELSE "call"

BugAlwaysCosts(w) ==
    /\ at' = [at EXCEPT ![w] = "cost"]
    /\ UNCHANGED todo

\* Only an answer is priced.
AfterStore(w) ==
    IF out[w] = "completed"
    THEN /\ at' = [at EXCEPT ![w] = "cost"]
         /\ UNCHANGED todo
    ELSE /\ at' = [at EXCEPT ![w] = AfterItem(w)]
         /\ todo' = [todo EXCEPT ![w] = @ \ {Item(w)}]

Store(w) ==
    /\ at[w] = "store"
    /\ StoreOrLose(log[Item(w)], out[w])
    /\ AfterStore(w)
    /\ UNCHANGED <<reqVars, streamVars, pelVars, mine, later, settled, retry, out,
                   held, unsupported, flushes, waited, jobVars, pollVars, spend,
                   paid>>

\* _add_answer_cost.
AddCost(w) ==
    /\ at[w] = "cost"
    /\ \/ spend' = [spend EXCEPT ![log[Item(w)]] = @ + 1] /\ NoFault
       \/ Fault("cost") /\ UNCHANGED spend
    /\ at' = [at EXCEPT ![w] = AfterItem(w)]
    /\ todo' = [todo EXCEPT ![w] = @ \ {Item(w)}]
    /\ UNCHANGED <<reqVars, streamVars, pelVars, mine, later, settled, retry, out,
                   held, unsupported, flushes, waited, jobVars, pollVars, result,
                   paid>>

\* XACK; an error leaves the entries pending and ends this stream's flush.
Ack(w) ==
    /\ at[w] = "ack"
    /\ \/ /\ deliveries' = [e \in Entries |-> IF e \in mine[w] THEN 0 ELSE deliveries[e]]
          /\ at' = [at EXCEPT ![w] = "del"]
          /\ NoFault
          /\ UNCHANGED <<todo, mine, later, settled, retry, held, flushes>>
       \/ Fault("ack") /\ Proceed(w) /\ UNCHANGED deliveries
    /\ UNCHANGED <<reqVars, streamVars, idle, out, unsupported, waited, jobVars,
                   pollVars, resVars>>

BugNoDelete(w) == UNCHANGED deleted

\* _forget: XDEL.
Forget(w) == deleted' = deleted \cup mine[w]

\* After the XDEL a sweep goes on to flush what it retries.
Delete(w) ==
    /\ at[w] = "del"
    /\ \/ Forget(w) /\ NoFault
       \/ Fault("del") /\ UNCHANGED deleted
    /\ IF retry[w] = {} THEN Proceed(w) ELSE StartFlush(w, retry[w], {})
    /\ UNCHANGED <<reqVars, queue, log, given, pelVars, out, unsupported, waited,
                   jobVars, pollVars, resVars>>

BugHoldsNothing(w) == UNCHANGED idle

\* XCLAIM ... JUSTID of what is still pending.
Reclaim(w) ==
    idle' = [e \in Entries |-> IF e \in mine[w] /\ deliveries[e] > 0
                               THEN 0 ELSE idle[e]]

\* _hold, every third of the stale time.
Hold(w) ==
    /\ at[w] \in Flushing
    /\ ~held[w]
    /\ \/ Reclaim(w) /\ NoFault
       \/ Fault("hold") /\ UNCHANGED idle
    /\ held' = [held EXCEPT ![w] = TRUE]
    /\ UNCHANGED <<reqVars, streamVars, deliveries, at, todo, mine, later, settled,
                   retry, out, unsupported, flushes, waited, jobVars, pollVars,
                   resVars>>

-----------------------------------------------------------------------------
(* The sweep: _reclaim_stale_pel. *)

BugLongerThanStale(s) ==
    {e \in 1 .. Len(log) : Stream(e) = s /\ deliveries[e] > 0 /\ idle[e] > Stale}

\* What XAUTOCLAIM takes of a stream: pending for at least the stale time.
StaleEntries(s) ==
    {e \in 1 .. Len(log) : Stream(e) = s /\ deliveries[e] > 0 /\ idle[e] >= Stale}

\* XAUTOCLAIM, one stream after another.
SweepClaim(w) ==
    \E s \in registered :
        LET stale == StaleEntries(s)
        IN  /\ at[w] = "idle"
            /\ stale # {}
            /\ deliveries' = [e \in Entries |-> IF e \in stale THEN deliveries[e] + 1
                                                ELSE deliveries[e]]
            /\ idle' = [e \in Entries |-> IF e \in stale THEN 0 ELSE idle[e]]
            /\ at' = [at EXCEPT ![w] = "judge"]
            /\ todo' = [todo EXCEPT ![w] = stale]
            /\ UNCHANGED <<reqVars, streamVars, mine, later, settled, retry, out,
                           held, unsupported, flushes, waited, jobVars, pollVars,
                           resVars, faultVars>>

BugNotCompleted(r) == result[r] # "completed"

Completed(r) == result[r] = "completed"

\* _completed: nothing is left to do for an answered request.
JudgeCompleted(w) ==
    /\ at[w] = "judge" /\ todo[w] # {}
    /\ IF Completed(log[Item(w)])
       THEN /\ settled' = [settled EXCEPT ![w] = @ \cup {Item(w)}]
            /\ todo' = [todo EXCEPT ![w] = @ \ {Item(w)}]
            /\ UNCHANGED at
       ELSE /\ at' = [at EXCEPT ![w] = "judge2"]
            /\ UNCHANGED <<settled, todo>>
    /\ UNCHANGED <<reqVars, streamVars, pelVars, mine, later, retry, out, held,
                   unsupported, flushes, waited, jobVars, pollVars, resVars,
                   faultVars>>

BugOneMore(n) == n > MaxAttempts + 1

TooOften(n) == n > MaxAttempts

\* _deliveries: acknowledged meanwhile, given up, or to be tried again.
JudgeDeliveries(w) ==
    LET e == Item(w)
        n == deliveries[e]
    IN  /\ at[w] = "judge2"
        /\ \/ /\ \/ /\ n = 0
                    /\ UNCHANGED <<settled, retry, result>>
                    /\ NoFault
                 \/ /\ n > 0 /\ TooOften(n)
                    /\ StoreOrLose(log[e], "failed")
                    /\ settled' = [settled EXCEPT ![w] = @ \cup {e}]
                    /\ UNCHANGED retry
                 \/ /\ n > 0 /\ ~TooOften(n)
                    /\ retry' = [retry EXCEPT ![w] = @ \cup {e}]
                    /\ UNCHANGED <<settled, result>>
                    /\ NoFault
              /\ todo' = [todo EXCEPT ![w] = @ \ {e}]
              /\ at' = [at EXCEPT ![w] = "judge"]
              /\ UNCHANGED <<mine, later, held, flushes>>
           \/ Fault("pending") /\ Rest(w) /\ UNCHANGED result
        /\ UNCHANGED <<reqVars, streamVars, pelVars, out, unsupported, waited,
                       jobVars, pollVars, spend, paid>>

\* The settled entries are acknowledged first, then the others flushed again.
SweepJudged(w) ==
    /\ at[w] = "judge" /\ todo[w] = {}
    /\ IF settled[w] # {}
       THEN /\ at' = [at EXCEPT ![w] = "ack"]
            /\ mine' = [mine EXCEPT ![w] = settled[w]]
            /\ UNCHANGED <<todo, later, settled, retry, held, flushes>>
       ELSE IF retry[w] # {} THEN StartFlush(w, retry[w], {}) ELSE Rest(w)
    /\ UNCHANGED <<reqVars, streamVars, pelVars, out, unsupported, waited, jobVars,
                   pollVars, resVars, faultVars>>

-----------------------------------------------------------------------------
(* The native-batch poller of one worker: poll_batch_jobs. *)

\* HGETALL.
PollStart(w) ==
    /\ pat[w] = "idle"
    /\ recorded # {}
    /\ pat' = [pat EXCEPT ![w] = "look"]
    /\ plist' = [plist EXCEPT ![w] = recorded]
    /\ UNCHANGED <<reqVars, streamVars, pelVars, consVars, jobVars, pjob, ptodo,
                   resVars, faultVars>>

\* poll_batch: a job still pending waits for the next pass; so does one whose
\* status or results cannot be read.
PollJob(w) ==
    /\ pat[w] = "look" /\ plist[w] # {}
    /\ LET j == First(plist[w])
       IN  /\ plist' = [plist EXCEPT ![w] = @ \ {j}]
           /\ \/ /\ jobs[j].status # "pending"
                 /\ pat' = [pat EXCEPT ![w] = "store"]
                 /\ pjob' = [pjob EXCEPT ![w] = j]
                 /\ ptodo' = [ptodo EXCEPT ![w] = jobs[j].items]
                 /\ NoFault
              \/ /\ jobs[j].status = "pending"
                 /\ UNCHANGED <<pat, pjob, ptodo>>
                 /\ NoFault
              \/ Fault("poll") /\ UNCHANGED <<pat, pjob, ptodo>>
    /\ UNCHANGED <<reqVars, streamVars, pelVars, consVars, jobVars, resVars>>

PItem(w) == First(ptodo[w])

PollStore(w) ==
    /\ pat[w] = "store" /\ ptodo[w] # {}
    /\ IF PItem(w) \in jobs[pjob[w]].answers
       THEN /\ StoreOrLose(log[PItem(w)], "completed")
            /\ pat' = [pat EXCEPT ![w] = "cost"]
            /\ UNCHANGED ptodo
       ELSE /\ StoreOrLose(log[PItem(w)], "failed")
            /\ ptodo' = [ptodo EXCEPT ![w] = @ \ {PItem(w)}]
            /\ UNCHANGED pat
    /\ UNCHANGED <<reqVars, streamVars, pelVars, consVars, jobVars, plist, pjob,
                   spend, paid>>

PollCost(w) ==
    /\ pat[w] = "cost"
    /\ \/ spend' = [spend EXCEPT ![log[PItem(w)]] = @ + 1] /\ NoFault
       \/ Fault("cost") /\ UNCHANGED spend
    /\ pat' = [pat EXCEPT ![w] = "store"]
    /\ ptodo' = [ptodo EXCEPT ![w] = @ \ {PItem(w)}]
    /\ UNCHANGED <<reqVars, streamVars, pelVars, consVars, jobVars, plist, pjob,
                   result, paid>>

\* HDEL, once every result is stored.
PollDrop(w) ==
    /\ pat[w] = "store" /\ ptodo[w] = {}
    /\ recorded' = recorded \ {pjob[w]}
    /\ pat' = [pat EXCEPT ![w] = "look"]
    /\ UNCHANGED <<reqVars, streamVars, pelVars, consVars, jobs, plist, pjob, ptodo,
                   resVars, faultVars>>

PollEnd(w) ==
    /\ pat[w] = "look" /\ plist[w] = {}
    /\ pat' = [pat EXCEPT ![w] = "idle"]
    /\ UNCHANGED <<reqVars, streamVars, pelVars, consVars, jobVars, plist, pjob,
                   ptodo, resVars, faultVars>>

-----------------------------------------------------------------------------
(* The environment. *)

\* The provider ends a job: answers to some of its items, or none.
JobEnds(j) ==
    /\ j \in 1 .. Len(jobs) /\ jobs[j].status = "pending"
    /\ \/ \E A \in SUBSET jobs[j].items :
            /\ jobs' = [jobs EXCEPT ![j].status = "completed", ![j].answers = A]
            /\ paid' = [r \in Requests |->
                          paid[r] + Cardinality({e \in A : log[e] = r})]
       \/ jobs' = [jobs EXCEPT ![j].status = "failed"] /\ UNCHANGED paid
    /\ UNCHANGED <<reqVars, streamVars, pelVars, consVars, recorded, pollVars,
                   result, spend, faultVars>>

\* A third of the stale time passes while consumers wait for providers; the
\* Redis round trips between are instantaneous, and a holder is never late.
Tick ==
    /\ \E e \in Entries : deliveries[e] > 0 /\ idle[e] < Stale
    /\ \A w \in Workers : /\ at[w] \in {"idle", "call", "submit"}
                          /\ at[w] = "idle" \/ held[w]
    /\ idle' = [e \in Entries |-> IF deliveries[e] > 0 /\ idle[e] < Stale
                                  THEN idle[e] + 1 ELSE idle[e]]
    /\ held' = [w \in Workers |-> at[w] = "idle"]
    /\ UNCHANGED <<reqVars, streamVars, deliveries, at, todo, mine, later, settled,
                   retry, out, unsupported, flushes, waited, jobVars, pollVars,
                   resVars, faultVars>>

\* The event loop of the holders is blocked for a whole stale time.
Stall ==
    /\ \E e \in Entries : deliveries[e] > 0 /\ idle[e] < Stale
    /\ Fault("stall")
    /\ idle' = [e \in Entries |-> IF deliveries[e] > 0 THEN Stale ELSE idle[e]]
    /\ UNCHANGED <<reqVars, streamVars, deliveries, consVars, jobVars, pollVars,
                   resVars>>

\* A worker process dies and another takes its place.
Crash(w) ==
    /\ crashes < MaxCrashes /\ Len(faults) + crashes < MaxTrouble[queue]
    /\ at[w] # "idle" \/ pat[w] # "idle"
    /\ crashes' = crashes + 1
    /\ Rest(w)
    /\ unsupported' = {memo \in unsupported : memo[1] # w}
    /\ pat' = [pat EXCEPT ![w] = "idle"]
    /\ plist' = [plist EXCEPT ![w] = {}]
    /\ ptodo' = [ptodo EXCEPT ![w] = {}]
    /\ UNCHANGED <<reqVars, streamVars, pelVars, out, waited, jobVars, pjob,
                   resVars, faults>>

-----------------------------------------------------------------------------
HandlerStep(r) ==
    \/ AnswerNow(r)
    \/ RecordOwner(r)
    \/ CheckBacklog(r)
    \/ RegisterStream(r)
    \/ Accumulate(r)
    \/ ForgetOwner(r)

ConsumerStep(w) ==
    \/ Read(w)
    \/ Submit(w)
    \/ RecordJob(w)
    \/ CallEnds(w)
    \/ Store(w)
    \/ AddCost(w)
    \/ Ack(w)
    \/ Delete(w)
    \/ SweepClaim(w)
    \/ JudgeCompleted(w)
    \/ JudgeDeliveries(w)
    \/ SweepJudged(w)

PollerStep(w) ==
    \/ PollStart(w)
    \/ PollJob(w)
    \/ PollStore(w)
    \/ PollCost(w)
    \/ PollDrop(w)
    \/ PollEnd(w)

Next ==
    \/ \E r \in Requests : HandlerStep(r) \/ HandlerDies(r)
    \/ \E w \in Workers : ConsumerStep(w) \/ Hold(w) \/ PollerStep(w) \/ Crash(w)
    \/ \E j \in 1 .. Len(jobs) : JobEnds(j)
    \/ Tick
    \/ Stall

Spec == Init /\ [][Next]_vars

\* Every worker's consumer, holder and poller go on, provider calls and jobs
\* end (request timeout, completion window), and time passes.
Fairness ==
    /\ \A w \in Workers : /\ WF_vars(ConsumerStep(w)) /\ WF_vars(Hold(w))
                          /\ WF_vars(PollerStep(w))
    /\ \A j \in 1 .. MaxEntries * MaxAttempts : WF_vars(JobEnds(j))
    /\ WF_vars(Tick)

FairSpec == Spec /\ Fairness

-----------------------------------------------------------------------------
(* Properties. *)

\* Types of the stream, the workers and the results.
TypeOK ==
    /\ pc \in [Requests -> {"arrived", "owned", "checked", "registered", "queued",
                            "refused", "sync", "gone"}]
    /\ owner \in SUBSET Requests
    /\ registered \in SUBSET Nat
    /\ queue \in [Requests -> Nat]
    /\ log \in Seq(Requests) /\ Len(log) <= MaxEntries
    /\ deleted \in SUBSET Entries
    /\ given \in SUBSET (1 .. Len(log))
    /\ deliveries \in [Entries -> Nat]
    /\ idle \in [Entries -> 0 .. Stale]
    /\ at \in [Workers -> Phases]
    /\ todo \in [Workers -> SUBSET given]
    /\ mine \in [Workers -> SUBSET given]
    /\ later \in [Workers -> SUBSET given]
    /\ settled \in [Workers -> SUBSET given]
    /\ retry \in [Workers -> SUBSET given]
    /\ out \in [Workers -> {"none", "completed", "failed"}]
    /\ held \in [Workers -> BOOLEAN]
    /\ unsupported \in SUBSET (Workers \X Nat)
    /\ jobs \in Seq(Job)
    /\ recorded \in SUBSET (1 .. Len(jobs))
    /\ pat \in [Workers -> {"idle", "look", "store", "cost"}]
    /\ plist \in [Workers -> SUBSET (1 .. Len(jobs))]
    /\ pjob \in [Workers -> 0 .. Len(jobs)]
    /\ ptodo \in [Workers -> SUBSET given]
    /\ result \in [Requests -> {"none", "failed", "completed"}]
    /\ spend \in [Requests -> Nat] /\ paid \in [Requests -> Nat]
    /\ flushes \in [Entries -> Nat]
    /\ waited \in SUBSET given
    /\ faults \in Seq(FaultKinds) /\ Len(faults) <= MaxFaults /\ crashes \in 0 .. MaxCrashes

\* The caller of a deferred request that has seen the answer keeps seeing it: no retry that gave up, no
\* stale sweep and no failed native job of another worker replaces it
\* (_store_batch_result).
AnswerStays ==
    [][\A r \in Requests :
         pc[r] = "queued" /\ Seen(r) = "completed" => Seen(r)' = "completed"]_vars

\* The two failures the queue swallows: the write of a result
\* (_store_batch_result) and of a native job's record (_submit_native_batch).
SomethingLost == \E n \in 1 .. Len(faults) : faults[n] \in {"store", "record"}

\* A request that got its 202 is never forgotten: until a result is stored its
\* entry is unread, pending, or in a recorded native job, whichever process
\* dies at whichever point, unless a result's or a job's record was lost.
InAJob(e) == \E j \in recorded : e \in jobs[j].items

NothingForgotten ==
    \A r \in Requests :
        pc[r] = "queued" /\ result[r] = "none" /\ ~SomethingLost =>
            \E e \in 1 .. Len(log) :
                /\ log[e] = r
                /\ e \notin given \/ deliveries[e] > 0 \/ InAJob(e)

\* max_attempts bounds the flushes of an entry, whoever sweeps it: a worker that
\* dies, loses its claim or fails to acknowledge never makes it run forever.
AttemptsBounded == \A e \in Entries : flushes[e] <= MaxAttempts

\* While no process dies and no Redis call fails, one worker at a time flushes an
\* entry and the provider is paid for it at most once, however long its call takes:
\* the holder keeps every other worker's sweep away (_flush_held).  It holds only
\* the stream being flushed, so nothing is said of an entry that waited its turn
\* behind another stream of the same read (start_batch_consumer).
HoldExcludes ==
    crashes = 0 /\ faults = <<>> =>
        /\ \A v, w \in Workers :
              v # w /\ at[v] \in Flushing /\ at[w] \in Flushing =>
                  mine[v] \cap mine[w] \subseteq waited
        /\ \A e \in 1 .. Len(log) : e \notin waited => paid[log[e]] <= 1

\* What the documents say: an entry goes unclaimed for the stale time only once its
\* process has stopped (_flush_held, docs/config-reference.md).  The entries of a
\* read's later streams do so while their process works on the first.
StaleMeansStopped ==
    crashes = 0 /\ faults = <<>> =>
        \A e \in Entries : deliveries[e] > 0 => idle[e] < Stale

\* An entry runs no more often than it may: at most max_attempts times whatever
\* fails, and once while nothing does and it was flushed straight after its read.
RunsAreBounded == AttemptsBounded /\ HoldExcludes

\* A result is never stored without an owner on record, so no tenant's answer is
\* unreachable for its own poller (process_request records the owner first).
ResultsHaveOwners == \A r \in Requests : result[r] # "none" => r \in owner

\* The spend counter never holds more than what the provider was paid for.
SpendIsPaid == \A r \in Requests : spend[r] <= paid[r]

\* Every result has an owner who can read it and is charged no more than it cost.
ResultsAreAccounted == ResultsHaveOwners /\ SpendIsPaid

\* The stream holds only the backlog: while nothing fails, an entry that is
\* neither unread nor pending is deleted, or about to be.
StreamIsBacklog ==
    crashes = 0 /\ faults = <<>> =>
        \A e \in given : \/ e \in deleted
                          \/ deliveries[e] > 0
                          \/ \E w \in Workers : at[w] = "del" /\ e \in mine[w]

\* What max_backlog says: a tenant never has more than that many queued.
BacklogCapped ==
    MaxBacklog > 0 => \A r \in Requests : StreamLen(queue[r]) <= MaxBacklog

\* Every deferred request gets its result, also when the worker that took it
\* dies, unless a result's or a job's record was lost.
EveryDeferredAnswered ==
    \A r \in Requests : pc[r] = "queued" ~> result[r] # "none" \/ SomethingLost

=============================================================================
