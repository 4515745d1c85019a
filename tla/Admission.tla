------------------------------ MODULE Admission ------------------------------
(***************************************************************************)
(* The gate of the proxy and what it reads: middleware/g00_rate_limit.py,   *)
(* trial.py, and the part of main.py that records a request's outcome.      *)
(*                                                                          *)
(* G00 asks up to four gates in a fixed order: the free trial, the monthly  *)
(* quota, the monthly spend cap, and a token bucket over a minute and an    *)
(* hour.  The first three only READ counters in Redis; what they count is   *)
(* written after the response by tasks main.py leaves running               *)
(* (_AFTER_RESPONSE), next to the usage row.  Every await of a Redis call   *)
(* is a step of its own, so requests interleave between a gate's read, its  *)
(* decision, the work and the counting.                                     *)
(*                                                                          *)
(* One tenant, one principal, any number of requests.  Time is counted in   *)
(* ticks; tokens in parts, Unit parts to a request, so that a refill is an  *)
(* integer.  A month is MonthLen ticks.                                     *)
(***************************************************************************)
EXTENDS Integers, FiniteSets

CONSTANTS
    Requests,      \* the requests of the tenant
    Impersonated,  \* those an admin key sent as the tenant
    Gates,         \* the gates the configuration enables
    HasPrefix,     \* the tenant has a Redis prefix (all but "default" have)
    TrialStatus,   \* trial.status of the tenant's configuration
    TrialDays,     \* trial.days, in ticks since started_at; 0 is unlimited
    TrialMax,      \* trial.max_requests; 0 is unlimited
    TrialWarn,     \* rate_limit.trial.warn_pcts
    QuotaCap,      \* included_requests with its grace
    SpendCap,      \* the spend ceiling, in the unit of Costs
    SpendWarn,     \* spend at which budget.threshold fires; 0 is never
    Costs,         \* what serving a request may cost
    Unit,          \* parts of a token
    Cap,           \* capacity of each window, in parts
    Rate,          \* refill of each window, parts a tick
    Ttl,           \* _BUCKET_TTL_SECONDS
    Scripting,     \* Redis accepts EVAL
    MaxAtGate,     \* requests at the gate together
    MaxDelay,      \* ticks between time.time() and the script it is sent to
    MonthLen,      \* ticks of a month
    MaxTime,       \* bound on the clock
    FaultKinds,    \* the calls that may fail
    MaxFaults,     \* bound on failed calls
    MaxStops       \* bound on process exits

Windows == {"minute", "hour"}
AllGates == {"trial", "quota", "spend", "bucket"}
TaskKinds == {"row", "quota", "spend", "trial"}

ASSUME RequestsAssumption == IsFiniteSet(Requests) /\ Impersonated \subseteq Requests

ASSUME BucketAssumption ==
    /\ Unit \in Nat \ {0} /\ Ttl \in Nat /\ MaxDelay \in Nat
    /\ Cap \in [Windows -> Nat] /\ Rate \in [Windows -> Nat]
    /\ \A w \in Windows : Rate[w] * Ttl >= Cap[w]

ASSUME GateAssumption ==
    /\ Gates \subseteq AllGates
    /\ HasPrefix \in BOOLEAN /\ Scripting \in BOOLEAN
    /\ TrialStatus \in {"none", "active", "cancelled", "converted"}
    /\ TrialDays \in Nat /\ TrialMax \in Nat /\ TrialWarn \subseteq Nat
    /\ QuotaCap \in Nat \ {0} /\ SpendCap \in Nat /\ SpendWarn \in Nat
    /\ Costs \subseteq Nat
    /\ MonthLen \in Nat \ {0}
    /\ MaxAtGate \in Nat /\ MaxTime \in Nat /\ MaxFaults \in Nat /\ MaxStops \in Nat

VARIABLES
    now,        \* time.time()
    pc,         \* where each request is
    stamp,      \* the time a request sends to its bucket
    read,       \* what a request last read: a counter, or a window's tokens
    bucket,     \* tok_opt:rate_limit:<window>:<scope>
    quota,      \* t:<id>:quota:<month>
    spend,      \* t:<id>:spend:<month>
    trialUsed,  \* t:<id>:trial_used
    flags,      \* the one-shot SETNX keys that are set
    pending,    \* _AFTER_RESPONSE: tasks still to run
    rows,       \* usage_events, by request
    fired,      \* history: how often each one-shot event was emitted
    outcome,    \* history: how each request ended
    took,       \* history: requests that took a token of each window
    twice,      \* history: time that refilled each window a second time
    blind,      \* history: requests a failed read let past the quota gate
    peak,       \* history: most requests past the quota gate, not counted yet
    lost,       \* history: after-response tasks that failed or were cut off
    faults,     \* failed calls so far
    stops       \* process exits so far

bucketVars == <<stamp, read, bucket, took, twice>>
counterVars == <<quota, spend, trialUsed, rows>>
eventVars == <<flags, fired>>
quotaHist == <<blind, peak>>
vars == <<now, pc, bucketVars, counterVars, eventVars, pending, outcome,
          quotaHist, lost, faults, stops>>

Month(t) == t \div MonthLen
Months == 0 .. Month(MaxTime)

Bucket == [present : BOOLEAN, tokens : Int, last : Nat, touched : Nat]
NoBucket == [present |-> FALSE, tokens |-> 0, last |-> 0, touched |-> 0]

Task == [r : Requests, what : TaskKinds, billable : BOOLEAN, cost : Costs \cup {0}]

\* The one-shot keys: trialexpired, trialwarn by percentage, budgetwarn by month.
Flags == {<<"trialexpired", 0>>} \cup ({"trialwarn"} \X TrialWarn)
           \cup ({"budgetwarn"} \X Months)

Points == AllGates \cup {"idle", "trial_flag", "trial_warn", "spend_warn",
                         "minute_write", "hour_read", "hour_write",
                         "inside", "done"}

Outcomes == {"none", "200", "202", "error", "402", "429", "limited", "gone"}

Init ==
    /\ now = 0
    /\ pc = [r \in Requests |-> "idle"]
    /\ stamp = [r \in Requests |-> 0]
    /\ read = [r \in Requests |-> 0]
    /\ bucket = [w \in Windows |-> NoBucket]
    /\ quota = [m \in Months |-> 0]
    /\ spend = [m \in Months |-> 0]
    /\ trialUsed = 0
    /\ flags = {}
    /\ pending = {}
    /\ rows = [r \in Requests |-> "none"]
    /\ fired = [f \in Flags |-> 0]
    /\ outcome = [r \in Requests |-> "none"]
    /\ took = [w \in Windows |-> {}]
    /\ twice = [w \in Windows |-> 0]
    /\ blind = {}
    /\ peak = 0
    /\ lost = {}
    /\ faults = 0
    /\ stops = 0

\* A call of this kind fails now.
Fails(kind) ==
    /\ kind \in FaultKinds
    /\ faults < MaxFaults
    /\ faults' = faults + 1

-----------------------------------------------------------------------------
(* The outcome of a request: _record_outcome and _bill_batch_deferred.      *)

Row(r, billable) == [r |-> r, what |-> "row", billable |-> billable, cost |-> 0]
Count(r, what, cost) == [r |-> r, what |-> what, billable |-> TRUE, cost |-> cost]

\* The tasks of a billable answer: its row and the counters, the spend counter
\* when it cost something and the trial's when the trial is active.
Counted(r, cost) ==
    {Row(r, TRUE), Count(r, "quota", 0)}
      \cup (IF cost > 0 THEN {Count(r, "spend", cost)} ELSE {})
      \cup (IF TrialStatus = "active" THEN {Count(r, "trial", 0)} ELSE {})

Observed(r) == {Row(r, FALSE)}

\* 200 and 202 are billable unless impersonated; 202 is billed where the
\* request is queued and leaves no second row; anything else is one row that
\* is never billed.
BugRowForDeferred(r, status, cost) ==
    CASE status = "200" /\ r \notin Impersonated -> Counted(r, cost)
      [] status = "202" /\ r \notin Impersonated -> Counted(r, cost) \cup Observed(r)
      [] OTHER -> Observed(r)

AfterResponse(r, status, cost) ==
    IF status \in {"200", "202"} /\ r \notin Impersonated
    THEN Counted(r, cost)
    ELSE Observed(r)

\* The request leaves with this outcome.
Leave(r, how, tasks) ==
    /\ pc' = [pc EXCEPT ![r] = "done"]
    /\ outcome' = [outcome EXCEPT ![r] = how]
    /\ pending' = pending \cup tasks

\* A refusal of the gate is an answer too: 402 or 429, recorded, never billed.
Refuse(r, how) == Leave(r, how, Observed(r))

-----------------------------------------------------------------------------
(* process_request: the gates in order.                                     *)

Order == <<"trial", "quota", "spend", "bucket">>

\* The first enabled gate after the i-th, or the request is inside.
After(i) ==
    LET on == {j \in i + 1 .. 4 : Order[j] \in Gates}
    IN  IF on = {} THEN "inside"
        ELSE Order[CHOOSE j \in on : \A k \in on : j <= k]

\* On to the next gate; time.time() is read on the way to the bucket.
Pass(r, i) ==
    /\ pc' = [pc EXCEPT ![r] = After(i)]
    /\ stamp' = [stamp EXCEPT ![r] = IF After(i) = "bucket" THEN now ELSE @]
    /\ UNCHANGED <<outcome, pending>>

Goto(r, p) ==
    /\ pc' = [pc EXCEPT ![r] = p]
    /\ UNCHANGED <<stamp, outcome, pending>>

Start(r) ==
    /\ pc[r] = "idle"
    /\ Cardinality({q \in Requests : pc[q] \notin {"idle", "inside", "done"}}) < MaxAtGate
    /\ Pass(r, 0)
    /\ UNCHANGED <<now, read, bucket, took, twice, counterVars, eventVars,
                   quotaHist, lost, faults, stops>>

\* trial_summary: the trial is over by days, by requests, or cancelled.
Expired(used) ==
    \/ TrialStatus = "cancelled"
    \/ /\ TrialStatus = "active"
       /\ \/ TrialDays > 0 /\ now >= TrialDays
          \/ TrialMax > 0 /\ used >= TrialMax

\* trial_summary: pct_used, the larger share, has reached p percent.
PctUsed(used, p) ==
    \/ TrialDays > 0 /\ 100 * now >= p * TrialDays
    \/ TrialMax > 0 /\ 100 * used >= p * TrialMax

Due(used) == {p \in TrialWarn : PctUsed(used, p)}

\* One-shot flags of a set of thresholds: those not yet set fire.
Flag(fs) ==
    /\ flags' = flags \cup fs
    /\ fired' = [f \in Flags |-> IF f \in fs \ flags THEN fired[f] + 1 ELSE fired[f]]

\* _check_trial reads the counter; a failed read counts nothing used, and the
\* days are enforced all the same.
CheckTrial(r) ==
    /\ pc[r] = "trial"
    /\ \E used \in {trialUsed, 0} :
         /\ \/ used = trialUsed /\ UNCHANGED faults
            \/ used = 0 /\ TrialStatus = "active" /\ TrialMax > 0 /\ Fails("read")
         /\ read' = [read EXCEPT ![r] = used]
         /\ \/ TrialStatus \notin {"active", "cancelled"} /\ Pass(r, 1)
            \/ Expired(used) /\ Goto(r, "trial_flag")
            \/ /\ TrialStatus = "active" /\ ~Expired(used)
               /\ IF Due(used) = {} THEN Pass(r, 1) ELSE Goto(r, "trial_warn")
    /\ UNCHANGED <<now, bucket, took, twice, counterVars, eventVars, quotaHist,
                   lost, stops>>

\* SET trialexpired NX, the event for the first, then the refusal; with the
\* key out of reach the event is emitted.
BugNoFlag(r) ==
    /\ pc[r] = "trial_flag"
    /\ fired' = [fired EXCEPT ![<<"trialexpired", 0>>] = @ + 1]
    /\ Refuse(r, "402")
    /\ UNCHANGED <<now, bucketVars, counterVars, flags, quotaHist, lost, faults, stops>>

TrialExpired(r) ==
    /\ pc[r] = "trial_flag"
    /\ \/ Flag({<<"trialexpired", 0>>}) /\ UNCHANGED faults
       \/ /\ Fails("flag")
          /\ fired' = [fired EXCEPT ![<<"trialexpired", 0>>] = @ + 1]
          /\ UNCHANGED flags
    /\ Refuse(r, "402")
    /\ UNCHANGED <<now, bucketVars, counterVars, quotaHist, lost, stops>>

\* _maybe_warn_trial: a warning whose key cannot be set is skipped.  The keys
\* are set one by one; nothing reads them in between.
MaybeWarnTrial(r) ==
    /\ pc[r] = "trial_warn"
    /\ \/ Flag({"trialwarn"} \X Due(read[r])) /\ UNCHANGED faults
       \/ Fails("flag") /\ UNCHANGED eventVars
    /\ Pass(r, 1)
    /\ UNCHANGED <<now, read, bucket, took, twice, counterVars, quotaHist, lost, stops>>

\* The gates read under redis_prefix, the counters are kept under
\* counter_prefix: one key, but for the tenant whose prefix is empty.
UnderGatePrefix(counter) == IF HasPrefix THEN counter ELSE 0

\* Requests past the quota gate whose unit the counter does not show yet.
Outstanding ==
    {r \in Requests :
        \/ pc[r] \in {"spend", "spend_warn", "bucket", "minute_write",
                      "hour_read", "hour_write", "inside"}
        \/ \E t \in pending : t.r = r /\ t.what = "quota"}

Larger(a, b) == IF a >= b THEN a ELSE b

\* _check_quota.
BugQuotaOffByOne(used) == used <= QuotaCap

QuotaAllows(used) == used < QuotaCap

CheckQuota(r) ==
    /\ pc[r] = "quota"
    /\ \/ /\ Fails("read")
          /\ Pass(r, 2)
          /\ blind' = blind \cup {r}
          /\ UNCHANGED peak
       \/ /\ QuotaAllows(UnderGatePrefix(quota[Month(now)]))
          /\ Pass(r, 2)
          /\ peak' = Larger(peak, Cardinality(Outstanding \cup {r}))
          /\ UNCHANGED <<blind, faults>>
       \/ /\ ~QuotaAllows(UnderGatePrefix(quota[Month(now)]))
          /\ Refuse(r, "429")
          /\ UNCHANGED <<stamp, quotaHist, faults>>
    /\ UNCHANGED <<now, read, bucket, took, twice, counterVars, eventVars, lost, stops>>

\* _check_spend: a warning key is asked for from SpendWarn on.
CheckSpend(r) ==
    /\ pc[r] = "spend"
    /\ LET spent == UnderGatePrefix(spend[Month(now)])
       IN  \/ Fails("read") /\ Pass(r, 3)
           \/ spent >= SpendCap /\ Refuse(r, "429") /\ UNCHANGED <<stamp, faults>>
           \/ /\ spent < SpendCap
              /\ IF SpendWarn > 0 /\ spent >= SpendWarn
                 THEN Goto(r, "spend_warn") ELSE Pass(r, 3)
              /\ UNCHANGED faults
    /\ UNCHANGED <<now, read, bucket, took, twice, counterVars, eventVars,
                   quotaHist, lost, stops>>

MaybeWarnBudget(r) ==
    /\ pc[r] = "spend_warn"
    /\ \/ Flag({<<"budgetwarn", Month(now)>>}) /\ UNCHANGED faults
       \/ Fails("flag") /\ UNCHANGED eventVars
    /\ Pass(r, 3)
    /\ UNCHANGED <<now, read, bucket, took, twice, counterVars, quotaHist, lost, stops>>

-----------------------------------------------------------------------------
(* The token bucket.                                                        *)

\* A bucket whose key is gone, never set or idle for the time to live.
Gone(w) == ~bucket[w].present \/ now - bucket[w].touched >= Ttl

Smaller(a, b) == IF a <= b THEN a ELSE b

\* level() of _BUCKET_LUA: refilled for the time since last_refill, never for
\* less than none.
Level(w, t) ==
    IF Gone(w) THEN Cap[w]
    ELSE Smaller(Cap[w], bucket[w].tokens + Rate[w] * Larger(t - bucket[w].last, 0))

\* Time that this refill counts a second time: the clock of the bucket moves
\* back to t, or a key that expired is full earlier than its refill was.
Recounted(w, t) ==
    IF ~bucket[w].present THEN 0
    ELSE IF Gone(w) THEN Larger(Ttl - (t - bucket[w].last), 0)
    ELSE Larger(bucket[w].last - t, 0)

BugKeepsLast(tokens, t) ==
    [present |-> TRUE, tokens |-> tokens, last |-> 0, touched |-> now]

Holding(tokens, t) ==
    [present |-> TRUE, tokens |-> tokens, last |-> t, touched |-> now]

\* The script's decision: a token from each window, or nothing.
Admits(t) == \A w \in Windows : Level(w, t) >= Unit

BugMinuteFirst(r) ==
    /\ pc[r] = "bucket" /\ Scripting
    /\ LET t == stamp[r]
           ok == [w \in Windows |-> Level(w, t) >= Unit]
           taken == {w \in Windows : ok["minute"] /\ ok[w]}
       IN  /\ bucket' = [w \in Windows |->
                            Holding(Level(w, t) - (IF w \in taken THEN Unit ELSE 0), t)]
           /\ took' = [w \in Windows |-> IF w \in taken THEN took[w] \cup {r} ELSE took[w]]
           /\ twice' = [w \in Windows |-> twice[w] + Recounted(w, t)]
           /\ IF taken = Windows THEN Pass(r, 4) ELSE Refuse(r, "limited") /\ UNCHANGED stamp
    /\ UNCHANGED <<now, read, counterVars, eventVars, quotaHist, lost, faults, stops>>

Consume(r) ==
    /\ pc[r] = "bucket" /\ Scripting
    /\ LET t == stamp[r]
           part == IF Admits(t) THEN Unit ELSE 0
       IN  /\ bucket' = [w \in Windows |-> Holding(Level(w, t) - part, t)]
           /\ took' = [w \in Windows |-> IF Admits(t) THEN took[w] \cup {r} ELSE took[w]]
           /\ twice' = [w \in Windows |-> twice[w] + Recounted(w, t)]
           /\ IF Admits(t) THEN Pass(r, 4) ELSE Refuse(r, "limited") /\ UNCHANGED stamp
    /\ UNCHANGED <<now, read, counterVars, eventVars, quotaHist, lost, faults, stops>>

\* _check_token_bucket, the fallback for a Redis that refuses EVAL: read a
\* window, then write it, the minute before the hour.
ReadWindow(r, w, next) ==
    /\ read' = [read EXCEPT ![r] =
            IF Gone(w) THEN Cap[w]
            ELSE Smaller(Cap[w],
                         bucket[w].tokens + Rate[w] * (stamp[r] - bucket[w].last))]
    /\ bucket' = [bucket EXCEPT ![w].touched = IF Gone(w) THEN @ ELSE now]
    /\ Goto(r, next)
    /\ UNCHANGED <<now, took, twice, counterVars, eventVars, quotaHist, lost,
                   faults, stops>>

WriteWindow(r, w, next) ==
    /\ LET allowed == read[r] >= Unit
       IN  /\ bucket' = [bucket EXCEPT ![w] =
                            Holding(IF allowed THEN read[r] - Unit ELSE read[r], stamp[r])]
           /\ took' = [took EXCEPT ![w] = IF allowed THEN @ \cup {r} ELSE @]
           /\ IF allowed THEN Goto(r, next) ELSE Refuse(r, "limited") /\ UNCHANGED stamp
    /\ UNCHANGED <<now, read, twice, counterVars, eventVars, quotaHist, lost,
                   faults, stops>>

Fallback(r) ==
    \/ pc[r] = "bucket" /\ ~Scripting /\ ReadWindow(r, "minute", "minute_write")
    \/ pc[r] = "minute_write" /\ WriteWindow(r, "minute", "hour_read")
    \/ pc[r] = "hour_read" /\ ReadWindow(r, "hour", "hour_write")
    \/ pc[r] = "hour_write" /\ WriteWindow(r, "hour", "inside")

\* Any other error of the bucket admits the request.
FailOpen(r) ==
    /\ pc[r] \in {"bucket", "minute_write", "hour_read", "hour_write"}
    /\ Fails("bucket")
    /\ Goto(r, "inside")
    /\ UNCHANGED <<now, read, bucket, took, twice, counterVars, eventVars,
                   quotaHist, lost, stops>>

-----------------------------------------------------------------------------
(* After the gate.                                                          *)

\* The request is served, queued for the batch lane, or fails.
Serve(r) ==
    /\ pc[r] = "inside"
    /\ \E status \in {"200", "202", "error"}, cost \in Costs :
         Leave(r, status, AfterResponse(r, status, cost))
    /\ UNCHANGED <<now, bucketVars, counterVars, eventVars, quotaHist, lost,
                   faults, stops>>

\* INSERT ... ON CONFLICT (request_id) DO NOTHING.
BugBillableOnly(r, billable) ==
    rows' = IF billable THEN [rows EXCEPT ![r] = "billable"] ELSE rows

InsertRow(r, billable) ==
    rows' = [rows EXCEPT ![r] = IF @ # "none" THEN @
                                ELSE IF billable THEN "billable" ELSE "observed"]

\* An after-response task runs: the row, or one counter under the month it is
\* counted in.  A task that fails is not tried again.
RunTask(t) ==
    /\ t \in pending
    /\ pending' = pending \ {t}
    /\ \/ /\ Fails("task")
          /\ lost' = lost \cup {t}
          /\ UNCHANGED counterVars
       \/ /\ CASE t.what = "row" ->
                   InsertRow(t.r, t.billable) /\ UNCHANGED <<quota, spend, trialUsed>>
              [] t.what = "quota" ->
                   /\ quota' = [quota EXCEPT ![Month(now)] = @ + 1]
                   /\ UNCHANGED <<spend, trialUsed, rows>>
              [] t.what = "spend" ->
                   /\ spend' = [spend EXCEPT ![Month(now)] = @ + t.cost]
                   /\ UNCHANGED <<quota, trialUsed, rows>>
              [] t.what = "trial" ->
                   trialUsed' = trialUsed + 1 /\ UNCHANGED <<quota, spend, rows>>
          /\ UNCHANGED <<lost, faults>>
    /\ UNCHANGED <<now, pc, bucketVars, eventVars, outcome, quotaHist, stops>>

\* The process ends: _drain_after_response waits a bounded time, and what is
\* still running then is cut off; so are the requests in flight of a process
\* that is killed.
Stop ==
    /\ stops < MaxStops
    /\ stops' = stops + 1
    /\ lost' = lost \cup pending
    /\ pending' = {}
    /\ LET cut == {r \in Requests : pc[r] \notin {"idle", "done"}}
       IN  /\ pc' = [r \in Requests |-> IF r \in cut THEN "done" ELSE pc[r]]
           /\ outcome' = [r \in Requests |-> IF r \in cut THEN "gone" ELSE outcome[r]]
    /\ UNCHANGED <<now, bucketVars, counterVars, eventVars, quotaHist, faults>>

\* A call to the bucket is answered, or has timed out, within MaxDelay.
Tick ==
    /\ now < MaxTime
    /\ \A r \in Requests :
         pc[r] \in {"bucket", "minute_write", "hour_read", "hour_write"}
           => now - stamp[r] < MaxDelay
    /\ now' = now + 1
    /\ UNCHANGED <<pc, bucketVars, counterVars, eventVars, pending, outcome,
                   quotaHist, lost, faults, stops>>

Gate(r) ==
    \/ Start(r) \/ CheckTrial(r) \/ TrialExpired(r) \/ MaybeWarnTrial(r)
    \/ CheckQuota(r) \/ CheckSpend(r) \/ MaybeWarnBudget(r)
    \/ Consume(r) \/ Fallback(r) \/ FailOpen(r)

Next ==
    \/ \E r \in Requests : Gate(r) \/ Serve(r)
    \/ \E t \in pending : RunTask(t)
    \/ Stop
    \/ Tick

Spec == Init /\ [][Next]_vars

\* The event loop runs every ready task, and Redis calls return.
FairSpec ==
    /\ Spec
    /\ \A r \in Requests : WF_vars(pc[r] # "idle" /\ (Gate(r) \/ Serve(r)))
    /\ WF_vars(\E t \in pending : RunTask(t))
-----------------------------------------------------------------------------
(* Properties. *)

\* The state of the gate and of the counters has its type.
TypeOK ==
    /\ now \in 0 .. MaxTime
    /\ pc \in [Requests -> Points]
    /\ stamp \in [Requests -> 0 .. MaxTime]
    /\ read \in [Requests -> Int]
    /\ bucket \in [Windows -> Bucket]
    /\ quota \in [Months -> Nat] /\ spend \in [Months -> Nat] /\ trialUsed \in Nat
    /\ flags \subseteq Flags /\ fired \in [Flags -> Nat]
    /\ pending \subseteq Task
    /\ rows \in [Requests -> {"none", "billable", "observed"}]
    /\ outcome \in [Requests -> Outcomes]
    /\ took \in [Windows -> SUBSET Requests] /\ twice \in [Windows -> Nat]
    /\ blind \subseteq Requests /\ peak \in Nat
    /\ lost \subseteq Task
    /\ faults \in 0 .. MaxFaults /\ stops \in 0 .. MaxStops

\* The limit the bucket is for: the requests a window has let in by any time
\* are no more than its capacity and what that time refills, in any
\* interleaving of requests and also when an idle bucket has expired.
NeverOverAdmitted ==
    \A w \in Windows :
        Unit * Cardinality(took[w]) <= Cap[w] + Rate[w] * now

\* The same with the time that was counted twice: what the script guarantees
\* whatever the delay between reading the clock and running it.
Conserved ==
    \A w \in Windows :
        Unit * Cardinality(took[w]) <= Cap[w] + Rate[w] * (now + twice[w])

\* A request refused by one window has taken from neither.
RefusedTakesNothing ==
    \A r \in Requests :
        outcome[r] = "limited" => \A w \in Windows : r \notin took[w]

\* How far a month's count can run past the quota: by the requests that were
\* past the gate together and by those a failed read let past it.
QuotaOvershootBounded ==
    "quota" \in Gates =>
        \A m \in Months : quota[m] < QuotaCap + peak + Cardinality(blind)

\* What the docstring of quota_key says: the counter main bumps is the one
\* checked before any work happens, so a full month refuses every request
\* whose read succeeds.
FullMonthRefuses ==
    [][\A r \in Requests :
         pc[r] = "quota" /\ quota[Month(now)] >= QuotaCap /\ pc'[r] # "quota"
           => pc'[r] = "done" \/ r \in blind']_vars

Billable(r) == outcome[r] \in {"200", "202"} /\ r \notin Impersonated

\* The counters mirror the billable unit: when no task is running and none was
\* lost, the billable rows are those of the tenant's own served and queued
\* requests, the quota has counted each of them once, in one month, and the
\* trial each of them.
CountersMirrorRows ==
    pending = {} /\ lost = {} =>
        LET billed == {r \in Requests : rows[r] = "billable"}
        IN  /\ billed = {r \in Requests : Billable(r)}
            /\ \E month \in [billed -> Months] :
                 \A m \in Months : quota[m] = Cardinality({r \in billed : month[r] = m})
            /\ TrialStatus = "active" => trialUsed = Cardinality(billed)

\* A one-shot event fires once: the first of the requests that race to it.
OneShotEvents == \A f \in Flags : fired[f] <= 1

\* Every request that enters the gate leaves it, and its row is written unless
\* the task or the process failed.
EveryRequestRecorded ==
    \A r \in Requests :
        pc[r] # "idle" ~> /\ pc[r] = "done"
                          /\ \/ rows[r] # "none"
                             \/ outcome[r] = "gone"
                             \/ \E t \in lost : t.r = r /\ t.what = "row"
=============================================================================
