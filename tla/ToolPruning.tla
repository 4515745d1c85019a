---------------------------- MODULE ToolPruning ----------------------------
(***************************************************************************)
(* G08's scheduled tool pruning (middleware/g08_tool_loading.py) for one    *)
(* tenant: requests record which registry tools they offer and which ones   *)
(* the model calls, and a daily pass over those records hides the tools the *)
(* model has stopped calling, for a window of days.  Time is counted in     *)
(* days; a pass may run on any replica at any time of its day.              *)
(***************************************************************************)
EXTENDS Integers, FiniteSets

CONSTANTS
    RegistryTools,   \* the tools the tenant's registry names
    ToolRequests,    \* requests in flight at one time
    Replicas,        \* proxy processes, each with its pruning loop
    Window,          \* inactivity_threshold_days
    UsageTtl,        \* tool_usage_ttl_days
    MaxDay,          \* bound: days
    MaxToolFaults    \* bound: Redis calls that fail

ASSUME PruneAssumption == {Window, UsageTtl, MaxDay, MaxToolFaults} \subseteq Nat

VARIABLES
    day,         \* the clock
    meta,        \* tool:usage:<tool>:meta, None where a field is absent
    markUntil,   \* when the mark in tool:manifest:<tool> lapses, 0 without one
    dayKey,      \* whether the key that names this day is set
    pruneLock,   \* the replica that holds the tenant's pruning lock
    job,         \* each replica's pass
    using,       \* each request
    toolFaults,  \* Redis calls that failed
    visible,     \* ghost: since when, or from when on, the tool is not hidden
    early        \* ghost: tools whose history began while they were hidden

toolVars == <<day, meta, markUntil, dayKey, pruneLock, job, using, toolFaults, visible, early>>

Absent == -1
NoRecord == [first |-> Absent, used |-> Absent, called |-> Absent]
NoJob == [at |-> "asleep", left |-> {}, inactive |-> {}]
NoUse == [at |-> "idle", named |-> {}, pruned |-> {}, offered |-> {}]

PruneInit ==
    /\ day = 0 /\ dayKey = FALSE /\ pruneLock = {} /\ toolFaults = 0 /\ early = {}
    /\ meta = [t \in RegistryTools |-> NoRecord]
    /\ markUntil = [t \in RegistryTools |-> 0] /\ visible = [t \in RegistryTools |-> 0]
    /\ job = [w \in Replicas |-> NoJob] /\ using = [r \in ToolRequests |-> NoUse]

(* The last write that set the record's expiry. *)
Touched(m) == IF m.used > m.called THEN m.used ELSE m.called
Marked(t) == day < markUntil[t]
ToolFails == toolFaults < MaxToolFaults /\ toolFaults' = toolFaults + 1
Works == UNCHANGED toolFaults

-----------------------------------------------------------------------------
(* A request. *)

(* pruned_tools: the marks are read once; a failed read hides nothing. *)
LookUpPruned(r) ==
    /\ using[r].at = "idle"
    /\ \E named \in SUBSET RegistryTools :
          \/ /\ Works
             /\ using' = [using EXCEPT ![r] = [NoUse EXCEPT !.at = "known", !.named = named,
                                                 !.pruned = {t \in RegistryTools : Marked(t)}]]
          \/ /\ ToolFails
             /\ using' = [using EXCEPT ![r] = [NoUse EXCEPT !.at = "known", !.named = named]]
    /\ UNCHANGED <<day, meta, markUntil, dayKey, pruneLock, job, visible, early>>

(* A tool the request names is always offered, a pruned one never otherwise, and
   the rest as the classified intents have it; a pruned tool that was named
   gets its mark lifted. *)
FilterTools(r) ==
    LET u == using[r]
        lifted == {t \in u.pruned \cap u.named : Marked(t)}
    IN  /\ u.at = "known"
        /\ \E kept \in SUBSET (RegistryTools \ u.pruned) :
              using' = [using EXCEPT ![r].at = "filtered", ![r].offered = kept \cup u.named]
        /\ \/ /\ Works
              /\ markUntil' = [t \in RegistryTools |-> IF t \in u.pruned \cap u.named THEN 0 ELSE markUntil[t]]
              /\ visible' = [t \in RegistryTools |-> IF t \in lifted THEN day ELSE visible[t]]
           \/ /\ u.pruned \cap u.named # {} /\ ToolFails
              /\ UNCHANGED <<markUntil, visible>>
        /\ UNCHANGED <<day, meta, dayKey, pruneLock, job, early>>

(* record_tool_usage: first_seen is only set where there is none. *)
RecordToolUsage(r) ==
    LET offered == using[r].offered
        fresh == {t \in offered : meta[t].first = Absent}
    IN  /\ using[r].at = "filtered"
        /\ using' = [using EXCEPT ![r].at = "asked"]
        /\ \/ /\ Works
              /\ meta' = [t \in RegistryTools |->
                    IF t \notin offered THEN meta[t]
                    ELSE [meta[t] EXCEPT !.used = day, !.first = IF t \in fresh THEN day ELSE @]]
              /\ early' = (early \ fresh) \cup {t \in fresh : Marked(t)}
           \/ /\ offered # {} /\ ToolFails
              /\ UNCHANGED <<meta, early>>
        /\ UNCHANGED <<day, markUntil, dayKey, pruneLock, job, visible>>

(* record_called_tools: of what the model called, only what G08 counted as offered
   goes on record; a request without an answer records nothing. *)
RecordCalledTools(r) ==
    /\ using[r].at = "asked"
    /\ using' = [using EXCEPT ![r] = NoUse]
    /\ \E called \in SUBSET using[r].offered :
          /\ meta' = [t \in RegistryTools |-> IF t \in called THEN [meta[t] EXCEPT !.called = day] ELSE meta[t]]
    /\ UNCHANGED <<day, markUntil, dayKey, pruneLock, job, toolFaults, visible, early>>

-----------------------------------------------------------------------------
(* The daily pass. *)

(* run_pruning_pass: the first replica to set the day's key runs it; then the
   tenant's lock. *)
StartPass(w) ==
    /\ job[w].at = "asleep" /\ ~dayKey
    /\ dayKey' = TRUE
    /\ \/ Works /\ job' = [job EXCEPT ![w].at = "scanned"]
       \/ ToolFails /\ UNCHANGED job
    /\ UNCHANGED <<day, meta, markUntil, pruneLock, using, visible, early>>

TakePruningLock(w) ==
    /\ job[w].at = "scanned"
    /\ IF pruneLock = {}
         THEN /\ pruneLock' = {w}
              /\ job' = [job EXCEPT ![w].at = "reading", ![w].left = RegistryTools]
         ELSE /\ job' = [job EXCEPT ![w] = NoJob]
              /\ UNCHANGED pruneLock
    /\ UNCHANGED <<day, meta, markUntil, dayKey, using, toolFaults, visible, early>>

(* _prune_candidate: offered for a whole window, offered within it, not called in it. *)
PruneCandidate(m) ==
    /\ m.first # Absent /\ m.used # Absent
    /\ day - m.first >= Window
    /\ day - m.used <= Window
    /\ m.called = Absent \/ day - m.called > Window

(* get_inactive_tools reads one record at a time. *)
ReadRecord(w) ==
    /\ job[w].at = "reading"
    /\ \E t \in job[w].left :
          \/ /\ Works
             /\ job' = [job EXCEPT ![w].left = @ \ {t},
                          ![w].inactive = @ \cup {x \in {t} : PruneCandidate(meta[t])}]
          \/ ToolFails /\ job' = [job EXCEPT ![w].left = @ \ {t}]
    /\ UNCHANGED <<day, meta, markUntil, dayKey, pruneLock, using, visible, early>>

BugKeepsHistory(m) == m
HistoryRestarts(m) == [m EXCEPT !.first = Absent]

(* The marks and the tools' new start go out in one round trip; a dry run, or a
   failure, marks nothing.  The lock is released either way. *)
MarkPruned(w) ==
    LET hidden == job[w].inactive
    IN  /\ job[w].at = "reading" /\ job[w].left = {}
        /\ job' = [job EXCEPT ![w] = NoJob]
        /\ pruneLock' = pruneLock \ {w}
        /\ Works
        /\ markUntil' = [t \in RegistryTools |-> IF t \in hidden THEN day + Window ELSE markUntil[t]]
        /\ visible' = [t \in RegistryTools |-> IF t \in hidden THEN day + Window ELSE visible[t]]
        /\ meta' = [t \in RegistryTools |-> IF t \in hidden THEN HistoryRestarts(meta[t]) ELSE meta[t]]
        /\ UNCHANGED <<day, dayKey, using, early>>

PassAborts(w) ==
    /\ job[w].at = "reading" /\ ToolFails
    /\ job' = [job EXCEPT ![w] = NoJob]
    /\ pruneLock' \in {pruneLock, pruneLock \ {w}}
    /\ UNCHANGED <<day, meta, markUntil, dayKey, using, visible, early>>

DryRun(w) ==
    /\ job[w].at = "reading" /\ job[w].left = {}
    /\ job' = [job EXCEPT ![w] = NoJob]
    /\ pruneLock' = pruneLock \ {w}
    /\ UNCHANGED <<day, meta, markUntil, dayKey, using, toolFaults, visible, early>>

(* A day passes: records and the lock expire.  A pass ends within its day. *)
NextDay ==
    /\ day < MaxDay
    /\ \A w \in Replicas : job[w].at # "reading"
    /\ day' = day + 1
    /\ pruneLock' = {} /\ dayKey' = FALSE
    /\ meta' = [t \in RegistryTools |-> IF Touched(meta[t]) + UsageTtl <= day' THEN NoRecord ELSE meta[t]]
    /\ UNCHANGED <<markUntil, job, using, toolFaults, visible, early>>

PruneNext ==
    \/ NextDay
    \/ \E r \in ToolRequests :
          LookUpPruned(r) \/ FilterTools(r) \/ RecordToolUsage(r) \/ RecordCalledTools(r)
    \/ \E w \in Replicas :
          \/ StartPass(w) \/ TakePruningLock(w) \/ ReadRecord(w)
          \/ MarkPruned(w) \/ PassAborts(w) \/ DryRun(w)

PruneSpec == PruneInit /\ [][PruneNext]_toolVars

-----------------------------------------------------------------------------
(* A tool is hidden only after it has been in sight for a whole window since it
   was last hidden (run_scheduled_pruning: "the tool is offered and judged
   afresh"), across lapsed and lifted marks, replicas and requests in flight;
   a tool whose history began while it was hidden is outside this. *)
JudgedAfresh ==
    [][\A t \in RegistryTools \ early :
          markUntil'[t] > markUntil[t] => day - visible[t] >= Window]_toolVars
=============================================================================
