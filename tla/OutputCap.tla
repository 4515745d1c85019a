----------------------------- MODULE OutputCap -----------------------------
(***************************************************************************)
(* G11's learned max_tokens cap (middleware/g11_output_format.py): one      *)
(* workload's completion sizes (a Redis sorted set), the sticky floor that  *)
(* a cut answer raises, and the turns that read and write both between      *)
(* their awaits.  Token counts are small integers; the multiplier and the   *)
(* backoff are whole numbers, 2 as in the defaults.                         *)
(***************************************************************************)
EXTENDS Integers, FiniteSets, SequencesExt

CONSTANTS
    CapTurns,       \* concurrent turns of the workload
    AnswerSizes,    \* tokens an answer may need
    ModelLimit,     \* _get_model_max_tokens of the routed model
    Multiplier,     \* tighten_multiplier
    Backoff,        \* truncation_backoff_multiplier
    QuantileOf,     \* tighten_quantile, a pair <<numerator, denominator>>
    MinEntries,     \* history_min_entries
    MaxEntries,     \* history_max_entries
    SaneCap,        \* _MIN_SANE_CAP
    FallbackCaps,   \* values of fallback_max_tokens, 0 when it is not set
    ValidateModes,  \* values of validate_output
    MaxCapTurns,    \* bound: turns that start
    MaxCapFaults    \* bound: Redis calls that fail

ASSUME CapAssumption ==
    /\ {ModelLimit, Multiplier, Backoff, MinEntries, MaxEntries, SaneCap} \subseteq Nat \ {0}
    /\ AnswerSizes \subseteq 1 .. ModelLimit /\ FallbackCaps \subseteq Nat
    /\ MinEntries <= MaxEntries
    /\ QuantileOf \in Nat \X (Nat \ {0}) /\ QuantileOf[1] <= QuantileOf[2]

VARIABLES
    history,    \* the sorted set: distinct pairs, the newest last
    floor,      \* the sticky floor, 0 when the key is absent
    capTurn,    \* the turns
    fallback,   \* the operator's fallback_max_tokens, 0 when unset
    answers,    \* kinds of answer the response cache took: "whole", "cut"
    capStarted, capFaults,
    cutAt,      \* ghost: highest cap whose cut was recorded while the floor lives
    raced       \* ghost: a raise without EVAL overwrote another raise

capVars == <<history, floor, capTurn, fallback, answers, capStarted, capFaults, cutAt, raced>>

Shapes == {"workload",   \* carries a workflow or template id, not streamed
           "catchall",   \* neither id: no bucket of its own
           "stream",     \* never reaches process_response
           "exempt"}     \* reasoning model, holdout cohort, caller's own budget

IdleTurn == [at |-> "idle", shape |-> "exempt", estimate |-> 0, cap |-> 0, by |-> "none",
             seen |-> 0, since |-> 0]

CapInit ==
    /\ history = <<>> /\ floor = 0 /\ answers = {} /\ cutAt = 0 /\ raced = FALSE
    /\ fallback \in FallbackCaps
    /\ capTurn = [t \in CapTurns |-> IdleTurn]
    /\ capStarted = 0 /\ capFaults = 0

----------------------------------------------------------------------------
(* Evidence: what a recorded pair counts for, and the quantile over it.     *)

Evidence(pair) == IF pair.truncated THEN pair.tokens * Backoff ELSE pair.tokens

\* _get_historical_p95; 0 stands for None
HistoricalP95(h) ==
    IF Len(h) < MinEntries THEN 0
    ELSE LET rank == ((Len(h) - 1) * QuantileOf[1]) \div QuantileOf[2] + 1
             UpTo(e) == {i \in DOMAIN h : Evidence(h[i]) <= e}
         IN  Min({e \in {Evidence(h[i]) : i \in DOMAIN h} : Cardinality(UpTo(e)) >= rank})

\* _record_max_tokens_pair: an equal member only moves to the newest score
RecordPair(h, pair) ==
    LET others == IF \E i \in DOMAIN h : h[i] = pair
                  THEN RemoveAt(h, CHOOSE i \in DOMAIN h : h[i] = pair) ELSE h
        longer == Append(others, pair)
    IN  SubSeq(longer, Max({1, Len(longer) - MaxEntries + 1}), Len(longer))

\* the cap process_request sets and who set it
Tightened(estimate, stickyFloor) ==
    LET wanted == Max({estimate * Multiplier, stickyFloor})
    IN  IF wanted > ModelLimit THEN ModelLimit ELSE wanted

NoCap == [cap |-> 0, by |-> "none"]

Static == IF fallback = 0 THEN NoCap
          ELSE [cap |-> Min({fallback, ModelLimit}), by |-> "fallback"]

\* mutants: a plain SET; no_cache only where evidence is recorded
BugPlainSet(t) == floor' = capTurn[t].cap * Backoff

BugCutStored(t, cut) == ~(cut /\ capTurn[t].shape = "workload")

CapFor(estimate, stickyFloor) ==
    IF estimate = 0 THEN Static
    ELSE IF Tightened(estimate, stickyFloor) < SaneCap THEN NoCap
    ELSE [cap |-> Tightened(estimate, stickyFloor), by |-> "evidence"]

----------------------------------------------------------------------------
Goes(t, point) == capTurn' = [capTurn EXCEPT ![t].at = point]

CapFails == capFaults < MaxCapFaults /\ capFaults' = capFaults + 1

\* process_request up to its first await: who gets a cap from evidence at all
CapStart(t) ==
    /\ capTurn[t].at = "idle" /\ capStarted < MaxCapTurns
    /\ capStarted' = capStarted + 1
    /\ \E shape \in Shapes :
         LET c == IF shape \in {"catchall", "stream"} THEN Static ELSE NoCap
         IN  capTurn' = [capTurn EXCEPT
                 ![t] = [at |-> IF shape = "workload" THEN "history" ELSE "sent", shape |-> shape,
                         estimate |-> 0, cap |-> c.cap, by |-> c.by, seen |-> 0, since |-> cutAt]]
    /\ UNCHANGED <<history, floor, fallback, answers, capFaults, cutAt, raced>>

\* the whole retained history is read; a failed read is no evidence
ReadHistory(t) ==
    /\ capTurn[t].at = "history"
    /\ \E estimate \in {HistoricalP95(history), 0} :
         /\ capTurn' = [capTurn EXCEPT ![t] = [@ EXCEPT !.at = "floor", !.estimate = estimate]]
         /\ \/ estimate = HistoricalP95(history) /\ UNCHANGED capFaults
            \/ estimate = 0 /\ CapFails
    /\ UNCHANGED <<history, floor, fallback, answers, capStarted, cutAt, raced>>

Capped(t, c) == capTurn' = [capTurn EXCEPT ![t] = [@ EXCEPT !.at = "sent", !.cap = c.cap, !.by = c.by]]

\* _get_sticky_floor: a floor that cannot be read leaves no estimate to cap from
ReadFloor(t) ==
    /\ capTurn[t].at = "floor"
    /\ \/ Capped(t, CapFor(capTurn[t].estimate, floor)) /\ UNCHANGED capFaults
       \/ Capped(t, Static) /\ CapFails
    /\ UNCHANGED <<history, floor, fallback, answers, capStarted, cutAt, raced>>

\* pipeline: G05 stores the answer unless process_response set no_cache
Stores(t, cut) == ~cut

Finished(t) == capTurn' = [capTurn EXCEPT ![t] = IdleTurn]

\* _validate_output: a malformed structured answer is withheld by "block", and by a
\* "repair" that fails and falls back to it
ValidateOutput(mode) == IF mode \in {"block", "repair"} THEN {"kept", "withheld"} ELSE {"kept"}

\* the provider answers and process_response runs to its first Redis call
CapAnswer(t) ==
    /\ capTurn[t].at = "sent"
    /\ \E want \in AnswerSizes, finish \in {"stop", "other"},
          v \in UNION {ValidateOutput(m) : m \in ValidateModes} :
         LET cap == capTurn[t].cap
             cut == cap # 0 /\ want > cap
             pair == [max |-> cap, tokens |-> IF cut THEN cap ELSE want, truncated |-> cut]
             learns == capTurn[t].shape = "workload" /\ (finish = "stop" \/ cut)
         IN  /\ answers' = IF capTurn[t].shape # "stream" /\ v = "kept" /\ Stores(t, cut)
                           THEN answers \cup {IF cut THEN "cut" ELSE "whole"} ELSE answers
             /\ IF capTurn[t].shape = "stream" \/ v = "withheld" \/ ~learns
                THEN Finished(t) /\ UNCHANGED <<history, capFaults>>
                ELSE /\ \/ history' = RecordPair(history, pair) /\ UNCHANGED capFaults
                        \/ UNCHANGED history /\ CapFails
                     /\ IF cut THEN Goes(t, "raise") ELSE Finished(t)
    /\ UNCHANGED <<floor, fallback, capStarted, cutAt, raced>>

Raised(t) == capTurn[t].cap * Backoff

\* _FLOOR_CAS_LUA
RaiseFloor(t) == floor' = Max({floor, Raised(t)})

\* _raise_sticky_floor with EVAL
Raise(t) ==
    /\ capTurn[t].at = "raise"
    /\ RaiseFloor(t)
    /\ cutAt' = Max({cutAt, capTurn[t].cap})
    /\ Finished(t)
    /\ UNCHANGED <<history, fallback, answers, capStarted, capFaults, raced>>

\* EVAL refused: the fallback reads the floor, and gives up when it cannot
RaiseRead(t) ==
    /\ capTurn[t].at = "raise" /\ CapFails
    /\ \/ capTurn' = [capTurn EXCEPT ![t] = [@ EXCEPT !.at = "write", !.seen = floor]]
       \/ Finished(t)
    /\ UNCHANGED <<history, floor, fallback, answers, capStarted, cutAt, raced>>

\* and writes unless what it read was at least as high
RaiseWrite(t) ==
    /\ capTurn[t].at = "write"
    /\ IF capTurn[t].seen >= Raised(t)
       THEN UNCHANGED <<floor, raced, cutAt>>
       ELSE /\ floor' = Raised(t)
            /\ cutAt' = Max({cutAt, capTurn[t].cap})
            /\ raced' = (raced \/ floor # capTurn[t].seen)
    /\ Finished(t)
    /\ UNCHANGED <<history, fallback, answers, capStarted, capFaults>>

\* the keys' TTLs run out, or Redis evicts one
FloorExpires ==
    /\ floor # 0 /\ floor' = 0 /\ cutAt' = 0
    /\ capTurn' = [t \in CapTurns |-> [capTurn[t] EXCEPT !.since = 0]]
    /\ UNCHANGED <<history, fallback, answers, capStarted, capFaults, raced>>

HistoryExpires ==
    /\ history # <<>> /\ history' = <<>>
    /\ UNCHANGED <<floor, capTurn, fallback, answers, capStarted, capFaults, cutAt, raced>>

CapNext ==
    \/ \E t \in CapTurns : \/ CapStart(t) \/ ReadHistory(t) \/ ReadFloor(t) \/ CapAnswer(t)
                           \/ Raise(t) \/ RaiseRead(t) \/ RaiseWrite(t)
    \/ FloorExpires
    \/ HistoryExpires

CapSpec == CapInit /\ [][CapNext]_capVars

----------------------------------------------------------------------------
(* A turn that starts after an answer was cut at some cap, and that cut     *)
(* recorded, is never capped at or below it by the evidence again (the      *)
(* model's own limit aside): g11's estimate and its floor cannot oscillate, *)
(* whatever the other turns record in between.  A raise that Redis refused  *)
(* to run as a script, and that overwrote another, is best-effort, as       *)
(* _raise_sticky_floor logs.                                                *)
CutsConverge ==
    \A t \in CapTurns :
        capTurn[t].at = "sent" /\ capTurn[t].by = "evidence" /\ ~raced
            => capTurn[t].cap > capTurn[t].since \/ capTurn[t].cap = ModelLimit

(* An answer that a cap of G11 cut off is never stored in the response      *)
(* cache, whose key knows neither the cap nor the workload, whichever       *)
(* switch set the cap and whether or not the turn records evidence.         *)
CutIsNeverCached == "cut" \notin answers

(* An answer that was cut harms no later one: neither a turn of its own     *)
(* workload nor a hit of anybody's.                                         *)
CutsHeal == CutsConverge /\ CutIsNeverCached
=============================================================================
