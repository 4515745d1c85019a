--------------------------- MODULE ResilienceProofs ---------------------------
(* Theorems about Resilience, for any requests, tenants, providers, models, *)
(* chains and configurations.                                               *)
EXTENDS Resilience, TLAPS

USE DEF NoProbe

-----------------------------------------------------------------------------
(* The constants. *)

\* A job exists, and every job has a first target with a model.
LEMMA JobFacts ==
    /\ IdleJob \in Job
    /\ \A j \in Job : /\ j.tenant \in Tenants
                      /\ j.cfg \in Config
                      /\ j.targets \in Seq(Target)
                      /\ Len(j.targets) \in Nat \ {0}
                      /\ j.targets[1].model \in Models
<1>1. Job # {}
  <2>1. PICK t \in Tenants, c \in Chains, g \in Configs : TRUE
    BY ConstantsAssumption
  <2>2. [tenant |-> t, targets |-> c, cfg |-> g] \in Job
    BY <2>1 DEF Job
  <2> QED BY <2>2
<1>2. IdleJob \in Job
  BY <1>1 DEF IdleJob
<1>3. ASSUME NEW j \in Job
      PROVE  /\ j.tenant \in Tenants
             /\ j.cfg \in Config
             /\ j.targets \in Seq(Target)
             /\ Len(j.targets) \in Nat \ {0}
             /\ j.targets[1].model \in Models
  <2>1. j.tenant \in Tenants /\ j.cfg \in Config /\ j.targets \in Seq(Target) \ {<<>>}
    BY ConstantsAssumption DEF Job
  <2>2. Len(j.targets) \in Nat \ {0}
    BY <2>1
  <2>3. j.targets[1] \in Target
    BY <2>1, <2>2
  <2> QED BY <2>1, <2>2, <2>3 DEF Target
<1> QED BY <1>2, <1>3

\* The operations of a breaker keep its type.
LEMMA BreakerOps ==
    ASSUME NEW b \in CircuitBreaker, NEW n \in Nat, now \in Nat
    PROVE  /\ AfterAllow(b, n) \in CircuitBreaker
           /\ RecordSuccess(b) \in CircuitBreaker
           /\ RecordFailure(b, n) \in CircuitBreaker
<1> USE DEF CircuitBreaker, BreakerStates
<1>1. AfterAllow(b, n) \in CircuitBreaker
  BY DEF AfterAllow
<1>2. RecordSuccess(b) \in CircuitBreaker
  BY DEF RecordSuccess
<1>3. RecordFailure(b, n) \in CircuitBreaker
  <2>1. b.failures + 1 \in Nat
    OBVIOUS
  <2>2. /\ [b EXCEPT !.state = "open", !.opened_at = now] \in CircuitBreaker
        /\ [b EXCEPT !.failures = @ + 1] \in CircuitBreaker
        /\ [b EXCEPT !.failures = @ + 1, !.state = "open", !.opened_at = now]
             \in CircuitBreaker
    BY <2>1
  <2> QED BY <2>2 DEF RecordFailure
<1> QED BY <1>1, <1>2, <1>3

\* What an outcome makes of a breaker is a breaker.
LEMMA FedType ==
    ASSUME NEW b \in CircuitBreaker, NEW cfg \in Config, NEW e, now \in Nat
    PROVE  /\ Fed(b, cfg, e) \in CircuitBreaker
           /\ LockoutFed(b, cfg, e) \in CircuitBreaker
<1>1. cfg.failure_threshold \in Nat /\ cfg.model_failure_threshold \in Nat
  BY DEF Config
<1> QED BY <1>1, BreakerOps DEF Fed, LockoutFed

-----------------------------------------------------------------------------
(* Type correctness. *)

\* A task that awaits a call is at one of its targets.
AtTarget ==
    \A r \in Requests :
        pc[r] \in {"calling", "backoff"} => idx[r] <= Len(Targets(r))

TInv == TypeOK /\ AtTarget

\* The current target of a task is a target, and its job's configuration one.
LEMMA CurType ==
    ASSUME TypeOK, NEW r \in Requests, idx[r] <= Len(Targets(r))
    PROVE  /\ Cur(r) \in Target
           /\ Cur(r).model \in Models
           /\ CurProvider(r) \in Providers
<1>1. job[r] \in Job
  BY DEF TypeOK
<1>2. Targets(r) \in Seq(Target) /\ idx[r] \in 1 .. Len(Targets(r))
  BY <1>1, JobFacts DEF TypeOK, Targets
<1>3. Cur(r) \in Target
  BY <1>2 DEF Cur
<1> QED BY <1>3, ConstantsAssumption DEF Target, CurProvider

LEMMA CfgType ==
    ASSUME TypeOK, NEW r \in Requests
    PROVE  /\ Cfg(r) \in Config
           /\ Cfg(r) \in Configs
           /\ job[r].tenant \in Tenants
           /\ Cfg(r).cooldown_seconds \in Nat
           /\ Cfg(r).model_lockout_seconds \in Nat
<1>1. job[r] \in Job
  BY DEF TypeOK
<1>2. Cfg(r) \in Config /\ Cfg(r) \in Configs /\ job[r].tenant \in Tenants
  BY <1>1, JobFacts DEF Cfg, Job
<1> QED BY <1>2 DEF Config

LEMMA LogType ==
    ASSUME TypeOK, NEW r \in Requests, idx[r] <= Len(Targets(r)),
           NEW o \in Skips \cup {"error", "success"}, Log(r, o)
    PROVE  trail' \in [Requests -> Seq(AttemptEntry)]
<1>1. [model |-> Cur(r).model, outcome |-> o] \in AttemptEntry
  BY CurType DEF AttemptEntry
<1>2. trail[r] \in Seq(AttemptEntry)
  BY DEF TypeOK
<1>3. Append(trail[r], [model |-> Cur(r).model, outcome |-> o]) \in Seq(AttemptEntry)
  BY <1>1, <1>2
<1> QED BY <1>3 DEF Log, TypeOK

LEMMA NextTargetType ==
    ASSUME TypeOK, NEW r \in Requests, NextTarget(r)
    PROVE  /\ idx' \in [Requests -> Nat \ {0}]
           /\ attempt' \in [Requests -> Nat]
  BY DEF NextTarget, TypeOK

LEMMA AskGatesType ==
    ASSUME TypeOK, NEW r \in Requests, idx[r] <= Len(Targets(r)), AskGates(r)
    PROVE  /\ breakers' \in [Providers -> CircuitBreaker]
           /\ lockouts' \in [Models -> CircuitBreaker]
<1>1. /\ CurProvider(r) \in Providers
      /\ Cur(r).model \in Models
  BY CurType
<1>2. /\ Cfg(r).cooldown_seconds \in Nat
      /\ Cfg(r).model_lockout_seconds \in Nat
  BY CfgType
<1>3. /\ breakers[CurProvider(r)] \in CircuitBreaker
      /\ lockouts[Cur(r).model] \in CircuitBreaker
      /\ now \in Nat
  BY <1>1 DEF TypeOK
<1>4. /\ AfterAllow(breakers[CurProvider(r)], Cfg(r).cooldown_seconds) \in CircuitBreaker
      /\ AfterAllow(lockouts[Cur(r).model], Cfg(r).model_lockout_seconds) \in CircuitBreaker
  BY <1>2, <1>3, BreakerOps
<1> QED BY <1>4 DEF AskGates, TypeOK

LEMMA RememberType ==
    ASSUME TypeOK, NEW p \in Providers, NEW cfg \in Configs, NEW e,
           NEW source \in Models \cup {"outside"}, Remember(p, cfg, e, source)
    PROVE  /\ streak' \in [Providers -> Nat]
           /\ blamed' \in [Providers -> SUBSET (Models \cup {"outside"})]
           /\ tripped' \in SUBSET Providers
  BY DEF Remember, TypeOK

LEMMA OutcomeType ==
    ASSUME TypeOK, NEW r \in Requests, idx[r] <= Len(Targets(r)), NEW e, Outcome(r, e)
    PROVE  /\ breakers' \in [Providers -> CircuitBreaker]
           /\ lockouts' \in [Models -> CircuitBreaker]
           /\ streak' \in [Providers -> Nat]
           /\ blamed' \in [Providers -> SUBSET (Models \cup {"outside"})]
           /\ tripped' \in SUBSET Providers
<1>1. CurProvider(r) \in Providers /\ Cur(r).model \in Models
  BY CurType
<1>2. Cfg(r) \in Config /\ Cfg(r) \in Configs
  BY CfgType
<1>3. /\ breakers[CurProvider(r)] \in CircuitBreaker
      /\ lockouts[Cur(r).model] \in CircuitBreaker
      /\ now \in Nat
  BY <1>1 DEF TypeOK
<1>4. /\ Fed(breakers[CurProvider(r)], Cfg(r), e) \in CircuitBreaker
      /\ LockoutFed(lockouts[Cur(r).model], Cfg(r), e) \in CircuitBreaker
  BY <1>2, <1>3, FedType
<1>5. Remember(CurProvider(r), Cfg(r), e, Cur(r).model)
  BY DEF Outcome
<1>6. breakers' \in [Providers -> CircuitBreaker] /\ lockouts' \in [Models -> CircuitBreaker]
  BY <1>4 DEF Outcome, TypeOK
<1> QED BY <1>1, <1>2, <1>5, <1>6, RememberType

LEMMA NoteOutcomeType ==
    ASSUME TypeOK, NEW p \in Providers, NEW cfg \in Configs, NEW e, NoteOutcome(p, cfg, e)
    PROVE  /\ breakers' \in [Providers -> CircuitBreaker]
           /\ streak' \in [Providers -> Nat]
           /\ blamed' \in [Providers -> SUBSET (Models \cup {"outside"})]
           /\ tripped' \in SUBSET Providers
<1>1. cfg \in Config
  BY ConstantsAssumption
<1>2. breakers[p] \in CircuitBreaker /\ now \in Nat
  BY DEF TypeOK
<1>3. Fed(breakers[p], cfg, e) \in CircuitBreaker
  BY <1>1, <1>2, FedType
<1>4. breakers' \in [Providers -> CircuitBreaker]
  BY <1>3 DEF NoteOutcome, TypeOK
<1> QED BY <1>4, RememberType DEF NoteOutcome

LEMMA TInit == Init => TInv
<1> SUFFICES ASSUME Init PROVE TInv
  OBVIOUS
<1>1. NewBreaker \in CircuitBreaker
  BY DEF NewBreaker, CircuitBreaker, BreakerStates
<1>2. IdleJob \in Job /\ IdleJob.targets[1].model \in Models
  BY JobFacts
<1>3. TypeOK
  BY <1>1, <1>2 DEF Init, TypeOK, Errors, Answers
<1> QED BY <1>3 DEF Init, TInv, AtTarget

\* Every step keeps the types, and a task awaits only at a target.
LEMMA TNext == TInv /\ [Next]_vars => TInv'
<1> SUFFICES ASSUME TInv, [Next]_vars PROVE TInv'
  OBVIOUS
<1> USE DEF TInv
<1>1. CASE Tick
  BY <1>1 DEF Tick, TypeOK, AtTarget, Targets, storeVars, reqVars, histVars
<1>2. ASSUME NEW r \in Requests, Start(r) PROVE TInv'
  <2>1. PICK j \in Job : /\ job' = [job EXCEPT ![r] = j]
                         /\ routed' = [routed EXCEPT ![r] = j.targets[1].model]
    BY <1>2 DEF Start
  <2>2. j.targets[1].model \in Models
    BY JobFacts
  <2>3. TypeOK'
    BY <1>2, <2>1, <2>2 DEF Start, TypeOK, storeVars, histVars
  <2>4. AtTarget'
    BY <1>2, <2>1 DEF Start, AtTarget, TypeOK, Targets
  <2> QED BY <2>3, <2>4
<1>3. ASSUME NEW r \in Requests, SkipNoKey(r) PROVE TInv'
  <2>1. idx[r] <= Len(Targets(r))
    BY <1>3 DEF SkipNoKey, Gating
  <2>2. trail' \in [Requests -> Seq(AttemptEntry)]
    BY <1>3, <2>1, LogType DEF SkipNoKey, Skips
  <2>3. TypeOK'
    BY <1>3, <2>2, NextTargetType DEF SkipNoKey, TypeOK, storeVars, histVars
  <2>4. AtTarget'
    BY <1>3 DEF SkipNoKey, Gating, NextTarget, AtTarget, Targets, TypeOK
  <2> QED BY <2>3, <2>4
<1>4. ASSUME NEW r \in Requests, SkipGated(r) PROVE TInv'
  <2>1. idx[r] <= Len(Targets(r))
    BY <1>4 DEF SkipGated, Gating
  <2>2. trail' \in [Requests -> Seq(AttemptEntry)]
    BY <1>4, <2>1, LogType DEF SkipGated, Skips
  <2>3. TypeOK'
    BY <1>4, <2>1, <2>2, NextTargetType, AskGatesType DEF SkipGated, TypeOK, histVars
  <2>4. AtTarget'
    BY <1>4 DEF SkipGated, Gating, NextTarget, AtTarget, Targets, TypeOK
  <2> QED BY <2>3, <2>4
<1>5. ASSUME NEW r \in Requests, Invoke(r) PROVE TInv'
  <2>1. idx[r] <= Len(Targets(r))
    BY <1>5 DEF Invoke, Gating
  <2>2. TypeOK'
    BY <1>5, <2>1, AskGatesType DEF Invoke, TypeOK, histVars
  <2>3. AtTarget'
    BY <1>5, <2>1 DEF Invoke, AtTarget, Targets, TypeOK
  <2> QED BY <2>2, <2>3
<1>6. ASSUME NEW r \in Requests, InvokeSucceeds(r) PROVE TInv'
  <2>1. idx[r] <= Len(Targets(r))
    BY <1>6 DEF InvokeSucceeds, AtTarget
  <2>2. trail' \in [Requests -> Seq(AttemptEntry)]
    BY <1>6, <2>1, LogType DEF InvokeSucceeds
  <2>3. routed' \in [Requests -> Models]
    BY <1>6, <2>1, CurType DEF InvokeSucceeds, PinWinner, TypeOK
  <2>4. TypeOK'
    BY <1>6, <2>1, <2>2, <2>3, OutcomeType
       DEF InvokeSucceeds, Finish, TypeOK, Answers
  <2>5. AtTarget'
    BY <1>6 DEF InvokeSucceeds, Finish, AtTarget, Targets, TypeOK
  <2> QED BY <2>4, <2>5
<1>7. ASSUME NEW r \in Requests, NEW e \in Errors, InvokeFailsRetry(r, e) PROVE TInv'
  <2>1. idx[r] <= Len(Targets(r))
    BY <1>7 DEF InvokeFailsRetry, AtTarget
  <2>2. contacted' \in [Requests -> BOOLEAN]
    BY <1>7, <2>1, CurType DEF InvokeFailsRetry, Failed, TypeOK, Target
  <2>3. TypeOK'
    BY <1>7, <2>1, <2>2, OutcomeType DEF InvokeFailsRetry, Failed, TypeOK
  <2>4. AtTarget'
    BY <1>7, <2>1 DEF InvokeFailsRetry, AtTarget, Targets, TypeOK
  <2> QED BY <2>3, <2>4
<1>8. ASSUME NEW r \in Requests, NEW e \in Errors, InvokeFails(r, e) PROVE TInv'
  <2>1. idx[r] <= Len(Targets(r))
    BY <1>8 DEF InvokeFails, AtTarget
  <2>2. contacted' \in [Requests -> BOOLEAN]
    BY <1>8, <2>1, CurType DEF InvokeFails, Failed, TypeOK, Target
  <2>3. trail' \in [Requests -> Seq(AttemptEntry)]
    BY <1>8, <2>1, LogType DEF InvokeFails
  <2>4. /\ cooldowns' \in [Tenants -> [Providers -> Nat]]
        /\ limited' \in [Tenants -> SUBSET Providers]
    <3>1. CurProvider(r) \in Providers /\ job[r].tenant \in Tenants
          /\ now + Cfg(r).cooldown_seconds \in Nat
      BY <2>1, CurType, CfgType DEF TypeOK
    <3> QED BY <1>8, <3>1 DEF InvokeFails, TypeOK
  <2>5. /\ idx' \in [Requests -> Nat \ {0}]
        /\ attempt' \in [Requests -> Nat]
        /\ pc' \in [Requests -> {"idle", "gate", "calling", "backoff", "done"}]
        /\ answer' \in [Requests -> Answers]
        /\ running' \in Requests \cup {Nobody}
    BY <1>8, NextTargetType DEF InvokeFails, Finish, TypeOK, Answers
  <2>6. TypeOK'
    BY <1>8, <2>1, <2>2, <2>3, <2>4, <2>5, OutcomeType DEF InvokeFails, Failed, TypeOK
  <2>7. AtTarget'
    BY <1>8 DEF InvokeFails, Finish, NextTarget, AtTarget, Targets, TypeOK
  <2> QED BY <2>6, <2>7
<1>9. ASSUME NEW r \in Requests, Wake(r) PROVE TInv'
  BY <1>9 DEF Wake, TypeOK, AtTarget, Targets, storeVars, histVars
<1>10. ASSUME NEW r \in Requests, Cancel(r) PROVE TInv'
  BY <1>10 DEF Cancel, Finish, TypeOK, Answers, AtTarget, Targets, storeVars, histVars
<1>11. ASSUME NEW r \in Requests, Exhausted(r) PROVE TInv'
  BY <1>11 DEF Exhausted, Finish, TypeOK, Answers, AtTarget, Targets, storeVars, histVars
<1>12. ASSUME NEW o \in Outside, OutsideStep(o) PROVE TInv'
  <2>1. UNCHANGED <<pc, job, idx>>
    BY <1>12 DEF OutsideStep, OutsideCall, JevAsk, JevAnswers, JevCancelled, reqVars
  <2>2. AtTarget'
    BY <2>1 DEF AtTarget, Targets
  <2>3. CASE OutsideCall(o)
    BY <2>2, <2>3, NoteOutcomeType DEF OutsideCall, Verdict, TypeOK, reqVars
  <2>4. CASE JevAsk(o)
    <3>1. PICK cfg \in Configs :
            /\ outside' = [outside EXCEPT ![o] =
                  IF cfg.enabled /\ ~Allows(breakers[JevProvider], cfg.cooldown_seconds)
                  THEN "refused" ELSE "jev"]
            /\ breakers' = IF cfg.enabled
                           THEN [breakers EXCEPT ![JevProvider] =
                                   AfterAllow(breakers[JevProvider], cfg.cooldown_seconds)]
                           ELSE breakers
      BY <2>4 DEF JevAsk
    <3>2. AfterAllow(breakers[JevProvider], cfg.cooldown_seconds) \in CircuitBreaker
      BY ConstantsAssumption, BreakerOps DEF TypeOK, Config
    <3> QED BY <2>2, <2>4, <3>1, <3>2 DEF JevAsk, TypeOK, reqVars, histVars
  <2>5. CASE JevAnswers(o)
    BY <2>2, <2>5, NoteOutcomeType, ConstantsAssumption
       DEF JevAnswers, Verdict, TypeOK, reqVars
  <2>6. CASE JevCancelled(o)
    BY <2>2, <2>6, NoteOutcomeType, ConstantsAssumption DEF JevCancelled, TypeOK, reqVars
  <2> QED BY <1>12, <2>3, <2>4, <2>5, <2>6 DEF OutsideStep
<1>13. CASE UNCHANGED vars
  BY <1>13 DEF vars, TypeOK, AtTarget, Targets
<1> QED
  BY <1>1, <1>2, <1>3, <1>4, <1>5, <1>6, <1>7, <1>8, <1>9, <1>10, <1>11, <1>12,
     <1>13 DEF Next, RequestStep

\* Type correctness of one worker, for every instance.
THEOREM TypeCorrect == Spec => []TypeOK
<1>1. Spec => []TInv
  BY TInit, TNext, PTL DEF Spec
<1>2. TInv => TypeOK
  BY DEF TInv
<1> QED BY <1>1, <1>2, PTL

-----------------------------------------------------------------------------
(* Fail-open gates. *)

\* As long as no attempt has failed, either every target passed so far had no
\* key, or one with a key is still ahead.
Ahead(r) ==
    \/ \A j \in 1 .. idx[r] - 1 : ~Targets(r)[j].has_key
    \/ \E j \in idx[r] .. Len(Targets(r)) : Targets(r)[j].has_key

StarveInv ==
    \A r \in Requests :
        /\ pc[r] = "idle" => idx[r] = 1
        /\ pc[r] # "done" => answer[r] = "none"
        /\ pc[r] = "gate" /\ lastError[r] = "none" => Ahead(r)
        /\ answer[r] = "all_failed" /\ lastError[r] = "none"
              => \A j \in 1 .. Len(Targets(r)) : ~Targets(r)[j].has_key

LEMMA StarveInit == Init => StarveInv
  BY DEF Init, StarveInv

LEMMA StarveNext == TInv /\ StarveInv /\ [Next]_vars => StarveInv'
<1> SUFFICES ASSUME TInv, StarveInv, [Next]_vars PROVE StarveInv'
  OBVIOUS
<1> USE DEF TInv
<1>a. \A r \in Requests : Targets(r) \in Seq(Target) /\ Len(Targets(r)) \in Nat
  BY JobFacts DEF TypeOK, Targets
<1>1. ASSUME UNCHANGED <<pc, job, idx, lastError, answer>> PROVE StarveInv'
  BY <1>1 DEF StarveInv, Ahead, Targets
<1>2. ASSUME NEW r \in Requests, Start(r) PROVE StarveInv'
  <2>1. PICK j \in Job : job' = [job EXCEPT ![r] = j]
    BY <1>2 DEF Start
  <2>2. /\ pc[r] = "idle" /\ pc' = [pc EXCEPT ![r] = "gate"]
        /\ UNCHANGED <<idx, lastError, answer>>
    BY <1>2 DEF Start
  <2>3. idx[r] = 1 /\ answer[r] = "none"
    BY <2>2 DEF StarveInv
  <2>4. Ahead(r)'
    BY <2>2, <2>3 DEF Ahead
  <2>5. ASSUME NEW s \in Requests, s # r
        PROVE  /\ Targets(s)' = Targets(s) /\ Ahead(s)' = Ahead(s)
               /\ pc'[s] = pc[s]
    BY <2>1, <2>2, <2>5 DEF Ahead, Targets, TypeOK
  <2>6. pc'[r] = "gate"
    BY <2>2 DEF TypeOK
  <2> QED BY <2>2, <2>3, <2>4, <2>5, <2>6 DEF StarveInv
<1>3. ASSUME NEW r \in Requests, SkipNoKey(r) PROVE StarveInv'
  <2>1. UNCHANGED <<pc, job, lastError, answer>> /\ idx' = [idx EXCEPT ![r] = @ + 1]
    BY <1>3 DEF SkipNoKey, NextTarget
  <2>2. pc[r] = "gate" /\ ~Targets(r)[idx[r]].has_key
    BY <1>3 DEF SkipNoKey, Gating, Cur
  <2>3. idx[r] \in Nat /\ idx'[r] = idx[r] + 1 /\ \A s \in Requests : Targets(s)' = Targets(s)
    BY <2>1 DEF TypeOK, Targets
  <2>4. Ahead(r) => Ahead(r)'
    BY <1>a, <2>2, <2>3 DEF Ahead
  <2>5. \A s \in Requests \ {r} : Ahead(s)' = Ahead(s)
    BY <2>1 DEF Ahead, Targets, TypeOK
  <2> QED BY <2>1, <2>2, <2>3, <2>4, <2>5 DEF StarveInv, TypeOK
<1>4. ASSUME NEW r \in Requests, SkipGated(r) PROVE StarveInv'
  <2>1. UNCHANGED <<pc, job, lastError, answer>> /\ idx' = [idx EXCEPT ![r] = @ + 1]
    BY <1>4 DEF SkipGated, NextTarget
  <2>2. pc[r] = "gate" /\ MaySkip(r)
    BY <1>4 DEF SkipGated, Gating
  <2>3. idx[r] \in Nat /\ idx'[r] = idx[r] + 1 /\ \A s \in Requests : Targets(s)' = Targets(s)
    BY <2>1 DEF TypeOK, Targets
  <2>4. lastError[r] = "none" => Ahead(r)'
    BY <1>a, <2>2, <2>3 DEF Ahead, MaySkip
  <2>5. \A s \in Requests \ {r} : Ahead(s)' = Ahead(s)
    BY <2>1 DEF Ahead, Targets, TypeOK
  <2> QED BY <2>1, <2>2, <2>3, <2>4, <2>5 DEF StarveInv, TypeOK
<1>5. ASSUME NEW r \in Requests, NEW w \in {"calling", "backoff"},
             pc[r] # "done", pc' = [pc EXCEPT ![r] = w],
             UNCHANGED <<job, idx, answer>>,
             \A s \in Requests \ {r} : lastError'[s] = lastError[s]
      PROVE  StarveInv'
  BY <1>5 DEF StarveInv, Ahead, Targets, TypeOK
<1>6. ASSUME NEW r \in Requests, NEW a \in Answers, pc[r] # "done",
             a = "all_failed" /\ lastError'[r] = "none"
                 => \A j \in 1 .. Len(Targets(r)) : ~Targets(r)[j].has_key,
             Finish(r, a), UNCHANGED <<job, idx>>,
             \A s \in Requests \ {r} : lastError'[s] = lastError[s]
      PROVE  StarveInv'
  <2>1. pc' = [pc EXCEPT ![r] = "done"] /\ answer' = [answer EXCEPT ![r] = a]
    BY <1>6 DEF Finish
  <2>2. \A s \in Requests : Targets(s)' = Targets(s) /\ Ahead(s)' = Ahead(s)
    BY <1>6 DEF Ahead, Targets
  <2>3. pc'[r] = "done" /\ answer'[r] = a
    BY <2>1 DEF TypeOK
  <2>4. \A s \in Requests \ {r} : /\ pc'[s] = pc[s] /\ answer'[s] = answer[s]
                                /\ idx'[s] = idx[s] /\ lastError'[s] = lastError[s]
    BY <1>6, <2>1 DEF TypeOK
  <2> QED BY <1>6, <2>2, <2>3, <2>4 DEF StarveInv
<1>7. ASSUME NEW r \in Requests, NEW e \in Errors, InvokeFails(r, e) PROVE StarveInv'
  <2>1. e # "none" /\ pc[r] = "calling" /\ lastError' = [lastError EXCEPT ![r] = e]
        /\ UNCHANGED job
    BY <1>7 DEF InvokeFails, ErrorsOf, Failed
  <2>2. CASE ~Retryable(e) /\ idx[r] = 1
    BY <1>6, <1>7, <2>1, <2>2 DEF InvokeFails, Answers, TypeOK
  <2>3. CASE ~(~Retryable(e) /\ idx[r] = 1)
    <3>1. /\ pc' = [pc EXCEPT ![r] = "gate"] /\ UNCHANGED answer
          /\ idx' = [idx EXCEPT ![r] = @ + 1]
      BY <1>7, <2>3 DEF InvokeFails, NextTarget
    <3> QED BY <2>1, <3>1 DEF StarveInv, Ahead, Targets, TypeOK
  <2> QED BY <2>2, <2>3
<1>8. ASSUME NEW r \in Requests, Exhausted(r) PROVE StarveInv'
  <2>1. /\ pc[r] = "gate" /\ idx[r] > Len(Targets(r))
        /\ UNCHANGED <<job, idx, lastError>>
    BY <1>8 DEF Exhausted
  <2>2. idx[r] \in Nat
    BY DEF TypeOK
  <2>3. lastError[r] = "none" => \A j \in 1 .. Len(Targets(r)) : ~Targets(r)[j].has_key
    BY <1>a, <2>1, <2>2 DEF StarveInv, Ahead
  <2> QED BY <1>6, <1>8, <2>1, <2>3 DEF Exhausted, Answers
<1>9. ASSUME NEW r \in Requests, Invoke(r) PROVE StarveInv'
  BY <1>5, <1>9 DEF Invoke, Gating
<1>10. ASSUME NEW r \in Requests, InvokeSucceeds(r) PROVE StarveInv'
  BY <1>6, <1>10 DEF InvokeSucceeds, Answers
<1>11. ASSUME NEW r \in Requests, NEW e \in Errors, InvokeFailsRetry(r, e) PROVE StarveInv'
  BY <1>5, <1>11 DEF InvokeFailsRetry, Failed, TypeOK
<1>12. ASSUME NEW r \in Requests, Wake(r) PROVE StarveInv'
  BY <1>5, <1>12 DEF Wake
<1>13. ASSUME NEW r \in Requests, Cancel(r) PROVE StarveInv'
  BY <1>6, <1>13 DEF Cancel, Answers
<1>14. ASSUME NEW o \in Outside, OutsideStep(o) PROVE StarveInv'
  BY <1>1, <1>14 DEF OutsideStep, OutsideCall, JevAsk, JevAnswers, JevCancelled, reqVars
<1>15. CASE Tick \/ UNCHANGED vars
  BY <1>1, <1>15 DEF Tick, reqVars, vars
<1> QED
  BY <1>2, <1>3, <1>4, <1>7, <1>8, <1>9, <1>10, <1>11, <1>12, <1>13, <1>14, <1>15
     DEF Next, RequestStep

\* The gates never produce a failure without an attempt: for every chain, a call
\* that ends in all_failed with no error had no target with a key.
THEOREM NeverStarve == Spec => []GatesNeverStarve
<1>1. Init => TInv /\ StarveInv
  BY TInit, StarveInit
<1>2. TInv /\ StarveInv /\ [Next]_vars => (TInv /\ StarveInv)'
  BY TNext, StarveNext
<1>3. TInv /\ StarveInv => GatesNeverStarve
  BY DEF StarveInv, GatesNeverStarve
<1> QED BY <1>1, <1>2, <1>3, PTL DEF Spec

-----------------------------------------------------------------------------
(* The breakers. *)

\* What a breaker and the history of its provider have to do with each other.
HealthOf(p) ==
    /\ breakers[p].state = "closed" => breakers[p].failures = streak[p]
    /\ breakers[p].state # "closed" => p \in tripped /\ streak[p] > 0

\* Where the probe's timestamp may be: never in the future, and never after the
\* moment the breaker opened.
ProbeOf(p) ==
    /\ breakers[p].probe_started_at <= now
    /\ breakers[p].state = "open" => breakers[p].probe_started_at <= breakers[p].opened_at

BreakerInv == \A p \in Providers : HealthOf(p) /\ ProbeOf(p)

\* One step of one provider's probe, as ProbesSpaced bounds it.
Spaced(p) ==
    LET before == breakers[p].probe_started_at
    IN  breakers'[p].probe_started_at # before
          => \/ before = NoProbe
             \/ \E c \in Configs : now - before >= c.cooldown_seconds

\* Asking a breaker.
LEMMA AskKeeps ==
    ASSUME TypeOK, NEW p \in Providers, NEW c \in Configs, HealthOf(p), ProbeOf(p),
           breakers' = [breakers EXCEPT ![p] = AfterAllow(@, c.cooldown_seconds)],
           UNCHANGED <<now, streak, tripped>>
    PROVE  HealthOf(p)' /\ ProbeOf(p)' /\ Spaced(p)
<1>1. breakers[p] \in CircuitBreaker /\ now \in Nat /\ c.cooldown_seconds \in Nat
  BY ConstantsAssumption DEF TypeOK, Config
<1>2. breakers'[p] = AfterAllow(breakers[p], c.cooldown_seconds)
  BY DEF TypeOK
<1>3. CASE breakers[p].state # "closed" /\ Allows(breakers[p], c.cooldown_seconds)
  <2>1. breakers'[p] = [breakers[p] EXCEPT !.state = "half_open", !.probe_started_at = now]
    BY <1>2, <1>3 DEF AfterAllow
  <2>2. breakers'[p].state = "half_open" /\ breakers'[p].probe_started_at = now
    BY <1>1, <2>1 DEF CircuitBreaker
  <2>3. HealthOf(p)' /\ ProbeOf(p)'
    BY <1>1, <1>3, <2>2 DEF HealthOf, ProbeOf
  <2>4. \/ breakers[p].probe_started_at = NoProbe
        \/ now - breakers[p].probe_started_at >= c.cooldown_seconds
    BY <1>1, <1>3 DEF Allows, ProbeOf, CircuitBreaker
  <2> QED BY <2>3, <2>4 DEF Spaced
<1>4. CASE ~(breakers[p].state # "closed" /\ Allows(breakers[p], c.cooldown_seconds))
  <2>1. breakers'[p] = breakers[p]
    BY <1>2, <1>4 DEF AfterAllow
  <2> QED BY <2>1 DEF HealthOf, ProbeOf, Spaced
<1> QED BY <1>3, <1>4

\* The fields of a breaker after a failure.
LEMMA FailureFields ==
    ASSUME NEW b \in CircuitBreaker, NEW n \in Nat, now \in Nat
    PROVE  LET after == RecordFailure(b, n)
               opens == b.state = "half_open" \/ b.failures + 1 >= n
           IN  /\ after.probe_started_at = b.probe_started_at
               /\ opens => after.state = "open" /\ after.opened_at = now
               /\ ~opens => /\ after.state = b.state
                           /\ after.opened_at = b.opened_at
                           /\ after.failures = b.failures + 1
<1> USE DEF CircuitBreaker
<1>1. CASE b.state = "half_open"
  <2>1. RecordFailure(b, n) = [b EXCEPT !.state = "open", !.opened_at = now]
    BY <1>1 DEF RecordFailure
  <2> QED BY <1>1, <2>1
<1>2. CASE b.state # "half_open" /\ b.failures + 1 >= n
  <2>1. RecordFailure(b, n) =
          [b EXCEPT !.failures = @ + 1, !.state = "open", !.opened_at = now]
    BY <1>2 DEF RecordFailure
  <2> QED BY <1>2, <2>1
<1>3. CASE b.state # "half_open" /\ ~(b.failures + 1 >= n)
  <2>1. RecordFailure(b, n) = [b EXCEPT !.failures = @ + 1]
    BY <1>3 DEF RecordFailure
  <2> QED BY <1>3, <2>1
<1> QED BY <1>1, <1>2, <1>3

\* Telling a breaker how a call ended.
LEMMA FeedKeeps ==
    ASSUME TypeOK, NEW p \in Providers, NEW c \in Configs, NEW e, NEW source,
           HealthOf(p), ProbeOf(p),
           breakers' = [breakers EXCEPT ![p] = Fed(@, c, e)],
           Remember(p, c, e, source), UNCHANGED now
    PROVE  HealthOf(p)' /\ ProbeOf(p)' /\ Spaced(p)
<1>1. breakers[p] \in CircuitBreaker /\ now \in Nat /\ c.failure_threshold \in Nat
      /\ streak[p] \in Nat
  BY ConstantsAssumption DEF TypeOK, Config
<1>2. breakers'[p] = Fed(breakers[p], c, e)
  BY DEF TypeOK
<1>3. CASE c.enabled /\ e = "none"
  <2>1. breakers'[p] = [breakers[p] EXCEPT !.failures = 0, !.state = "closed"]
    BY <1>2, <1>3 DEF Fed, RecordSuccess
  <2>2. /\ breakers'[p].failures = 0 /\ breakers'[p].state = "closed"
        /\ breakers'[p].probe_started_at = breakers[p].probe_started_at
    BY <1>1, <2>1 DEF CircuitBreaker
  <2>3. streak'[p] = 0
    BY <1>3 DEF Remember, TypeOK
  <2> QED BY <2>2, <2>3 DEF HealthOf, ProbeOf, Spaced
<1>4. CASE c.enabled /\ e = "transient"
  <2>1. breakers'[p] = RecordFailure(breakers[p], c.failure_threshold)
    BY <1>2, <1>4 DEF Fed
  <2>2. streak'[p] = streak[p] + 1
    BY <1>4 DEF Remember, TypeOK
  <2>3. streak[p] + 1 >= c.failure_threshold => p \in tripped'
    BY <1>4 DEF Remember
  <2>4. CASE breakers[p].state = "half_open"
    <3>1. /\ breakers'[p].state = "open" /\ breakers'[p].opened_at = now
          /\ breakers'[p].probe_started_at = breakers[p].probe_started_at
      BY <1>1, <2>1, <2>4, FailureFields
    <3>2. p \in tripped'
      BY <1>4, <2>4 DEF HealthOf, Remember
    <3> QED BY <1>1, <2>2, <3>1, <3>2 DEF HealthOf, ProbeOf, Spaced
  <2>5. CASE breakers[p].state # "half_open"
    <3>1. CASE breakers[p].failures + 1 >= c.failure_threshold
      <4>1. /\ breakers'[p].state = "open" /\ breakers'[p].opened_at = now
            /\ breakers'[p].probe_started_at = breakers[p].probe_started_at
        BY <1>1, <2>1, <2>5, <3>1, FailureFields
      <4>2. p \in tripped'
        BY <1>4, <2>3, <2>5, <3>1 DEF HealthOf, Remember
      <4> QED BY <1>1, <2>2, <4>1, <4>2 DEF HealthOf, ProbeOf, Spaced
    <3>2. CASE ~(breakers[p].failures + 1 >= c.failure_threshold)
      <4>1. /\ breakers'[p].state = breakers[p].state
            /\ breakers'[p].failures = breakers[p].failures + 1
            /\ breakers'[p].opened_at = breakers[p].opened_at
            /\ breakers'[p].probe_started_at = breakers[p].probe_started_at
        BY <1>1, <2>1, <2>5, <3>2, FailureFields
      <4>2. breakers[p].state # "closed" => p \in tripped'
        BY <1>4 DEF HealthOf, Remember
      <4> QED BY <1>1, <2>2, <4>1, <4>2 DEF HealthOf, ProbeOf, Spaced
    <3> QED BY <3>1, <3>2
  <2> QED BY <2>4, <2>5
<1>5. CASE ~(c.enabled /\ e \in {"none", "transient"})
  <2>1. breakers'[p] = breakers[p]
    BY <1>2, <1>5 DEF Fed
  <2>2. streak'[p] = streak[p] /\ tripped' = tripped
    BY <1>5 DEF Remember, TypeOK
  <2> QED BY <2>1, <2>2 DEF HealthOf, ProbeOf, Spaced
<1> QED BY <1>3, <1>4, <1>5

\* A step that leaves a provider's breaker and history alone.
LEMMA OthersKeep ==
    ASSUME TypeOK, NEW q \in Providers, HealthOf(q), ProbeOf(q),
           breakers'[q] = breakers[q], streak'[q] = streak[q],
           q \in tripped => q \in tripped',
           now' \in Nat, now' >= now
    PROVE  HealthOf(q)' /\ ProbeOf(q)' /\ Spaced(q)
<1>1. breakers[q].probe_started_at \in Int /\ now \in Nat
  BY DEF TypeOK, CircuitBreaker
<1> QED BY <1>1 DEF HealthOf, ProbeOf, Spaced

LEMMA BreakerNext ==
    ASSUME TInv, BreakerInv, [Next]_vars
    PROVE  BreakerInv' /\ \A p \in Providers : Spaced(p)
<1> USE DEF TInv
<1>1. ASSUME NEW p \in Providers, NEW c \in Configs,
             breakers' = [breakers EXCEPT ![p] = AfterAllow(@, c.cooldown_seconds)],
             UNCHANGED <<now, streak, tripped>>
      PROVE  BreakerInv' /\ \A q \in Providers : Spaced(q)
  <2>1. HealthOf(p)' /\ ProbeOf(p)' /\ Spaced(p)
    BY <1>1, AskKeeps DEF BreakerInv
  <2>2. ASSUME NEW q \in Providers, q # p PROVE HealthOf(q)' /\ ProbeOf(q)' /\ Spaced(q)
    BY <1>1, <2>2, OthersKeep DEF BreakerInv, TypeOK
  <2> QED BY <2>1, <2>2 DEF BreakerInv
<1>2. ASSUME NEW p \in Providers, NEW c \in Configs, NEW e, NEW source,
             breakers' = [breakers EXCEPT ![p] = Fed(@, c, e)],
             Remember(p, c, e, source), UNCHANGED now
      PROVE  BreakerInv' /\ \A q \in Providers : Spaced(q)
  <2>1. HealthOf(p)' /\ ProbeOf(p)' /\ Spaced(p)
    BY <1>2, FeedKeeps DEF BreakerInv
  <2>2. ASSUME NEW q \in Providers, q # p PROVE HealthOf(q)' /\ ProbeOf(q)' /\ Spaced(q)
    BY <1>2, <2>2, OthersKeep DEF BreakerInv, TypeOK, Remember
  <2> QED BY <2>1, <2>2 DEF BreakerInv
<1>3. ASSUME UNCHANGED <<breakers, streak, tripped>>, now' \in {now, now + 1}
      PROVE  BreakerInv' /\ \A q \in Providers : Spaced(q)
  <2>1. now' \in Nat /\ now' >= now
    BY <1>3 DEF TypeOK
  <2>2. ASSUME NEW q \in Providers PROVE HealthOf(q)' /\ ProbeOf(q)' /\ Spaced(q)
    BY <1>3, <2>1, OthersKeep DEF BreakerInv
  <2> QED BY <2>2 DEF BreakerInv
<1>4. ASSUME NEW r \in Requests, Gating(r), AskGates(r), UNCHANGED <<now, streak, tripped>>
      PROVE  BreakerInv' /\ \A q \in Providers : Spaced(q)
  <2>1. CurProvider(r) \in Providers /\ Cfg(r) \in Configs
    BY <1>4, CurType, CfgType DEF Gating
  <2> QED BY <1>1, <1>3, <1>4, <2>1 DEF AskGates
<1>5. ASSUME NEW r \in Requests, NEW e, pc[r] = "calling", Outcome(r, e), UNCHANGED now
      PROVE  BreakerInv' /\ \A q \in Providers : Spaced(q)
  <2>1. CurProvider(r) \in Providers /\ Cfg(r) \in Configs
    BY <1>5, CurType, CfgType DEF AtTarget
  <2> QED BY <1>2, <1>5, <2>1 DEF Outcome
<1>6. ASSUME NEW r \in Requests, SkipGated(r) \/ Invoke(r)
      PROVE  BreakerInv' /\ \A q \in Providers : Spaced(q)
  BY <1>4, <1>6 DEF SkipGated, Invoke, histVars
<1>7. ASSUME NEW r \in Requests, InvokeSucceeds(r)
      PROVE  BreakerInv' /\ \A q \in Providers : Spaced(q)
  BY <1>5, <1>7 DEF InvokeSucceeds
<1>8. ASSUME NEW r \in Requests, NEW e, InvokeFailsRetry(r, e) \/ InvokeFails(r, e)
      PROVE  BreakerInv' /\ \A q \in Providers : Spaced(q)
  BY <1>5, <1>8 DEF InvokeFailsRetry, InvokeFails, Failed
<1>9. ASSUME NEW r \in Requests,
             Start(r) \/ SkipNoKey(r) \/ Wake(r) \/ Cancel(r) \/ Exhausted(r)
      PROVE  BreakerInv' /\ \A q \in Providers : Spaced(q)
  BY <1>3, <1>9 DEF Start, SkipNoKey, Wake, Cancel, Exhausted, storeVars, histVars
<1>10. ASSUME NEW o \in Outside, OutsideCall(o) \/ JevAnswers(o) \/ JevCancelled(o)
       PROVE  BreakerInv' /\ \A q \in Providers : Spaced(q)
  BY <1>2, <1>10, ConstantsAssumption DEF OutsideCall, JevAnswers, JevCancelled, NoteOutcome
<1>11. ASSUME NEW o \in Outside, JevAsk(o)
       PROVE  BreakerInv' /\ \A q \in Providers : Spaced(q)
  <2>1. PICK c \in Configs :
          breakers' = IF c.enabled
                      THEN [breakers EXCEPT ![JevProvider] =
                              AfterAllow(breakers[JevProvider], c.cooldown_seconds)]
                      ELSE breakers
    BY <1>11 DEF JevAsk
  <2> QED BY <1>1, <1>3, <1>11, <2>1, ConstantsAssumption DEF JevAsk, histVars
<1>12. CASE Tick \/ UNCHANGED vars
  BY <1>3, <1>12 DEF Tick, storeVars, histVars, vars
<1> QED
  BY <1>6, <1>7, <1>8, <1>9, <1>10, <1>11, <1>12 DEF Next, RequestStep, OutsideStep

LEMMA BreakerInit == Init => BreakerInv
  BY DEF Init, BreakerInv, HealthOf, ProbeOf, NewBreaker

\* Signal scoping for every provider, tenant and configuration: only 5xx and
\* timeout outcomes move a breaker towards open.
THEOREM CountsHealth == Spec => []BreakerCountsHealth
<1>1. Init => TInv /\ BreakerInv
  BY TInit, BreakerInit
<1>2. TInv /\ BreakerInv /\ [Next]_vars => (TInv /\ BreakerInv)'
  BY TNext, BreakerNext
<1>3. BreakerInv => BreakerCountsHealth
  BY DEF BreakerInv, BreakerCountsHealth, HealthOf
<1> QED BY <1>1, <1>2, <1>3, PTL DEF Spec

\* A breaker that is not closed admits its probes a cooldown apart.
THEOREM SpacedProbes == Spec => ProbesSpaced
<1>1. Init => TInv /\ BreakerInv
  BY TInit, BreakerInit
<1>2. TInv /\ BreakerInv /\ [Next]_vars => (TInv /\ BreakerInv)'
  BY TNext, BreakerNext
<1>3. TInv /\ BreakerInv /\ [Next]_vars
        => [\A p \in Providers :
              LET before == breakers[p].probe_started_at
              IN  breakers'[p].probe_started_at # before
                    => \/ before = NoProbe
                       \/ \E c \in Configs : now - before >= c.cooldown_seconds]_vars
  BY BreakerNext DEF Spaced
<1> QED BY <1>1, <1>2, <1>3, PTL DEF Spec, ProbesSpaced

-----------------------------------------------------------------------------
(* The lockouts, behind their provider's breaker. *)

\* What a step does to the breakers, the lockouts and the history of failures.
HealthStep ==
    \/ \E r \in Requests : Gating(r) /\ AskGates(r) /\ UNCHANGED <<now, streak, blamed>>
    \/ \E r \in Requests, e \in Errors : pc[r] = "calling" /\ Outcome(r, e) /\ UNCHANGED now
    \/ \E p \in Providers, c \in Configs :
          /\ breakers' = [breakers EXCEPT ![p] = AfterAllow(@, c.cooldown_seconds)]
          /\ UNCHANGED <<now, lockouts, streak, blamed>>
    \/ \E p \in Providers, c \in Configs, e \in Errors :
          NoteOutcome(p, c, e) /\ UNCHANGED <<now, lockouts>>
    \/ UNCHANGED <<breakers, lockouts, streak, blamed>> /\ now' \in {now, now + 1}

LEMMA EveryHealthStep == ASSUME [Next]_vars PROVE HealthStep
<1>1. ASSUME NEW r \in Requests, SkipGated(r) \/ Invoke(r) PROVE HealthStep
  BY <1>1 DEF SkipGated, Invoke, HealthStep, histVars
<1>2. ASSUME NEW r \in Requests, InvokeSucceeds(r) PROVE HealthStep
  BY <1>2 DEF InvokeSucceeds, HealthStep, Errors
<1>3. ASSUME NEW r \in Requests, NEW e \in Errors, InvokeFailsRetry(r, e) \/ InvokeFails(r, e)
      PROVE HealthStep
  BY <1>3 DEF InvokeFailsRetry, InvokeFails, Failed, HealthStep
<1>4. ASSUME NEW r \in Requests,
             Start(r) \/ SkipNoKey(r) \/ Wake(r) \/ Cancel(r) \/ Exhausted(r)
      PROVE HealthStep
  BY <1>4 DEF Start, SkipNoKey, Wake, Cancel, Exhausted, HealthStep, storeVars, histVars
<1>5. ASSUME NEW o \in Outside, OutsideCall(o) \/ JevAnswers(o) \/ JevCancelled(o)
      PROVE HealthStep
  BY <1>5, ConstantsAssumption DEF OutsideCall, JevAnswers, JevCancelled, HealthStep, Errors
<1>6. ASSUME NEW o \in Outside, JevAsk(o) PROVE HealthStep
  <2>1. PICK c \in Configs :
          breakers' = IF c.enabled
                      THEN [breakers EXCEPT ![JevProvider] =
                              AfterAllow(breakers[JevProvider], c.cooldown_seconds)]
                      ELSE breakers
    BY <1>6 DEF JevAsk
  <2> QED BY <1>6, <2>1, ConstantsAssumption DEF JevAsk, HealthStep, histVars
<1>7. CASE Tick \/ UNCHANGED vars
  BY <1>7 DEF Tick, HealthStep, storeVars, histVars, vars
<1> QED
  BY <1>1, <1>2, <1>3, <1>4, <1>5, <1>6, <1>7 DEF Next, RequestStep, OutsideStep

\* The fields of a breaker that was asked.
LEMMA AskedFields ==
    ASSUME NEW b \in CircuitBreaker, NEW n \in Nat, now \in Nat
    PROVE  LET after == AfterAllow(b, n)
               probes == b.state # "closed" /\ Allows(b, n)
           IN  /\ after.opened_at = b.opened_at /\ after.failures = b.failures
               /\ probes => after.state = "half_open" /\ after.probe_started_at = now
               /\ ~probes => after = b
<1>1. CASE b.state # "closed" /\ Allows(b, n)
  <2>1. AfterAllow(b, n) = [b EXCEPT !.state = "half_open", !.probe_started_at = now]
    BY <1>1 DEF AfterAllow
  <2> QED BY <1>1, <2>1 DEF CircuitBreaker
<1>2. CASE ~(b.state # "closed" /\ Allows(b, n))
  BY <1>2 DEF AfterAllow
<1> QED BY <1>1, <1>2

\* The deployment has one tuning: the tenants' thresholds agree, and a model is
\* locked no longer than its provider cools down.
OneTuning ==
    \A c, d \in Configs :
        /\ c.failure_threshold = d.failure_threshold
        /\ c.model_lockout_seconds <= d.cooldown_seconds

\* Since when a breaker that is not closed keeps callers out.
Since(b) == IF b.state = "open" THEN b.opened_at ELSE b.probe_started_at

\* Of a breaker b and the lockout k of one of its provider's models, k keeps callers
\* out since no later than b does; and a failure opens b again.
Behind(b, k, t) ==
    /\ k.opened_at <= t /\ k.probe_started_at <= t
    /\ b.state # "closed" =>
         /\ \A c \in Configs : b.failures + 1 >= c.failure_threshold
         /\ k.state = "open" => k.opened_at <= Since(b)
         /\ k.state = "half_open" => k.probe_started_at <= Since(b)

BehindInv == \A m \in Models : Behind(breakers[ProviderOf[m]], lockouts[m], now)

\* What keeps a model's callers out keeps them out no longer than its provider does.
LEMMA BehindAllows ==
    ASSUME OneTuning, NEW c \in Configs, NEW b \in CircuitBreaker, NEW k \in CircuitBreaker,
           now \in Nat, Behind(b, k, now), b.state # "closed",
           Allows(b, c.cooldown_seconds)
    PROVE  Allows(k, c.model_lockout_seconds)
<1>1. /\ c.cooldown_seconds \in Nat /\ c.model_lockout_seconds \in Nat
      /\ c.model_lockout_seconds <= c.cooldown_seconds
  BY ConstantsAssumption DEF Config, OneTuning
<1>2. k.state \in BreakerStates /\ b.state \in BreakerStates
      /\ k.opened_at \in Nat /\ b.opened_at \in Nat
      /\ k.probe_started_at \in Nat \cup {-1} /\ b.probe_started_at \in Nat \cup {-1}
  BY DEF CircuitBreaker
<1>3. CASE b.state = "open"
  BY <1>1, <1>2, <1>3 DEF Behind, Since, Allows, BreakerStates
<1>4. CASE b.state = "half_open"
  BY <1>1, <1>2, <1>4 DEF Behind, Since, Allows, BreakerStates
<1> QED BY <1>2, <1>3, <1>4 DEF BreakerStates

\* Asking the breaker, and asking the lockout after it let the caller through.
LEMMA AskBehind ==
    ASSUME NEW c \in Configs, NEW b \in CircuitBreaker, NEW k \in CircuitBreaker,
           now \in Nat, Behind(b, k, now)
    PROVE  LET after == AfterAllow(b, c.cooldown_seconds)
           IN  /\ Behind(after, k, now)
               /\ Allows(b, c.cooldown_seconds) =>
                     Behind(after, AfterAllow(k, c.model_lockout_seconds), now)
<1> DEFINE after == AfterAllow(b, c.cooldown_seconds)
           asked == AfterAllow(k, c.model_lockout_seconds)
<1>1. c.cooldown_seconds \in Nat /\ c.model_lockout_seconds \in Nat
  BY ConstantsAssumption DEF Config
<1>2. /\ after.opened_at = b.opened_at /\ after.failures = b.failures
      /\ b.state # "closed" /\ Allows(b, c.cooldown_seconds) =>
            after.state = "half_open" /\ after.probe_started_at = now
      /\ ~(b.state # "closed" /\ Allows(b, c.cooldown_seconds)) => after = b
  BY <1>1, AskedFields
<1>3. /\ asked.opened_at = k.opened_at
      /\ \/ asked.state = "half_open" /\ asked.probe_started_at = now
         \/ asked = k
  BY <1>1, AskedFields
<1> HIDE DEF after, asked
<1>4. Behind(after, k, now)
  BY <1>2 DEF Behind, Since
<1>5. ASSUME Allows(b, c.cooldown_seconds) PROVE Behind(after, asked, now)
  <2>1. after.state # "closed" => after.state = "half_open" /\ after.probe_started_at = now
    BY <1>2, <1>5
  <2>2. CASE asked = k
    BY <1>4, <2>2
  <2>3. CASE asked.state = "half_open" /\ asked.probe_started_at = now
    BY <1>3, <1>4, <2>1, <2>3 DEF Behind, Since
  <2> QED BY <1>3, <2>2, <2>3
<1> QED BY <1>4, <1>5 DEF after, asked

\* Telling both how a call ended, or the breaker alone.
LEMMA FeedBehind ==
    ASSUME OneTuning, NEW c \in Configs, NEW e, NEW b \in CircuitBreaker,
           NEW k \in CircuitBreaker, now \in Nat, Behind(b, k, now)
    PROVE  /\ Behind(Fed(b, c, e), k, now)
           /\ Behind(Fed(b, c, e), LockoutFed(k, c, e), now)
<1> DEFINE fed == Fed(b, c, e)
           told == LockoutFed(k, c, e)
<1>1. c.failure_threshold \in Nat /\ c.model_failure_threshold \in Nat
  BY ConstantsAssumption DEF Config
<1>2. \A d \in Configs : d.failure_threshold = c.failure_threshold
  BY DEF OneTuning
<1>3. CASE c.enabled /\ e = "none"
  <2>1. fed.state = "closed"
    BY <1>3 DEF Fed, RecordSuccess, CircuitBreaker
  <2>2. told.opened_at = k.opened_at /\ told.probe_started_at = k.probe_started_at
    BY <1>3 DEF LockoutFed, RecordSuccess, CircuitBreaker
  <2> HIDE DEF fed, told
  <2>3. Behind(fed, k, now) /\ Behind(fed, told, now)
    BY <2>1, <2>2 DEF Behind
  <2> QED BY <2>3 DEF fed, told
<1>4. CASE c.enabled /\ e = "transient"
  <2>1. fed = RecordFailure(b, c.failure_threshold)
    BY <1>4 DEF Fed
  <2>2. \/ fed.state = "closed"
        \/ fed.state = "open" /\ fed.opened_at = now
             /\ fed.failures + 1 >= c.failure_threshold
    <3>1. b.failures \in Nat /\ b.state \in BreakerStates
      BY DEF CircuitBreaker
    <3>2. CASE b.state = "half_open"
      <4>1. fed = [b EXCEPT !.state = "open", !.opened_at = now]
        BY <2>1, <3>2 DEF RecordFailure
      <4>2. fed.state = "open" /\ fed.opened_at = now /\ fed.failures = b.failures
        BY <4>1 DEF CircuitBreaker
      <4> QED BY <3>2, <4>2 DEF Behind
    <3>3. CASE b.state # "half_open" /\ b.failures + 1 >= c.failure_threshold
      <4>1. fed = [b EXCEPT !.failures = @ + 1, !.state = "open", !.opened_at = now]
        BY <2>1, <3>3 DEF RecordFailure
      <4>2. fed.state = "open" /\ fed.opened_at = now /\ fed.failures = b.failures + 1
        BY <4>1 DEF CircuitBreaker
      <4> QED BY <1>1, <3>1, <3>3, <4>2
    <3>4. CASE b.state # "half_open" /\ ~(b.failures + 1 >= c.failure_threshold)
      <4>1. b.state = "closed"
        BY <3>1, <3>4 DEF Behind, BreakerStates
      <4> QED BY <1>1, <2>1, <3>1, <3>4, <4>1, FailureFields
    <3> QED BY <3>2, <3>3, <3>4
  <2>3. /\ told.probe_started_at = k.probe_started_at
        /\ told.opened_at \in {k.opened_at, now}
    BY <1>1, <1>4, FailureFields DEF LockoutFed
  <2>4. k.opened_at \in Nat
    BY DEF CircuitBreaker
  <2> HIDE DEF fed, told
  <2>5. Behind(fed, k, now) /\ Behind(fed, told, now)
    BY <1>2, <2>2, <2>3, <2>4 DEF Behind, Since
  <2> QED BY <2>5 DEF fed, told
<1>5. CASE ~(c.enabled /\ e \in {"none", "transient"})
  <2>1. fed = b /\ told = k
    BY <1>5 DEF Fed, LockoutFed
  <2> QED BY <2>1
<1> QED BY <1>3, <1>4, <1>5

LEMMA BehindNext ==
    ASSUME OneTuning, TInv, BehindInv, [Next]_vars
    PROVE  BehindInv'
<1> USE DEF TInv
<1>1. HealthStep
  BY EveryHealthStep
<1>2. \A m \in Models : ProviderOf[m] \in Providers
  BY ConstantsAssumption
<1>3. /\ now \in Nat
      /\ \A m \in Models : lockouts[m] \in CircuitBreaker
      /\ \A p \in Providers : breakers[p] \in CircuitBreaker
  BY DEF TypeOK
<1>4. ASSUME NEW m \in Models PROVE Behind(breakers[ProviderOf[m]], lockouts[m], now)
  BY DEF BehindInv
<1> SUFFICES ASSUME NEW m \in Models
             PROVE  Behind(breakers'[ProviderOf[m]], lockouts'[m], now')
  BY DEF BehindInv
<1> DEFINE b == breakers[ProviderOf[m]]
           k == lockouts[m]
<1>5. b \in CircuitBreaker /\ k \in CircuitBreaker /\ Behind(b, k, now)
  BY <1>2, <1>3, <1>4
<1>6. ASSUME NEW r \in Requests, Gating(r), AskGates(r), UNCHANGED <<now, streak, blamed>>
      PROVE  Behind(breakers'[ProviderOf[m]], lockouts'[m], now')
  <2>1. /\ CurProvider(r) = ProviderOf[Cur(r).model] /\ CurProvider(r) \in Providers
        /\ Cur(r).model \in Models /\ Cfg(r) \in Configs
    BY <1>6, CurType, CfgType DEF Gating, CurProvider
  <2>2. \/ breakers'[ProviderOf[m]] = b
        \/ breakers'[ProviderOf[m]] = AfterAllow(b, Cfg(r).cooldown_seconds)
    BY <1>2, <1>6, <2>1 DEF AskGates, TypeOK
  <2>3. \/ lockouts'[m] = k
        \/ /\ lockouts'[m] = AfterAllow(k, Cfg(r).model_lockout_seconds)
           /\ breakers'[ProviderOf[m]] = AfterAllow(b, Cfg(r).cooldown_seconds)
           /\ Allows(b, Cfg(r).cooldown_seconds)
    BY <1>2, <1>6, <2>1 DEF AskGates, BreakerGate, TypeOK
  <2>4. /\ Behind(AfterAllow(b, Cfg(r).cooldown_seconds), k, now)
        /\ Allows(b, Cfg(r).cooldown_seconds) =>
             Behind(AfterAllow(b, Cfg(r).cooldown_seconds),
                    AfterAllow(k, Cfg(r).model_lockout_seconds), now)
    BY <1>3, <1>5, <2>1, AskBehind
  <2> HIDE DEF b, k
  <2> QED BY <1>5, <1>6, <2>2, <2>3, <2>4
<1>7. ASSUME NEW r \in Requests, NEW e \in Errors, pc[r] = "calling", Outcome(r, e), UNCHANGED now
      PROVE  Behind(breakers'[ProviderOf[m]], lockouts'[m], now')
  <2>1. /\ CurProvider(r) = ProviderOf[Cur(r).model] /\ CurProvider(r) \in Providers
        /\ Cur(r).model \in Models /\ Cfg(r) \in Configs
    BY <1>7, CurType, CfgType DEF AtTarget, CurProvider
  <2>2. \/ breakers'[ProviderOf[m]] = b /\ Cur(r).model # m
        \/ breakers'[ProviderOf[m]] = Fed(b, Cfg(r), e)
    BY <1>2, <1>7, <2>1 DEF Outcome, TypeOK
  <2>3. \/ lockouts'[m] = k /\ Cur(r).model # m
        \/ lockouts'[m] = LockoutFed(k, Cfg(r), e) /\ Cur(r).model = m
    BY <1>7, <2>1 DEF Outcome, TypeOK
  <2>4. Behind(Fed(b, Cfg(r), e), k, now) /\ Behind(Fed(b, Cfg(r), e), LockoutFed(k, Cfg(r), e), now)
    BY <1>3, <1>5, <2>1, FeedBehind
  <2> HIDE DEF b, k
  <2> QED BY <1>5, <1>7, <2>2, <2>3, <2>4
<1>8. ASSUME NEW p \in Providers, NEW c \in Configs,
             breakers' = [breakers EXCEPT ![p] = AfterAllow(@, c.cooldown_seconds)],
             UNCHANGED <<now, lockouts>>
      PROVE  Behind(breakers'[ProviderOf[m]], lockouts'[m], now')
  <2>1. breakers'[ProviderOf[m]] \in {b, AfterAllow(b, c.cooldown_seconds)} /\ lockouts'[m] = k
    BY <1>2, <1>8 DEF TypeOK
  <2>2. Behind(AfterAllow(b, c.cooldown_seconds), k, now)
    BY <1>3, <1>5, AskBehind
  <2> HIDE DEF b, k
  <2> QED BY <1>5, <1>8, <2>1, <2>2
<1>9. ASSUME NEW p \in Providers, NEW c \in Configs, NEW e \in Errors,
             NoteOutcome(p, c, e), UNCHANGED <<now, lockouts>>
      PROVE  Behind(breakers'[ProviderOf[m]], lockouts'[m], now')
  <2>1. breakers'[ProviderOf[m]] \in {b, Fed(b, c, e)} /\ lockouts'[m] = k
    BY <1>2, <1>9 DEF NoteOutcome, TypeOK
  <2>2. Behind(Fed(b, c, e), k, now)
    BY <1>3, <1>5, FeedBehind
  <2> HIDE DEF b, k
  <2> QED BY <1>5, <1>9, <2>1, <2>2
<1>10. ASSUME UNCHANGED <<breakers, lockouts>>, now' \in {now, now + 1}
       PROVE  Behind(breakers'[ProviderOf[m]], lockouts'[m], now')
  <2>1. k.opened_at \in Nat /\ k.probe_started_at \in Int
    BY <1>5 DEF CircuitBreaker
  <2>2. k.opened_at <= now' /\ k.probe_started_at <= now'
    BY <1>3, <1>5, <1>10, <2>1 DEF Behind
  <2> HIDE DEF b, k
  <2>3. Behind(b, k, now')
    BY <1>5, <2>2 DEF Behind
  <2> QED BY <1>10, <2>3 DEF b, k
<1> QED BY <1>1, <1>6, <1>7, <1>8, <1>9, <1>10 DEF HealthStep

LEMMA BehindInit == Init => BehindInv
BY ConstantsAssumption DEF Init, BehindInv, Behind, NewBreaker

\* Whom the failures since a provider's last success are charged to, and that the
\* lockout of a model which alone is charged counts as many as the breaker.
BlameOf(p) ==
    /\ streak[p] = 0 <=> blamed[p] = {}
    /\ \A m \in blamed[p] : m # "outside" => ProviderOf[m] = p
    /\ LockoutTuned => \A m \in Models : blamed[p] = {m} =>
          \/ lockouts[m].state # "closed"
          \/ breakers[p].state = "closed" /\ lockouts[m].failures >= streak[p]

BlameInv == \A p \in Providers : BlameOf(p)

\* A step that leaves a provider's history alone, and closes none of its breakers.
LEMMA BlameLeft ==
    ASSUME NEW q \in Providers, BlameOf(q), streak'[q] = streak[q], blamed'[q] = blamed[q],
           breakers[q].state = "closed" => breakers'[q].state = "closed",
           \A m \in Models : ProviderOf[m] = q =>
               /\ lockouts[m].state # "closed" => lockouts'[m].state # "closed"
               /\ lockouts'[m].failures = lockouts[m].failures
    PROVE  BlameOf(q)'
<1>1. \A m \in Models : blamed[q] = {m} => ProviderOf[m] = q
  BY ConstantsAssumption DEF BlameOf
<1> QED BY <1>1 DEF BlameOf, LockoutTuned

\* A provider whose failure or success is noted.
LEMMA BlameFed ==
    ASSUME TypeOK, NEW p \in Providers, NEW c \in Configs, NEW e \in Errors,
           NEW source \in Models \cup {"outside"}, BlameOf(p), HealthOf(p),
           Remember(p, c, e, source), breakers'[p] = Fed(breakers[p], c, e),
           source # "outside" => /\ ProviderOf[source] = p
                                 /\ lockouts'[source] = LockoutFed(lockouts[source], c, e),
           \A m \in Models \ {source} : lockouts'[m] = lockouts[m]
    PROVE  BlameOf(p)'
<1>0. /\ c.failure_threshold \in Nat /\ c.model_failure_threshold \in Nat
      /\ breakers[p] \in CircuitBreaker /\ now \in Nat /\ streak[p] \in Nat
      /\ \A m \in Models : lockouts[m] \in CircuitBreaker
  BY ConstantsAssumption DEF TypeOK, Config
<1>1. CASE c.enabled /\ e = "none"
  <2>1. streak'[p] = 0 /\ blamed'[p] = {}
    BY <1>1 DEF Remember, TypeOK
  <2> QED BY <2>1 DEF BlameOf
<1>2. CASE c.enabled /\ e = "transient"
  <2>1. streak'[p] = streak[p] + 1 /\ blamed'[p] = blamed[p] \cup {source}
    BY <1>2 DEF Remember, TypeOK
  <2>2. /\ streak'[p] # 0 /\ blamed'[p] # {}
        /\ \A m \in blamed'[p] : m # "outside" => ProviderOf[m] = p
    BY <1>0, <2>1 DEF BlameOf
  <2>3. ASSUME LockoutTuned, NEW m \in Models, blamed'[p] = {m}, lockouts'[m].state = "closed"
        PROVE  breakers'[p].state = "closed" /\ lockouts'[m].failures >= streak'[p]
    <3>1. m = source /\ m # "outside" /\ blamed[p] \subseteq {m}
      BY <2>1, <2>3, ConstantsAssumption
    <3>2. c.model_lockout /\ c.model_failure_threshold <= c.failure_threshold
      BY <2>3 DEF LockoutTuned
    <3>3. lockouts'[m] = RecordFailure(lockouts[m], c.model_failure_threshold)
      BY <1>2, <3>1, <3>2 DEF LockoutFed
    <3>4. /\ lockouts[m].state = "closed"
          /\ lockouts'[m].failures = lockouts[m].failures + 1
          /\ ~(lockouts[m].failures + 1 >= c.model_failure_threshold)
      BY <1>0, <2>3, <3>3, FailureFields
    <3>5. breakers[p].state = "closed" /\ lockouts[m].failures >= streak[p]
      <4>1. lockouts[m].failures \in Nat
        BY <1>0 DEF CircuitBreaker
      <4>2. CASE blamed[p] = {}
        BY <1>0, <4>1, <4>2 DEF BlameOf, HealthOf
      <4>3. CASE blamed[p] = {m}
        BY <2>3, <3>4, <4>3 DEF BlameOf
      <4> QED BY <3>1, <4>2, <4>3
    <3>6. breakers[p].failures = streak[p]
      BY <3>5 DEF HealthOf
    <3>7. breakers'[p] = RecordFailure(breakers[p], c.failure_threshold)
      BY <1>2 DEF Fed
    <3>8. lockouts[m].failures \in Nat
      BY <1>0 DEF CircuitBreaker
    <3>9. ~(breakers[p].failures + 1 >= c.failure_threshold)
      BY <1>0, <3>2, <3>4, <3>5, <3>6, <3>8
    <3>10. breakers'[p].state = "closed"
      BY <1>0, <3>5, <3>7, <3>9, FailureFields
    <3> QED BY <1>0, <2>1, <3>4, <3>5, <3>8, <3>10
  <2> QED BY <2>2, <2>3 DEF BlameOf, LockoutTuned
<1>3. CASE ~(c.enabled /\ e \in {"none", "transient"})
  <2>1. /\ streak'[p] = streak[p] /\ breakers'[p] = breakers[p]
        /\ blamed'[p] = IF streak[p] = 0 THEN {} ELSE blamed[p]
    BY <1>3 DEF Remember, Fed, TypeOK
  <2>2. blamed'[p] = blamed[p]
    BY <2>1 DEF BlameOf
  <2>3. source # "outside" => lockouts'[source] = lockouts[source]
    BY <1>3 DEF LockoutFed
  <2>4. \A m \in Models : lockouts'[m] = lockouts[m]
    BY <2>3, ConstantsAssumption
  <2> QED BY <2>1, <2>2, <2>4 DEF BlameOf, LockoutTuned
<1> QED BY <1>1, <1>2, <1>3

LEMMA BlameNext ==
    ASSUME TInv, BreakerInv, BlameInv, [Next]_vars
    PROVE  BlameInv'
<1> USE DEF TInv
<1>1. HealthStep
  BY EveryHealthStep
<1>2. /\ now \in Nat
      /\ \A m \in Models : ProviderOf[m] \in Providers /\ lockouts[m] \in CircuitBreaker
      /\ \A p \in Providers : breakers[p] \in CircuitBreaker /\ BlameOf(p) /\ HealthOf(p)
  BY ConstantsAssumption DEF TypeOK, BlameInv, BreakerInv
<1> SUFFICES ASSUME NEW q \in Providers PROVE BlameOf(q)'
  BY DEF BlameInv
<1>3. ASSUME NEW n \in Nat, NEW b \in CircuitBreaker
      PROVE  /\ b.state = "closed" => AfterAllow(b, n).state = "closed"
             /\ b.state # "closed" => AfterAllow(b, n).state # "closed"
             /\ AfterAllow(b, n).failures = b.failures
  BY <1>2, AskedFields
<1>4. \A c \in Configs : c.cooldown_seconds \in Nat /\ c.model_lockout_seconds \in Nat
  BY ConstantsAssumption DEF Config
<1>5. ASSUME NEW r \in Requests, Gating(r), AskGates(r), UNCHANGED <<now, streak, blamed>>
      PROVE  BlameOf(q)'
  <2>1. /\ CurProvider(r) \in Providers /\ Cur(r).model \in Models /\ Cfg(r) \in Configs
    BY <1>5, CurType, CfgType DEF Gating
  <2>2. breakers'[q] \in {breakers[q], AfterAllow(breakers[q], Cfg(r).cooldown_seconds)}
    BY <1>5, <2>1 DEF AskGates, TypeOK
  <2>3. \A m \in Models :
           lockouts'[m] \in {lockouts[m], AfterAllow(lockouts[m], Cfg(r).model_lockout_seconds)}
    BY <1>5, <2>1 DEF AskGates, TypeOK
  <2>4. breakers[q].state = "closed" => breakers'[q].state = "closed"
    BY <1>2, <1>3, <1>4, <2>1, <2>2
  <2>5. \A m \in Models :
           /\ lockouts[m].state # "closed" => lockouts'[m].state # "closed"
           /\ lockouts'[m].failures = lockouts[m].failures
    BY <1>2, <1>3, <1>4, <2>1, <2>3
  <2> QED BY <1>2, <1>5, <2>4, <2>5, BlameLeft
<1>6. ASSUME NEW r \in Requests, NEW e \in Errors, pc[r] = "calling", Outcome(r, e), UNCHANGED now
      PROVE  BlameOf(q)'
  <2>1. /\ CurProvider(r) = ProviderOf[Cur(r).model] /\ CurProvider(r) \in Providers
        /\ Cur(r).model \in Models /\ Cfg(r) \in Configs
    BY <1>6, CurType, CfgType DEF AtTarget, CurProvider
  <2>2. /\ Remember(CurProvider(r), Cfg(r), e, Cur(r).model)
        /\ breakers' = [breakers EXCEPT ![CurProvider(r)] = Fed(@, Cfg(r), e)]
        /\ lockouts' = [lockouts EXCEPT ![Cur(r).model] = LockoutFed(@, Cfg(r), e)]
    BY <1>6 DEF Outcome
  <2>3. /\ \A m \in Models \ {Cur(r).model} : lockouts'[m] = lockouts[m]
        /\ lockouts'[Cur(r).model] = LockoutFed(lockouts[Cur(r).model], Cfg(r), e)
    BY <2>1, <2>2 DEF TypeOK
  <2>4. CASE q = CurProvider(r)
    <3>1. breakers'[q] = Fed(breakers[q], Cfg(r), e)
      BY <2>2, <2>4 DEF TypeOK
    <3> QED BY <1>2, <2>1, <2>2, <2>3, <2>4, <3>1, BlameFed
  <2>5. CASE q # CurProvider(r)
    <3>1. /\ breakers'[q] = breakers[q] /\ streak'[q] = streak[q] /\ blamed'[q] = blamed[q]
          /\ \A m \in Models : ProviderOf[m] = q => lockouts'[m] = lockouts[m]
      BY <2>1, <2>2, <2>3, <2>5 DEF TypeOK, Remember
    <3> QED BY <1>2, <3>1, BlameLeft
  <2> QED BY <2>4, <2>5
<1>7. ASSUME NEW p \in Providers, NEW c \in Configs,
             breakers' = [breakers EXCEPT ![p] = AfterAllow(@, c.cooldown_seconds)],
             UNCHANGED <<now, lockouts, streak, blamed>>
      PROVE  BlameOf(q)'
  <2>1. breakers'[q] \in {breakers[q], AfterAllow(breakers[q], c.cooldown_seconds)}
    BY <1>7 DEF TypeOK
  <2>2. breakers[q].state = "closed" => breakers'[q].state = "closed"
    BY <1>2, <1>3, <1>4, <2>1
  <2> QED BY <1>2, <1>7, <2>2, BlameLeft
<1>8. ASSUME NEW p \in Providers, NEW c \in Configs, NEW e \in Errors,
             NoteOutcome(p, c, e), UNCHANGED <<now, lockouts>>
      PROVE  BlameOf(q)'
  <2>1. CASE q = p
    <3>1. breakers'[q] = Fed(breakers[q], c, e) /\ Remember(q, c, e, "outside")
      BY <1>8, <2>1 DEF NoteOutcome, TypeOK
    <3> QED BY <1>2, <1>8, <3>1, BlameFed
  <2>2. CASE q # p
    <3>1. breakers'[q] = breakers[q] /\ streak'[q] = streak[q] /\ blamed'[q] = blamed[q]
      BY <1>8, <2>2 DEF NoteOutcome, TypeOK, Remember
    <3> QED BY <1>2, <1>8, <3>1, BlameLeft
  <2> QED BY <2>1, <2>2
<1>9. ASSUME UNCHANGED <<breakers, lockouts, streak, blamed>> PROVE BlameOf(q)'
  BY <1>2, <1>9, BlameLeft
<1> QED BY <1>1, <1>5, <1>6, <1>7, <1>8, <1>9 DEF HealthStep

LEMMA BlameInit == Init => BlameInv
BY DEF Init, BlameInv, BlameOf, NewBreaker

\* A step that logs a skip leaves every breaker as it was.
LEMMA SkipsLeaveBreakers ==
    ASSUME OneTuning, TInv, BehindInv, [Next]_vars, NEW r \in Requests,
           Len(trail'[r]) > Len(trail[r]), trail'[r][Len(trail'[r])].outcome \in Skips
    PROVE  breakers' = breakers
<1> USE DEF TInv
<1>1. \A s \in Requests : trail[s] \in Seq(AttemptEntry) /\ Len(trail[s]) \in Nat
  BY DEF TypeOK
<1>2. ASSUME NEW s \in Requests, NEW o, Log(s, o), o \notin Skips PROVE FALSE
  <2>1. trail'[r] = IF r = s THEN Append(trail[r], [model |-> Cur(r).model, outcome |-> o])
                             ELSE trail[r]
    BY <1>2 DEF Log, TypeOK
  <2>2. r = s /\ trail'[r] = Append(trail[r], [model |-> Cur(r).model, outcome |-> o])
    BY <1>1, <2>1
  <2>3. trail'[r][Len(trail'[r])].outcome = o
    BY <1>1, <2>2
  <2> QED BY <1>2, <2>3
<1>3. trail' # trail
  BY <1>1
<1>4. ASSUME NEW s \in Requests, SkipNoKey(s) PROVE breakers' = breakers
  BY <1>4 DEF SkipNoKey, storeVars
<1>5. ASSUME NEW s \in Requests, SkipGated(s) PROVE breakers' = breakers
  <2>1. /\ CurProvider(s) = ProviderOf[Cur(s).model] /\ CurProvider(s) \in Providers
        /\ Cur(s).model \in Models /\ Cfg(s) \in Configs /\ Cfg(s).cooldown_seconds \in Nat
    BY <1>5, CurType, CfgType DEF SkipGated, Gating, CurProvider
  <2>2. AskGates(s) /\ Gated(s)
    BY <1>5 DEF SkipGated
  <2> DEFINE b == breakers[CurProvider(s)]
             k == lockouts[Cur(s).model]
  <2>3. b \in CircuitBreaker /\ k \in CircuitBreaker /\ now \in Nat /\ Behind(b, k, now)
    BY <2>1 DEF TypeOK, BehindInv
  <2>4. ASSUME ~CooldownGate(s) PROVE AfterAllow(b, Cfg(s).cooldown_seconds) = b
    <3>1. CASE BreakerGate(s)
      BY <3>1 DEF BreakerGate, AfterAllow
    <3>2. CASE LockoutGate(s)
      <4>1. Allows(b, Cfg(s).cooldown_seconds) /\ ~Allows(k, Cfg(s).model_lockout_seconds)
        BY <2>4, <3>2 DEF LockoutGate, BreakerGate
      <4>2. b.state = "closed"
        BY <2>1, <2>3, <4>1, BehindAllows
      <4> QED BY <4>2 DEF AfterAllow
    <3> QED BY <2>2, <2>4, <3>1, <3>2 DEF Gated
  <2>5. CASE Cfg(s).enabled /\ ~CooldownGate(s)
    <3>1. breakers' = [breakers EXCEPT ![CurProvider(s)] = b]
      BY <2>2, <2>4, <2>5 DEF AskGates
    <3> QED BY <2>1, <3>1 DEF TypeOK
  <2>6. CASE ~(Cfg(s).enabled /\ ~CooldownGate(s))
    BY <2>2, <2>6 DEF AskGates
  <2> QED BY <2>5, <2>6
<1>6. ASSUME NEW s \in Requests, InvokeSucceeds(s) PROVE FALSE
  BY <1>2, <1>6 DEF InvokeSucceeds, Skips
<1>7. ASSUME NEW s \in Requests, NEW e \in Errors, InvokeFails(s, e) PROVE FALSE
  BY <1>2, <1>7 DEF InvokeFails, Skips
<1>8. ASSUME NEW s \in Requests, NEW e \in Errors,
             Start(s) \/ Invoke(s) \/ InvokeFailsRetry(s, e) \/ Wake(s) \/ Cancel(s) \/ Exhausted(s)
      PROVE  FALSE
  BY <1>3, <1>8 DEF Start, Invoke, InvokeFailsRetry, Wake, Cancel, Exhausted
<1>9. ASSUME NEW o \in Outside, OutsideStep(o) PROVE FALSE
  BY <1>3, <1>9 DEF OutsideStep, OutsideCall, JevAsk, JevAnswers, JevCancelled, reqVars
<1>10. ASSUME Tick \/ UNCHANGED vars PROVE FALSE
  BY <1>3, <1>10 DEF Tick, reqVars, vars
<1>11. "none" \in Errors
  BY DEF Errors
<1> QED BY <1>4, <1>5, <1>6, <1>7, <1>8, <1>9, <1>10, <1>11 DEF Next, RequestStep

\* The lockout of a model is the finer gate (call_with_resilience's order of gates, and
\* one outcome for both): under one tuning a target that a lockout skips has not taken its
\* provider's probe, and no provider trips by the failures of a model that is not locked.
THEOREM LockoutAlwaysFiner == OneTuning /\ Spec => LockoutIsFiner
<1> SUFFICES ASSUME OneTuning PROVE Spec => LockoutIsFiner
  OBVIOUS
<1> DEFINE Inv == TInv /\ BreakerInv /\ BehindInv /\ BlameInv
<1>1. Init => Inv
  BY TInit, BreakerInit, BehindInit, BlameInit
<1>2. Inv /\ [Next]_vars => Inv'
  BY TNext, BreakerNext, BehindNext, BlameNext
<1>3. Inv => LockoutPrecedesTrip
  BY DEF BlameInv, BlameOf, LockoutPrecedesTrip
<1>4. Inv' => LockoutPrecedesTrip'
  BY <1>3, PTL
<1>5. Inv /\ [Next]_vars =>
        [\A r \in Requests :
           Len(trail'[r]) > Len(trail[r]) /\ trail'[r][Len(trail'[r])].outcome \in Skips
             => breakers' = breakers]_vars
  BY SkipsLeaveBreakers
<1> HIDE DEF Inv
<1> QED
  BY <1>1, <1>2, <1>4, <1>5, PTL
     DEF Spec, LockoutIsFiner, LockoutClosesFirst, SkippedTargetsTakeNoProbe

-----------------------------------------------------------------------------
(* The trail of a request. *)

\* A cooldown has a 429 of its tenant behind it.
CoolInv == \A t \in Tenants, p \in Providers : cooldowns[t][p] > 0 => p \in limited[t]

\* What the trail holds on the way: the targets passed, none of them answered.
WayOf(r) ==
    /\ pc[r] = "idle" => trail[r] = <<>> /\ idx[r] = 1
    /\ pc[r] \in {"gate", "calling", "backoff"} =>
          /\ Len(trail[r]) = idx[r] - 1
          /\ \A j \in 1 .. idx[r] - 1 : /\ trail[r][j].model = Targets(r)[j].model
                                        /\ trail[r][j].outcome # "success"

WinOf(r) ==
    answer[r] = "served" =>
        /\ Len(trail[r]) = idx[r]
        /\ trail[r][idx[r]] = [model |-> routed[r], outcome |-> "success"]
        /\ \A j \in 1 .. idx[r] : trail[r][j].model = Targets(r)[j].model
        /\ \A j \in 1 .. idx[r] - 1 : trail[r][j].outcome # "success"

Justified(r, entry) ==
    LET p == ProviderOf[entry.model]
    IN  /\ entry.outcome = "skipped_cooldown" => p \in limited[job[r].tenant]
        /\ entry.outcome = "skipped_breaker" => p \in tripped

SkipsOf(r) == \A j \in 1 .. Len(trail[r]) : Justified(r, trail[r][j])

TrailInv == \A r \in Requests : WayOf(r) /\ WinOf(r) /\ SkipsOf(r)

\* What was tripped or limited stays so.
LEMMA OnlyGrows ==
    ASSUME TInv, [Next]_vars
    PROVE  /\ tripped \subseteq tripped'
           /\ \A t \in Tenants : limited[t] \subseteq limited'[t]
<1> USE DEF TInv
<1>1. ASSUME NEW p \in Providers, NEW c, NEW e, NEW m, Remember(p, c, e, m)
      PROVE  tripped \subseteq tripped'
  BY <1>1 DEF Remember
<1>2. ASSUME NEW r \in Requests, NEW e, pc[r] = "calling", Outcome(r, e)
      PROVE  tripped \subseteq tripped'
  <2>1. CurProvider(r) \in Providers
    BY <1>2, CurType DEF AtTarget
  <2> QED BY <1>1, <1>2, <2>1 DEF Outcome
<1>3. ASSUME NEW r \in Requests, NEW e \in Errors, InvokeFails(r, e)
      PROVE  /\ tripped \subseteq tripped'
             /\ \A t \in Tenants : limited[t] \subseteq limited'[t]
  <2>1. tripped \subseteq tripped'
    BY <1>2, <1>3 DEF InvokeFails, Failed
  <2>2. \/ limited' = [limited EXCEPT ![job[r].tenant] = @ \cup {CurProvider(r)}]
        \/ limited' = limited
    BY <1>3 DEF InvokeFails
  <2>3. limited \in [Tenants -> SUBSET Providers]
    BY DEF TypeOK
  <2> QED BY <2>1, <2>2, <2>3
<1>4. ASSUME NEW r \in Requests, InvokeSucceeds(r)
      PROVE  tripped \subseteq tripped' /\ limited' = limited
  BY <1>2, <1>4 DEF InvokeSucceeds
<1>5. ASSUME NEW r \in Requests, NEW e \in Errors, InvokeFailsRetry(r, e)
      PROVE  tripped \subseteq tripped' /\ limited' = limited
  BY <1>2, <1>5 DEF InvokeFailsRetry, Failed
<1>6. ASSUME NEW r \in Requests,
             Start(r) \/ SkipNoKey(r) \/ SkipGated(r) \/ Invoke(r) \/ Wake(r) \/ Cancel(r) \/ Exhausted(r)
      PROVE  tripped' = tripped /\ limited' = limited
  BY <1>6 DEF Start, SkipNoKey, SkipGated, Invoke, Wake, Cancel, Exhausted, histVars
<1>7. ASSUME NEW o \in Outside, OutsideStep(o)
      PROVE  tripped \subseteq tripped' /\ limited' = limited
  BY <1>1, <1>7, ConstantsAssumption
     DEF OutsideStep, OutsideCall, JevAsk, JevAnswers, JevCancelled, NoteOutcome, histVars
<1>8. ASSUME Tick \/ UNCHANGED vars PROVE tripped' = tripped /\ limited' = limited
  BY <1>8 DEF Tick, histVars, vars
<1> QED BY <1>3, <1>4, <1>5, <1>6, <1>7, <1>8 DEF Next, RequestStep

LEMMA CoolNext ==
    ASSUME TInv, CoolInv, [Next]_vars
    PROVE  CoolInv'
<1> USE DEF TInv
<1>1. \A t \in Tenants : limited[t] \subseteq limited'[t]
  BY OnlyGrows
<1>2. ASSUME cooldowns' = cooldowns PROVE CoolInv'
  BY <1>1, <1>2 DEF CoolInv
<1>3. ASSUME NEW r \in Requests, NEW e \in Errors, InvokeFails(r, e) PROVE CoolInv'
  <2>1. job[r].tenant \in Tenants /\ CurProvider(r) \in Providers
    BY <1>3, CurType, CfgType DEF InvokeFails, AtTarget
  <2>2. CASE Cfg(r).enabled /\ e = "rate_limit"
    <3>1. /\ cooldowns' = [cooldowns EXCEPT ![job[r].tenant][CurProvider(r)] =
                              now + Cfg(r).cooldown_seconds]
          /\ limited' = [limited EXCEPT ![job[r].tenant] = @ \cup {CurProvider(r)}]
      BY <1>3, <2>2 DEF InvokeFails
    <3>2. ASSUME NEW t \in Tenants, NEW p \in Providers, cooldowns'[t][p] > 0
          PROVE  p \in limited'[t]
      <4>1. CASE t = job[r].tenant /\ p = CurProvider(r)
        BY <2>1, <3>1, <4>1 DEF TypeOK
      <4>2. CASE ~(t = job[r].tenant /\ p = CurProvider(r))
        <5>1. cooldowns'[t][p] = cooldowns[t][p]
          BY <2>1, <3>1, <4>2 DEF TypeOK
        <5> QED BY <1>1, <3>2, <5>1 DEF CoolInv
      <4> QED BY <4>1, <4>2
    <3> QED BY <3>2 DEF CoolInv
  <2>3. CASE ~(Cfg(r).enabled /\ e = "rate_limit")
    BY <1>2, <1>3, <2>3 DEF InvokeFails
  <2> QED BY <2>2, <2>3
<1>4. ASSUME NEW r \in Requests, NEW e \in Errors,
             Start(r) \/ SkipNoKey(r) \/ SkipGated(r) \/ Invoke(r) \/ InvokeSucceeds(r)
               \/ InvokeFailsRetry(r, e) \/ Wake(r) \/ Cancel(r) \/ Exhausted(r)
      PROVE  CoolInv'
  BY <1>2, <1>4 DEF Start, SkipNoKey, SkipGated, Invoke, InvokeSucceeds, InvokeFailsRetry,
                    Wake, Cancel, Exhausted, storeVars
<1>5. ASSUME NEW o \in Outside, OutsideStep(o) PROVE CoolInv'
  BY <1>2, <1>5 DEF OutsideStep, OutsideCall, JevAsk, JevAnswers, JevCancelled
<1>6. ASSUME Tick \/ UNCHANGED vars PROVE CoolInv'
  BY <1>2, <1>6 DEF Tick, storeVars, vars
<1>7. "none" \in Errors
  BY DEF Errors
<1> QED BY <1>3, <1>4, <1>5, <1>6, <1>7 DEF Next, RequestStep

\* A step that leaves a request's trail alone, or starts it.
LEMMA TrailLeft ==
    ASSUME TInv, TrailInv, [Next]_vars, NEW s \in Requests, trail'[s] = trail[s],
           idx'[s] = idx[s], answer'[s] = "served" => answer[s] = "served" /\ routed'[s] = routed[s],
           \/ job'[s] = job[s] /\ (pc'[s] = pc[s] \/ pc[s] \in {"gate", "calling", "backoff"})
                /\ pc'[s] # "idle"
           \/ job'[s] = job[s] /\ pc'[s] = pc[s]
           \/ pc[s] = "idle" /\ pc'[s] = "gate" /\ answer'[s] = "none"
    PROVE  WayOf(s)' /\ WinOf(s)' /\ SkipsOf(s)'
<1>1. WayOf(s) /\ WinOf(s) /\ SkipsOf(s)
  BY DEF TrailInv
<1>2. pc'[s] \in {"idle", "gate", "calling", "backoff", "done"}
      /\ trail[s] \in Seq(AttemptEntry)
  BY TNext DEF TInv, TypeOK
<1>3. CASE pc[s] = "idle" /\ pc'[s] = "gate" /\ answer'[s] = "none"
  <2>1. trail'[s] = <<>> /\ idx'[s] = 1
    BY <1>1, <1>3 DEF WayOf
  <2> QED BY <1>3, <2>1 DEF WayOf, WinOf, SkipsOf
<1>4. CASE job'[s] = job[s]
  <2>1. Targets(s)' = Targets(s)
    BY <1>4 DEF Targets
  <2>2. SkipsOf(s)'
    <3>1. job[s].tenant \in Tenants
      BY CfgType DEF TInv
    <3> QED BY <1>1, <1>4, <3>1, OnlyGrows DEF SkipsOf, Justified
  <2>3. WinOf(s)'
    BY <1>1, <2>1 DEF WinOf
  <2>4. WayOf(s)'
    BY <1>1, <2>1 DEF WayOf
  <2> QED BY <2>2, <2>3, <2>4
<1> QED BY <1>3, <1>4

\* A step that logs how a target was passed, or that it answered.
LEMMA TrailLogged ==
    ASSUME TInv, TrailInv, [Next]_vars, NEW r \in Requests, idx[r] <= Len(Targets(r)),
           pc[r] \in {"gate", "calling"}, NEW o \in Skips \cup {"error", "success"}, Log(r, o),
           UNCHANGED job, Justified(r, [model |-> Cur(r).model, outcome |-> o]),
           o # "success" => /\ idx' = [idx EXCEPT ![r] = @ + 1] \/ pc'[r] = "done"
                            /\ answer'[r] # "served" /\ pc'[r] # "idle",
           o = "success" => /\ UNCHANGED idx /\ pc'[r] = "done"
                            /\ routed'[r] = Cur(r).model
    PROVE  WayOf(r)' /\ WinOf(r)' /\ SkipsOf(r)'
<1> DEFINE entry == [model |-> Cur(r).model, outcome |-> o]
<1>1. /\ trail[r] \in Seq(AttemptEntry) /\ trail'[r] = Append(trail[r], entry)
      /\ idx[r] \in Nat \ {0} /\ Targets(r)' = Targets(r) /\ Cur(r) = Targets(r)[idx[r]]
  BY DEF TInv, TypeOK, Log, Targets, Cur
<1>2. /\ Len(trail[r]) = idx[r] - 1
      /\ \A j \in 1 .. idx[r] - 1 : /\ trail[r][j].model = Targets(r)[j].model
                                    /\ trail[r][j].outcome # "success"
      /\ \A j \in 1 .. Len(trail[r]) : Justified(r, trail[r][j])
  BY DEF TrailInv, WayOf, SkipsOf
<1>3. /\ Len(trail'[r]) = idx[r] /\ trail'[r][idx[r]] = entry
      /\ \A j \in 1 .. idx[r] - 1 : trail'[r][j] = trail[r][j]
  BY <1>1, <1>2
<1>4. \A j \in 1 .. idx[r] : trail'[r][j].model = Targets(r)[j].model
  BY <1>1, <1>2, <1>3
<1>5. SkipsOf(r)'
  <2>1. job[r].tenant \in Tenants
    BY CfgType DEF TInv
  <2>2. \A j \in 1 .. Len(trail'[r]) : Justified(r, trail'[r][j])
    BY <1>1, <1>2, <1>3
  <2> QED BY <2>1, <2>2, OnlyGrows DEF SkipsOf, Justified
<1>6. CASE o = "success"
  BY <1>1, <1>2, <1>3, <1>4, <1>5, <1>6 DEF WayOf, WinOf
<1>7. CASE o # "success"
  <2>1. WinOf(r)'
    BY <1>7 DEF WinOf
  <2>2. CASE pc'[r] = "done"
    BY <1>5, <2>1, <2>2 DEF WayOf
  <2>3. CASE idx' = [idx EXCEPT ![r] = @ + 1]
    <3>1. idx'[r] - 1 = idx[r]
      BY <1>1, <2>3 DEF TInv, TypeOK
    <3>2. \A j \in 1 .. idx[r] : trail'[r][j].outcome # "success"
      BY <1>1, <1>2, <1>3, <1>7
    <3> QED BY <1>1, <1>3, <1>4, <1>5, <1>7, <2>1, <3>1, <3>2 DEF WayOf
  <2> QED BY <1>7, <2>2, <2>3
<1> QED BY <1>6, <1>7

\* What a step of one request leaves of another.
LEMMA OthersUntouched ==
    ASSUME TInv, NEW r \in Requests, NEW s \in Requests, s # r, NEW e \in Errors,
           \/ Start(r) \/ SkipNoKey(r) \/ SkipGated(r) \/ Invoke(r) \/ InvokeSucceeds(r)
           \/ InvokeFailsRetry(r, e) \/ InvokeFails(r, e) \/ Wake(r) \/ Cancel(r) \/ Exhausted(r)
    PROVE  /\ pc'[s] = pc[s] /\ job'[s] = job[s] /\ idx'[s] = idx[s]
           /\ trail'[s] = trail[s] /\ answer'[s] = answer[s] /\ routed'[s] = routed[s]
<1> USE DEF TInv, TypeOK
<1>1. CASE Start(r)
  BY <1>1 DEF Start
<1>2. CASE SkipNoKey(r)
  BY <1>2 DEF SkipNoKey, Log, NextTarget
<1>3. CASE SkipGated(r)
  BY <1>3 DEF SkipGated, Log, NextTarget
<1>4. CASE Invoke(r)
  BY <1>4 DEF Invoke
<1>5. CASE InvokeSucceeds(r)
  BY <1>5 DEF InvokeSucceeds, Log, PinWinner, Finish
<1>6. CASE InvokeFailsRetry(r, e)
  BY <1>6 DEF InvokeFailsRetry
<1>7. CASE InvokeFails(r, e)
  BY <1>7 DEF InvokeFails, Log, Finish, NextTarget
<1>8. CASE Wake(r)
  BY <1>8 DEF Wake
<1>9. CASE Cancel(r)
  BY <1>9 DEF Cancel, Finish
<1>10. CASE Exhausted(r)
  BY <1>10 DEF Exhausted, Finish
<1> QED BY <1>1, <1>2, <1>3, <1>4, <1>5, <1>6, <1>7, <1>8, <1>9, <1>10

LEMMA TrailNext ==
    ASSUME TInv, StarveInv, BreakerInv, CoolInv, TrailInv, [Next]_vars
    PROVE  TrailInv'
<1> DEFINE Kept(s) == WayOf(s)' /\ WinOf(s)' /\ SkipsOf(s)'
<1> USE DEF TInv
<1>0. \A s \in Requests : pc[s] # "done" => answer[s] = "none"
  BY DEF StarveInv
<1>1. ASSUME UNCHANGED <<pc, job, idx, trail, answer, routed>> PROVE TrailInv'
  BY <1>1, TrailLeft DEF TrailInv
<1>2. ASSUME NEW r \in Requests, NEW e \in Errors, Kept(r),
             \/ Start(r) \/ SkipNoKey(r) \/ SkipGated(r) \/ Invoke(r) \/ InvokeSucceeds(r)
             \/ InvokeFailsRetry(r, e) \/ InvokeFails(r, e) \/ Wake(r) \/ Cancel(r) \/ Exhausted(r)
      PROVE  TrailInv'
  <2>1. ASSUME NEW s \in Requests, s # r PROVE Kept(s)
    <3>1. /\ pc'[s] = pc[s] /\ job'[s] = job[s] /\ idx'[s] = idx[s]
          /\ trail'[s] = trail[s] /\ answer'[s] = answer[s] /\ routed'[s] = routed[s]
      BY <1>2, <2>1, OthersUntouched
    <3> QED BY <3>1, TrailLeft
  <2> QED BY <1>2, <2>1 DEF TrailInv
<1>3. "none" \in Errors
  BY DEF Errors
<1>4. ASSUME NEW r \in Requests, Start(r) PROVE TrailInv'
  <2>1. /\ pc[r] = "idle" /\ pc'[r] = "gate" /\ answer'[r] = "none"
        /\ trail'[r] = trail[r] /\ idx'[r] = idx[r]
    BY <1>0, <1>4 DEF Start, TypeOK
  <2>2. Kept(r)
    BY <2>1, TrailLeft
  <2> QED BY <1>2, <1>3, <1>4, <2>2
<1>5. ASSUME NEW r \in Requests, SkipNoKey(r) PROVE TrailInv'
  <2>1. /\ idx[r] <= Len(Targets(r)) /\ pc[r] = "gate" /\ pc'[r] = "gate"
        /\ Log(r, "skipped_no_key") /\ UNCHANGED job /\ answer'[r] = "none"
        /\ idx' = [idx EXCEPT ![r] = @ + 1]
    BY <1>0, <1>5 DEF SkipNoKey, Gating, NextTarget, TypeOK
  <2>2. Justified(r, [model |-> Cur(r).model, outcome |-> "skipped_no_key"])
    BY DEF Justified
  <2>3. Kept(r)
    BY <2>1, <2>2, TrailLogged DEF Skips
  <2> QED BY <1>2, <1>3, <1>5, <2>3
<1>6. ASSUME NEW r \in Requests, SkipGated(r) PROVE TrailInv'
  <2>1. /\ idx[r] <= Len(Targets(r)) /\ pc[r] = "gate" /\ pc'[r] = "gate"
        /\ UNCHANGED job /\ answer'[r] = "none"
        /\ idx' = [idx EXCEPT ![r] = @ + 1]
    BY <1>0, <1>6 DEF SkipGated, Gating, NextTarget, TypeOK
  <2>2. /\ CurProvider(r) \in Providers /\ job[r].tenant \in Tenants
        /\ CurProvider(r) = ProviderOf[Cur(r).model]
    BY <2>1, CurType, CfgType DEF CurProvider
  <2>3. PICK o \in {"skipped_cooldown", "skipped_breaker", "skipped_model_lockout"} :
          /\ Log(r, o)
          /\ o = "skipped_cooldown" => CooldownGate(r)
          /\ o = "skipped_breaker" => BreakerGate(r)
    BY <1>6 DEF SkipGated
  <2>4. Justified(r, [model |-> Cur(r).model, outcome |-> o])
    <3>1. CooldownGate(r) => CurProvider(r) \in limited[job[r].tenant]
      BY <2>2 DEF CooldownGate, in_cooldown, CoolInv, TypeOK
    <3>2. BreakerGate(r) => CurProvider(r) \in tripped
      BY <2>2 DEF BreakerGate, Allows, BreakerInv, HealthOf
    <3> QED BY <2>2, <2>3, <3>1, <3>2 DEF Justified
  <2>5. Kept(r)
    BY <2>1, <2>3, <2>4, TrailLogged DEF Skips
  <2> QED BY <1>2, <1>3, <1>6, <2>5
<1>7. ASSUME NEW r \in Requests, InvokeSucceeds(r) PROVE TrailInv'
  <2>1. /\ idx[r] <= Len(Targets(r)) /\ pc[r] = "calling" /\ pc'[r] = "done"
        /\ Log(r, "success") /\ UNCHANGED <<job, idx>> /\ routed'[r] = Cur(r).model
    BY <1>7 DEF InvokeSucceeds, AtTarget, Finish, PinWinner, TypeOK
  <2>2. Justified(r, [model |-> Cur(r).model, outcome |-> "success"])
    BY DEF Justified
  <2>3. Kept(r)
    BY <2>1, <2>2, TrailLogged
  <2> QED BY <1>2, <1>3, <1>7, <2>3
<1>8. ASSUME NEW r \in Requests, NEW e \in Errors, InvokeFails(r, e) PROVE TrailInv'
  <2>1. /\ idx[r] <= Len(Targets(r)) /\ pc[r] = "calling"
        /\ Log(r, "error") /\ UNCHANGED job
    BY <1>8 DEF InvokeFails, AtTarget
  <2>2. /\ idx' = [idx EXCEPT ![r] = @ + 1] \/ pc'[r] = "done"
        /\ answer'[r] # "served" /\ pc'[r] # "idle"
    BY <1>0, <1>8 DEF InvokeFails, Finish, NextTarget, TypeOK
  <2>3. Justified(r, [model |-> Cur(r).model, outcome |-> "error"])
    BY DEF Justified
  <2>4. Kept(r)
    BY <2>1, <2>2, <2>3, TrailLogged
  <2> QED BY <1>2, <1>8, <2>4
<1>9. ASSUME NEW r \in Requests, NEW e \in Errors,
             Invoke(r) \/ InvokeFailsRetry(r, e) \/ Wake(r) \/ Cancel(r) \/ Exhausted(r)
      PROVE  TrailInv'
  <2>1. /\ pc[r] \in {"gate", "calling", "backoff"} /\ pc'[r] # "idle"
        /\ job'[r] = job[r] /\ idx'[r] = idx[r] /\ trail'[r] = trail[r] /\ answer'[r] # "served"
    BY <1>0, <1>9 DEF Invoke, Gating, InvokeFailsRetry, Wake, Cancel, Exhausted, Finish, TypeOK
  <2>2. Kept(r)
    BY <2>1, TrailLeft
  <2> QED BY <1>2, <1>9, <2>2
<1>10. ASSUME NEW o \in Outside, OutsideStep(o) PROVE TrailInv'
  BY <1>1, <1>10 DEF OutsideStep, OutsideCall, JevAsk, JevAnswers, JevCancelled, reqVars
<1>11. ASSUME Tick \/ UNCHANGED vars PROVE TrailInv'
  BY <1>1, <1>11 DEF Tick, reqVars, vars
<1> QED
  BY <1>3, <1>4, <1>5, <1>6, <1>7, <1>8, <1>9, <1>10, <1>11 DEF Next, RequestStep

\* For chains of any length and whatever the other tenants' calls meet, a trail says of
\* every target why it was passed, and ends with the model the request is pinned to
\* (call_with_resilience, _make_pin_winner).
THEOREM TrailAlwaysTrue == Spec => []TrailIsTrue
<1> DEFINE Inv == TInv /\ StarveInv /\ BreakerInv /\ CoolInv /\ TrailInv
<1>1. Init => Inv
  <2>1. Init => CoolInv
    BY DEF Init, CoolInv
  <2>2. Init => TrailInv
    BY DEF Init, TrailInv, WayOf, WinOf, SkipsOf
  <2> QED BY <2>1, <2>2, TInit, StarveInit, BreakerInit
<1>2. Inv /\ [Next]_vars => Inv'
  BY TNext, StarveNext, BreakerNext, CoolNext, TrailNext
<1>3. Inv => TrailIsTrue
  BY DEF TrailInv, WinOf, SkipsOf, Justified, TrailIsTrue, SkipsAreJustified, WinnerIsPinned
<1> HIDE DEF Inv
<1> QED BY <1>1, <1>2, <1>3, PTL DEF Spec

=============================================================================
