----------------------------- MODULE MCResilience -----------------------------
(* Instances of Resilience for TLC. *)
EXTENDS Resilience, TLC

CONSTANTS r1, r2, o1, ta, tb

MCModels == {"m1", "m2", "n1"}

\* Two models of one provider, one of another.
MCProviderOf == [m \in MCModels |-> IF m = "n1" THEN "pn" ELSE "pm"]

T(m) == [model |-> m, has_key |-> TRUE, usable |-> TRUE]
NoKey(m) == [model |-> m, has_key |-> FALSE, usable |-> FALSE]
KeyMissing(m) == [model |-> m, has_key |-> TRUE, usable |-> FALSE]

Base == [enabled |-> TRUE, num_retries |-> 0,
         failure_threshold |-> 1, cooldown_seconds |-> 1,
         model_lockout |-> FALSE, model_failure_threshold |-> 1,
         model_lockout_seconds |-> 1]

Symmetry == Permutations(Requests)

\* Failover between providers, a keyless target, a fallback without a key;
\* a cooldown of two ticks leaves time between a probe and the next one.
FailoverChains == {<<T("m1"), T("n1")>>, <<T("m1"), KeyMissing("n1")>>,
                   <<NoKey("m1"), NoKey("n1")>>}
FailoverConfigs == {[Base EXCEPT !.enabled = e, !.cooldown_seconds = 2] : e \in BOOLEAN}

\* Two models of one provider, with the per-model lockout; its lock lasts as long
\* as the cooldown, which is the default.
SharedChains == {<<T("m1"), T("m2")>>}
SharedConfigs == {[Base EXCEPT !.num_retries = 1, !.failure_threshold = 2,
                               !.cooldown_seconds = 2, !.model_lockout = TRUE,
                               !.model_lockout_seconds = 2]}
=============================================================================
