------------------------------ MODULE MCTenant ------------------------------
(***************************************************************************)
(* What the turns of a tenant's workflow or conversation leave for the next *)
(* one: the trial, quota and spend counters of Admission, the learned       *)
(* output caps, the content references, the loop counters and the memories. *)
(* The modules keep disjoint state, so their steps commute and each is      *)
(* explored on its own: "part" is the one that runs in a behaviour, the     *)
(* others stay in one of their initial states.                              *)
(***************************************************************************)
EXTENDS MCAdmission, OutputCap, ContentRefs, Sessions

CONSTANTS a1, a2, i1, i2

VARIABLE part

turnVars == <<capVars, refVars, sessionVars>>

NinetyFifth == <<19, 20>>
Interchangeable == Symmetry \cup Permutations({a1, a2}) \cup Permutations({i1, i2})
ClashingTenants == {<<"a">>, <<"a", "::", "b">>}
ClashingUsers == {<<"c">>, <<"b", "::", "c">>}

-----------------------------------------------------------------------------
TenantInit ==
    /\ part \in {"counters", "cap", "refs", "loop", "memory", "long"}
    \* settings of the parts that do not run
    /\ part # "cap" => fallback = 0
    /\ part # "refs" => strict = TRUE
    /\ part # "memory" => style = "relying"
    /\ Init /\ CapInit /\ RefInit /\ SessionsInit

CountersPart == part = "counters" /\ Next /\ UNCHANGED <<part, turnVars>>
CapPart == part = "cap" /\ CapNext /\ UNCHANGED <<part, vars, refVars, sessionVars>>
RefPart == part = "refs" /\ RefNext /\ UNCHANGED <<part, vars, capVars, sessionVars>>
LoopPart == part = "loop" /\ LoopNext /\ UNCHANGED <<part, vars, capVars, refVars, memVars, longVars>>
MemPart == part = "memory" /\ MemNext /\ UNCHANGED <<part, vars, capVars, refVars, loopVars, longVars>>
LongPart == part = "long" /\ LongNext /\ UNCHANGED <<part, vars, capVars, refVars, loopVars, memVars>>

TenantNext == CountersPart \/ CapPart \/ RefPart \/ LoopPart \/ MemPart \/ LongPart

TenantSpec == TenantInit /\ [][TenantNext]_<<part, vars, turnVars>>
=============================================================================
