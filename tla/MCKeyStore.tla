----------------------------- MODULE MCKeyStore -----------------------------
(* Instances of KeyStore for TLC. *)
EXTENDS KeyStore, TLC

CONSTANTS i1, i2, l1, l2, w1, w2, k1, k2, k3, k4, t1, t2, c1

\* A Secret Manager secret with one writing process, and a table with two.
OneBlobWriter == [b \in {"secret", "postgres"} |-> IF b = "secret" THEN {i1} ELSE {i1, i2}]

Fresh == w1 :> k3 @@ w2 :> k4

Held(t, stamp) == [tenant |-> t, created |-> stamp, suspended |-> FALSE,
                   contract_inactive |-> FALSE, ip_allowlist |-> {}]

Symmetry == Permutations({l1, l2})

OneKeyStore == k1 :> Held(t1, 0)
TwoTenantStore == k1 :> Held(t1, 0) @@ k2 :> Held(t2, 1)

Change(kind, t, on, cidrs) == [kind |-> kind, tenant |-> t, on |-> on, cidrs |-> cidrs]

ChangesOf(t) ==
    {Change(kind, t, FALSE, {}) : kind \in {"create", "rotate", "delete", "contract"}}
        \cup {Change("suspended", t, TRUE, {}), Change("allow", t, FALSE, {c1})}

\* Over the secret one thread revokes and one issues; over the table any
\* operation meets one that issues a key, or one for another tenant.
SomeChanges ==
    [b \in {"secret", "postgres"} |-> [w \in Writers |->
        IF b = "secret"
        THEN {c \in ChangesOf(t1) : c.kind = (IF w = w1 THEN "delete" ELSE "create")}
        ELSE IF w = w1 THEN ChangesOf(t1)
        ELSE {c \in ChangesOf(t1) : c.kind = "create"}
                 \cup {Change("suspended", t2, TRUE, {})}]]

EveryChange == [b \in {"secret", "postgres"} |-> [w \in Writers |-> UNION {ChangesOf(t) : t \in Tenants}]]
=============================================================================
