------------------------------- MODULE KeyTable -------------------------------
(***************************************************************************)
(* What the proxy-key store promises (src/src/proxy/auth): one table of    *)
(* keys that every lifecycle operation changes in one step.                *)
(***************************************************************************)
EXTENDS KeyOps

VARIABLE table

\* A tenant's source-IP restriction is on every key it holds, so no key is an
\* unrestricted way in: the keys of a tenant carry the same list, whatever was
\* issued, rotated, restricted or deleted in which order (create_key,
\* rotate_tenant_keys, set_ip_allowlist).
OneRestriction ==
    \A j, k \in DOMAIN table :
        table[j].tenant = table[k].tenant => table[j].ip_allowlist = table[k].ip_allowlist

\* A store the engine has built.
Init == IsTable(table) /\ OneRestriction

Create(t) == \E k \in Keys \ DOMAIN table, s \in Stamps : table' = CreateKey(table, t, k, s)
Suspend(t) == \E on \in BOOLEAN : table' = SetSuspended(table, t, on)
Contract(t) == \E active \in BOOLEAN : table' = SetContractActive(table, t, active)
Allow(t) == \E cidrs \in SUBSET Cidrs : table' = SetIpAllowlist(table, t, cidrs)
Delete(t) == table' = DeleteTenantKeys(table, t)
Rotate(t) ==
    /\ KeysOf(table, t) # {}
    /\ \E k \in Keys \ DOMAIN table, s \in Stamps : table' = RotateTenantKeys(table, t, k, s)

Next ==
    \E t \in Tenants : Create(t) \/ Suspend(t) \/ Contract(t) \/ Allow(t) \/ Delete(t) \/ Rotate(t)

Spec == Init /\ [][Next]_table
=============================================================================
