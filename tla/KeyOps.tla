-------------------------------- MODULE KeyOps --------------------------------
(***************************************************************************)
(* The lifecycle operations of the proxy-key store                         *)
(* (src/src/proxy/auth/api_key_manager.py): each operator is the mutation  *)
(* an operation applies to the full table of keys.  A key's tier, trust    *)
(* flags and other metadata are carried along by them and left out.        *)
(***************************************************************************)
EXTENDS Integers, FiniteSets

CONSTANTS
    Keys,      \* key hashes
    Tenants,
    Cidrs,     \* source networks an allowlist may name
    Stamps     \* values of created_at, ordered as the code compares them

ASSUME KeysAssumption == IsFiniteSet(Keys) /\ Stamps \subseteq Nat

Entry == [tenant : Tenants, created : Stamps, suspended : BOOLEAN,
          contract_inactive : BOOLEAN, ip_allowlist : SUBSET Cidrs]

IsTable(tb) ==
    /\ DOMAIN tb \subseteq Keys
    /\ tb = [k \in DOMAIN tb |-> tb[k]]
    /\ \A k \in DOMAIN tb : tb[k] \in Entry

NoKeys == [k \in {} |-> {}]

KeysOf(tb, t) == {k \in DOMAIN tb : tb[k].tenant = t}

Rows(tb, t) == [k \in KeysOf(tb, t) |-> tb[k]]

Newest(tb, S) == CHOOSE k \in S : \A j \in S : tb[j].created <= tb[k].created

Restricted(tb, t) == {k \in KeysOf(tb, t) : tb[k].ip_allowlist # {}}

\* _tenant_allowlist: the newest non-empty list among the tenant's keys.
TenantAllowlist(tb, t) ==
    IF Restricted(tb, t) = {} THEN {} ELSE tb[Newest(tb, Restricted(tb, t))].ip_allowlist

\* create_key: the new key takes the tenant's restriction, and no other flag.
CreateKey(tb, t, k, stamp) ==
    [h \in DOMAIN tb \cup {k} |->
        IF h = k THEN [tenant |-> t, created |-> stamp, suspended |-> FALSE,
                       contract_inactive |-> FALSE,
                       ip_allowlist |-> TenantAllowlist(tb, t)]
                 ELSE tb[h]]

SetSuspended(tb, t, on) ==
    [k \in DOMAIN tb |-> IF tb[k].tenant = t THEN [tb[k] EXCEPT !.suspended = on] ELSE tb[k]]

SetContractActive(tb, t, active) ==
    [k \in DOMAIN tb |->
        IF tb[k].tenant = t THEN [tb[k] EXCEPT !.contract_inactive = ~active] ELSE tb[k]]

SetIpAllowlist(tb, t, cidrs) ==
    [k \in DOMAIN tb |->
        IF tb[k].tenant = t THEN [tb[k] EXCEPT !.ip_allowlist = cidrs] ELSE tb[k]]

DeleteTenantKeys(tb, t) == [k \in DOMAIN tb \ KeysOf(tb, t) |-> tb[k]]

\* rotate_tenant_keys: one new key for all the old ones, with the newest's
\* metadata, the tenant's restriction, and suspended if any of them is.
RotateTenantKeys(tb, t, k, stamp) ==
    LET old == KeysOf(tb, t)
    IN [h \in (DOMAIN tb \ old) \cup {k} |->
          IF h = k THEN [tenant |-> t, created |-> stamp,
                         suspended |-> \E o \in old : tb[o].suspended,
                         contract_inactive |-> tb[Newest(tb, old)].contract_inactive,
                         ip_allowlist |-> TenantAllowlist(tb, t)]
                   ELSE tb[h]]
=============================================================================
