---------------------------- MODULE KeyStoreProofs ----------------------------
(***************************************************************************)
(* The proxy-key store, for any instances, threads, keys, tenants and      *)
(* faults: the table of keys stays well formed and restricted, the store   *)
(* implements that table, and what a cache says of itself is so.           *)
(*                                                                         *)
(* First what the operations do to a table, then the table's own theorem,  *)
(* then the store's types, its refinement, and its two cache properties.   *)
(***************************************************************************)
EXTENDS KeyStore, FiniteSetTheorems, NaturalsInduction, WellFoundedInduction, TLAPS

\* One of finitely many keys is the newest: a smallest set without one would have
\* one as soon as any of its keys is taken away, and with it the whole set would.
LEMMA NewestExists ==
    ASSUME NEW tb, IsTable(tb), NEW S, S \subseteq DOMAIN tb, S # {}
    PROVE  \E k \in S : \A j \in S : tb[j].created <= tb[k].created
<1> DEFINE Has(T) == \E k \in T : \A j \in T : tb[j].created <= tb[k].created
           Bad == {T \in SUBSET DOMAIN tb : T # {} /\ ~Has(T)}
           Sizes == {Cardinality(T) : T \in Bad}
           R == OpToRel(<, Nat)
<1>1. \A T \in SUBSET DOMAIN tb : IsFiniteSet(T) /\ Cardinality(T) \in Nat
  <2> SUFFICES ASSUME NEW T \in SUBSET DOMAIN tb
               PROVE  IsFiniteSet(T) /\ Cardinality(T) \in Nat
    OBVIOUS
  <2>1. T \in SUBSET Keys
    BY DEF IsTable
  <2>2. IsFiniteSet(T)
    BY <2>1, FS_Subset, KeysAssumption
  <2> QED
    BY <2>2, FS_CardinalityType
<1>2. \A k \in DOMAIN tb : tb[k].created \in Nat
  BY KeysAssumption DEF IsTable, Entry
<1>3. SUFFICES ASSUME Sizes # {} PROVE FALSE
  <2> HIDE DEF Has
  <2>1. Bad = {}
    <3> SUFFICES ASSUME NEW T \in Bad PROVE FALSE
      OBVIOUS
    <3>1. Cardinality(T) \in Sizes
      OBVIOUS
    <3> QED
      BY <1>3, <3>1
  <2>2. S \in SUBSET DOMAIN tb
    OBVIOUS
  <2>3. Has(S)
    BY <2>1, <2>2
  <2> QED
    BY <2>3 DEF Has
<1>4. PICK n \in Sizes : \A m \in Sizes : ~(m < n)
  <2>1. IsWellFoundedOn(R, Nat)
    BY NatLessThanWellFounded
  <2>2. Sizes \subseteq Nat
    <3> HIDE DEF Has
    <3> QED BY <1>1
  <2>3. \E n \in Sizes : \A m \in Sizes : <<m, n>> \notin R
    <3> HIDE DEF R, Sizes
    <3> QED BY <1>3, <2>1, <2>2, WFMin
  <2>4. \A m, n \in Nat : <<m, n>> \in R <=> m < n
    BY DEF OpToRel
  <2> HIDE DEF R, Sizes
  <2> QED
    BY <2>2, <2>3, <2>4
<1>5. PICK T \in Bad : n = Cardinality(T)
  <2> HIDE DEF Bad
  <2> QED OBVIOUS
<1>6. PICK x \in T : TRUE
  OBVIOUS
<1>7. CASE T \ {x} = {}
  <2>1. T = {x} /\ x \in DOMAIN tb /\ tb[x].created <= tb[x].created
    BY <1>2, <1>7
  <2>2. Has(T)
    BY <2>1
  <2> QED
    BY <2>2
<1>8. CASE T \ {x} # {}
  <2> DEFINE U == T \ {x}
  <2>1. Cardinality(U) = n - 1 /\ n \in Nat
    BY <1>1, <1>5, FS_RemoveElement
  <2>2. U \in SUBSET DOMAIN tb
    OBVIOUS
  <2>3. Has(U)
    <3>1. SUFFICES ASSUME ~Has(U) PROVE FALSE
      OBVIOUS
    <3> HIDE DEF Has
    <3>2. U \in Bad
      BY <1>8, <2>2, <3>1
    <3>3. Cardinality(U) \in Sizes
      BY <3>2
    <3> HIDE DEF Sizes
    <3>4. ~(n - 1 < n)
      BY <1>4, <2>1, <3>3
    <3> QED
      BY <2>1, <3>4
  <2>4. PICK k \in U : \A j \in U : tb[j].created <= tb[k].created
    BY <2>3
  <2>5. tb[x].created \in Nat /\ \A j \in T : tb[j].created \in Nat
    BY <1>2, <1>6
  <2>6. CASE tb[x].created <= tb[k].created
    BY <2>4, <2>6
  <2>7. CASE tb[k].created <= tb[x].created
    <3>1. \A j \in T : tb[j].created <= tb[x].created
      <4> SUFFICES ASSUME NEW j \in T PROVE tb[j].created <= tb[x].created
        OBVIOUS
      <4>1. CASE j = x
        BY <2>5, <4>1
      <4>2. CASE j # x
        BY <2>4, <2>5, <2>7, <4>2
      <4> QED BY <4>1, <4>2
    <3> QED
      BY <1>6, <3>1
  <2> QED
    BY <2>4, <2>5, <2>6, <2>7
<1> QED
  BY <1>7, <1>8

\* max() over some keys' creation times picks one of them.
LEMMA NewestIsOne ==
    ASSUME NEW tb, IsTable(tb), NEW S, S \subseteq DOMAIN tb, S # {}
    PROVE  Newest(tb, S) \in S
BY NewestExists DEF Newest

\* _tenant_allowlist returns a list some key carries, or none.
LEMMA AllowlistType ==
    ASSUME NEW tb, IsTable(tb), NEW t
    PROVE  TenantAllowlist(tb, t) \in SUBSET Cidrs
<1>1. Restricted(tb, t) \subseteq DOMAIN tb
  BY DEF Restricted, KeysOf
<1>2. CASE Restricted(tb, t) = {}
  BY <1>2 DEF TenantAllowlist
<1>3. CASE Restricted(tb, t) # {}
  <2>1. Newest(tb, Restricted(tb, t)) \in DOMAIN tb
    BY <1>1, <1>3, NewestIsOne
  <2> QED
    BY <1>3, <2>1 DEF TenantAllowlist, IsTable, Entry
<1> QED
  BY <1>2, <1>3

\* When a tenant's keys carry the same list, that is the list a new key takes.
LEMMA AllowlistIsShared ==
    ASSUME NEW tb, IsTable(tb), NEW t,
           \A j, k \in DOMAIN tb :
               tb[j].tenant = tb[k].tenant => tb[j].ip_allowlist = tb[k].ip_allowlist
    PROVE  \A k \in KeysOf(tb, t) : tb[k].ip_allowlist = TenantAllowlist(tb, t)
<1>1. CASE Restricted(tb, t) = {}
  BY <1>1 DEF TenantAllowlist, Restricted
<1>2. CASE Restricted(tb, t) # {}
  <2>1. Restricted(tb, t) \subseteq DOMAIN tb
    BY DEF Restricted, KeysOf
  <2>2. Newest(tb, Restricted(tb, t)) \in Restricted(tb, t)
    BY <1>2, <2>1, NewestIsOne
  <2> QED
    BY <1>2, <2>2 DEF TenantAllowlist, Restricted, KeysOf
<1> QED
  BY <1>1, <1>2

-----------------------------------------------------------------------------
\* The restriction of one table, as OneRestriction states it of the variable.
Shared(tb) ==
    \A j, k \in DOMAIN tb :
        tb[j].tenant = tb[k].tenant => tb[j].ip_allowlist = tb[k].ip_allowlist

\* create_key leaves a well-formed table, and its key is restricted like the rest.
LEMMA CreateKeeps ==
    ASSUME NEW tb, IsTable(tb), NEW t \in Tenants, NEW k \in Keys \ DOMAIN tb,
           NEW s \in Stamps
    PROVE  IsTable(CreateKey(tb, t, k, s)) /\ (Shared(tb) => Shared(CreateKey(tb, t, k, s)))
<1> DEFINE new == CreateKey(tb, t, k, s)
           entry == [tenant |-> t, created |-> s, suspended |-> FALSE,
                     contract_inactive |-> FALSE, ip_allowlist |-> TenantAllowlist(tb, t)]
<1>1. DOMAIN new = DOMAIN tb \cup {k} /\ new[k] = entry
      /\ \A h \in DOMAIN tb : new[h] = tb[h]
  BY DEF CreateKey
<1>2. entry \in Entry
  BY AllowlistType DEF Entry
<1>3. IsTable(new)
  <2>1. new = [h \in DOMAIN new |-> new[h]]
    BY DEF CreateKey
  <2> QED
    BY <1>1, <1>2, <2>1 DEF IsTable
<1>5. ASSUME Shared(tb) PROVE Shared(new)
  <2> SUFFICES ASSUME NEW i \in DOMAIN new, NEW j \in DOMAIN new,
                      new[i].tenant = new[j].tenant
               PROVE  new[i].ip_allowlist = new[j].ip_allowlist
    BY DEF Shared
  <2> HIDE DEF new
  <2>0. \A h \in KeysOf(tb, t) : tb[h].ip_allowlist = TenantAllowlist(tb, t)
    BY <1>5, AllowlistIsShared DEF Shared
  <2>1. CASE i = k /\ j = k
    BY <2>1
  <2>2. CASE i = k /\ j # k
    BY <1>1, <2>0, <2>2 DEF KeysOf
  <2>3. CASE i # k /\ j = k
    BY <1>1, <2>0, <2>3 DEF KeysOf
  <2>4. CASE i # k /\ j # k
    BY <1>1, <1>5, <2>4 DEF Shared
  <2> QED
    BY <2>1, <2>2, <2>3, <2>4
<1> QED
  BY <1>3, <1>5

\* rotate_tenant_keys: the one new key takes the restriction of the old ones.
LEMMA RotateKeeps ==
    ASSUME NEW tb, IsTable(tb), NEW t \in Tenants, NEW k \in Keys, NEW s \in Stamps,
           KeysOf(tb, t) # {}
    PROVE  /\ IsTable(RotateTenantKeys(tb, t, k, s))
           /\ Shared(tb) => Shared(RotateTenantKeys(tb, t, k, s))
<1> DEFINE new == RotateTenantKeys(tb, t, k, s)
           old == KeysOf(tb, t)
           entry == [tenant |-> t, created |-> s,
                     suspended |-> \E o \in old : tb[o].suspended,
                     contract_inactive |-> tb[Newest(tb, old)].contract_inactive,
                     ip_allowlist |-> TenantAllowlist(tb, t)]
<1>1. DOMAIN new = (DOMAIN tb \ old) \cup {k} /\ new[k] = entry
      /\ \A h \in DOMAIN tb \ old : h # k => new[h] = tb[h]
  BY DEF RotateTenantKeys, KeysOf
<1>2. entry \in Entry
  <2>1. old \subseteq DOMAIN tb
    BY DEF KeysOf
  <2>2. Newest(tb, old) \in DOMAIN tb
    BY <2>1, NewestIsOne
  <2>3. tb[Newest(tb, old)].contract_inactive \in BOOLEAN
    BY <2>2 DEF IsTable, Entry
  <2>4. (\E o \in old : tb[o].suspended) \in BOOLEAN
    OBVIOUS
  <2> QED
    BY <2>3, <2>4, AllowlistType DEF Entry
<1>3. IsTable(new)
  <2>1. new = [h \in DOMAIN new |-> new[h]]
    BY DEF RotateTenantKeys
  <2> QED
    BY <1>1, <1>2, <2>1 DEF IsTable
<1>4. ASSUME Shared(tb) PROVE Shared(new)
  <2> SUFFICES ASSUME NEW i \in DOMAIN new, NEW j \in DOMAIN new,
                      new[i].tenant = new[j].tenant
               PROVE  new[i].ip_allowlist = new[j].ip_allowlist
    BY DEF Shared
  <2> HIDE DEF new
  <2>1. \A h \in DOMAIN new : h # k => h \in DOMAIN tb /\ tb[h].tenant # t /\ new[h] = tb[h]
    BY <1>1 DEF KeysOf
  <2>2. new[k].tenant = t
    BY <1>1
  <2> QED
    BY <1>4, <2>1, <2>2 DEF Shared
<1> QED
  BY <1>3, <1>4

\* The flags and the restriction are set on every key of the tenant alike, and a
\* deletion takes all of them.
LEMMA OthersKeep ==
    ASSUME NEW tb, IsTable(tb), NEW t \in Tenants, NEW on \in BOOLEAN,
           NEW cidrs \in SUBSET Cidrs
    PROVE  /\ IsTable(SetSuspended(tb, t, on)) /\ (Shared(tb) => Shared(SetSuspended(tb, t, on)))
           /\ IsTable(SetContractActive(tb, t, on)) /\ (Shared(tb) => Shared(SetContractActive(tb, t, on)))
           /\ IsTable(SetIpAllowlist(tb, t, cidrs)) /\ (Shared(tb) => Shared(SetIpAllowlist(tb, t, cidrs)))
           /\ IsTable(DeleteTenantKeys(tb, t)) /\ (Shared(tb) => Shared(DeleteTenantKeys(tb, t)))
<1>1. IsTable(SetSuspended(tb, t, on)) /\ (Shared(tb) => Shared(SetSuspended(tb, t, on)))
  BY DEF SetSuspended, IsTable, Entry, Shared
<1>2. IsTable(SetContractActive(tb, t, on)) /\ (Shared(tb) => Shared(SetContractActive(tb, t, on)))
  <2> DEFINE off == ~on
             new == [k \in DOMAIN tb |->
                       IF tb[k].tenant = t THEN [tb[k] EXCEPT !.contract_inactive = off]
                                           ELSE tb[k]]
  <2>1. off \in BOOLEAN
    OBVIOUS
  <2>2. IsTable(new) /\ (Shared(tb) => Shared(new))
    <3> HIDE DEF off
    <3> QED
      BY <2>1 DEF IsTable, Entry, Shared
  <2> QED
    BY <2>2 DEF SetContractActive
<1>3. IsTable(SetIpAllowlist(tb, t, cidrs)) /\ (Shared(tb) => Shared(SetIpAllowlist(tb, t, cidrs)))
  BY DEF SetIpAllowlist, IsTable, Entry, Shared
<1>4. IsTable(DeleteTenantKeys(tb, t)) /\ (Shared(tb) => Shared(DeleteTenantKeys(tb, t)))
  BY DEF DeleteTenantKeys, KeysOf, IsTable, Shared
<1> QED
  BY <1>1, <1>2, <1>3, <1>4

-----------------------------------------------------------------------------
\* The abstract table has the same operations under its own names.
LEMMA SameNewest ==
    ASSUME NEW tb, NEW S PROVE Table!Newest(tb, S) = Newest(tb, S)
BY DEF Table!Newest, Newest

LEMMA SameAllowlist ==
    ASSUME NEW tb, NEW t PROVE Table!TenantAllowlist(tb, t) = TenantAllowlist(tb, t)
BY SameNewest
   DEF Table!TenantAllowlist, TenantAllowlist, Table!Restricted, Restricted, Table!KeysOf, KeysOf

LEMMA SameOperations ==
    ASSUME NEW tb, NEW t
    PROVE  /\ \A k, s : Table!CreateKey(tb, t, k, s) = CreateKey(tb, t, k, s)
           /\ \A k, s : Table!RotateTenantKeys(tb, t, k, s) = RotateTenantKeys(tb, t, k, s)
           /\ \A on : Table!SetSuspended(tb, t, on) = SetSuspended(tb, t, on)
           /\ \A on : Table!SetContractActive(tb, t, on) = SetContractActive(tb, t, on)
           /\ \A cs : Table!SetIpAllowlist(tb, t, cs) = SetIpAllowlist(tb, t, cs)
           /\ Table!DeleteTenantKeys(tb, t) = DeleteTenantKeys(tb, t)
           /\ Table!KeysOf(tb, t) = KeysOf(tb, t)
<1>1. \A k, s : Table!CreateKey(tb, t, k, s) = CreateKey(tb, t, k, s)
  BY SameAllowlist DEF Table!CreateKey, CreateKey
<1>2. \A k, s : Table!RotateTenantKeys(tb, t, k, s) = RotateTenantKeys(tb, t, k, s)
  BY SameAllowlist, SameNewest
     DEF Table!RotateTenantKeys, RotateTenantKeys, Table!KeysOf, KeysOf
<1>3. \A on : Table!SetSuspended(tb, t, on) = SetSuspended(tb, t, on)
  BY DEF Table!SetSuspended, SetSuspended
<1>4. \A on : Table!SetContractActive(tb, t, on) = SetContractActive(tb, t, on)
  BY DEF Table!SetContractActive, SetContractActive
<1>5. \A cs : Table!SetIpAllowlist(tb, t, cs) = SetIpAllowlist(tb, t, cs)
  BY DEF Table!SetIpAllowlist, SetIpAllowlist
<1>6. Table!DeleteTenantKeys(tb, t) = DeleteTenantKeys(tb, t)
      /\ Table!KeysOf(tb, t) = KeysOf(tb, t)
  BY DEF Table!DeleteTenantKeys, DeleteTenantKeys, Table!KeysOf, KeysOf
<1> QED
  BY <1>1, <1>2, <1>3, <1>4, <1>5, <1>6

\* Each needs the other: what max() picks has a type only in a well-formed
\* table, and a new key's list is the tenant's only when that is one list.
TableInv == IsTable(store) /\ Shared(store)

LEMMA TableStep == TableInv /\ [Table!Next]_store => TableInv'
<1> SUFFICES ASSUME TableInv, [Table!Next]_store PROVE TableInv'
  OBVIOUS
<1>0. IsTable(store) /\ Shared(store)
  BY DEF TableInv
<1>1. IsTable(store') /\ Shared(store')
  <2>1. CASE UNCHANGED store
    BY <1>0, <2>1
  <2>2. ASSUME NEW t \in Tenants, Table!Create(t) PROVE IsTable(store') /\ Shared(store')
    <3>0. PICK k \in Keys \ DOMAIN store, s \in Stamps : store' = Table!CreateKey(store, t, k, s)
      BY <2>2 DEF Table!Create
    <3>1. store' = CreateKey(store, t, k, s)
      BY ZenonT(60), <3>0, SameOperations
    <3> QED
      BY <1>0, <3>1, CreateKeeps
  <2>3. ASSUME NEW t \in Tenants, Table!Rotate(t) PROVE IsTable(store') /\ Shared(store')
    <3>1. KeysOf(store, t) # {}
      BY <2>3, SameOperations DEF Table!Rotate
    <3>0. PICK k \in Keys \ DOMAIN store, s \in Stamps :
              store' = Table!RotateTenantKeys(store, t, k, s)
      BY <2>3 DEF Table!Rotate
    <3>2. store' = RotateTenantKeys(store, t, k, s)
      BY ZenonT(60), <3>0, SameOperations
    <3> QED
      BY <1>0, <3>1, <3>2, RotateKeeps
  <2>4. ASSUME NEW t \in Tenants, Table!Suspend(t) PROVE IsTable(store') /\ Shared(store')
    <3>1. PICK on \in BOOLEAN : store' = SetSuspended(store, t, on)
      BY <2>4, SameOperations DEF Table!Suspend
    <3>2. {} \in SUBSET Cidrs
      OBVIOUS
    <3> QED
      BY <1>0, <3>1, <3>2, OthersKeep
  <2>5. ASSUME NEW t \in Tenants, Table!Contract(t) PROVE IsTable(store') /\ Shared(store')
    <3>1. PICK on \in BOOLEAN : store' = SetContractActive(store, t, on)
      BY <2>5, SameOperations DEF Table!Contract
    <3>2. {} \in SUBSET Cidrs
      OBVIOUS
    <3> QED
      BY <1>0, <3>1, <3>2, OthersKeep
  <2>6. ASSUME NEW t \in Tenants, Table!Allow(t) PROVE IsTable(store') /\ Shared(store')
    <3>1. PICK cidrs \in SUBSET Cidrs : store' = SetIpAllowlist(store, t, cidrs)
      BY <2>6, SameOperations DEF Table!Allow
    <3> QED
      BY <1>0, <3>1, OthersKeep
  <2>7. ASSUME NEW t \in Tenants, Table!Delete(t) PROVE IsTable(store') /\ Shared(store')
    <3>1. store' = DeleteTenantKeys(store, t)
      BY <2>7, SameOperations DEF Table!Delete
    <3>2. {} \in SUBSET Cidrs /\ TRUE \in BOOLEAN
      OBVIOUS
    <3> QED
      BY <1>0, <3>1, <3>2, OthersKeep
  <2> QED
    BY <2>1, <2>2, <2>3, <2>4, <2>5, <2>6, <2>7 DEF Table!Next
<1> QED
  BY <1>1 DEF TableInv

\* In every sequence of lifecycle operations the keys of a tenant carry one
\* source-IP restriction (create_key, rotate_tenant_keys, set_ip_allowlist).
THEOREM AlwaysOneRestriction == Table!Spec => []Table!OneRestriction
<1>1. Table!Init => TableInv
  BY DEF Table!Init, TableInv, Table!OneRestriction, Shared, Table!IsTable, IsTable,
         Table!Entry, Entry
<1>2. TableInv => Table!OneRestriction
  BY DEF TableInv, Table!OneRestriction, Shared
<1> QED
  BY <1>1, <1>2, TableStep, PTL DEF Table!Spec

-----------------------------------------------------------------------------
\* The types.  Every table the model holds is one of these.
Tables == UNION {[D -> Entry] : D \in SUBSET Keys}

LEMMA TablesAre == ASSUME NEW tb PROVE tb \in Tables <=> IsTable(tb)
<1>1. ASSUME tb \in Tables PROVE IsTable(tb)
  <2>1. PICK D \in SUBSET Keys : tb \in [D -> Entry]
    BY <1>1 DEF Tables
  <2> QED
    BY <2>1 DEF IsTable
<1>2. ASSUME IsTable(tb) PROVE tb \in Tables
  <2>1. DOMAIN tb \in SUBSET Keys /\ tb \in [DOMAIN tb -> Entry]
    BY <1>2 DEF IsTable
  <2> QED
    BY <2>1 DEF Tables
<1> QED
  BY <1>1, <1>2

\* created_at is any number.
AllStamps == Stamps = Nat

\* What an operation makes of a table is a table, and a restricted one stays so.
LEMMA MutatedKeeps ==
    ASSUME AllStamps, NEW op \in Op, NEW tb \in Tables, ~Refuses(op, tb)
    PROVE  Mutated(op, tb) \in Tables /\ (Shared(tb) => Shared(Mutated(op, tb)))
<1>0. IsTable(tb)
  BY TablesAre
<1>1. /\ op.tenant \in Tenants /\ op.key \in Keys /\ op.stamp \in Stamps
      /\ op.on \in BOOLEAN /\ op.cidrs \in SUBSET Cidrs /\ op.kind \in Kinds
  BY DEF Op, AllStamps
<1> DEFINE Good(new) == IsTable(new) /\ (Shared(tb) => Shared(new))
<1>2. CASE op.kind = "create"
  <2>1. op.key \notin DOMAIN tb
    BY <1>2 DEF Refuses
  <2>2. Good(CreateKey(tb, op.tenant, op.key, op.stamp))
    BY <1>0, <1>1, <2>1, CreateKeeps
  <2> QED
    BY <1>2, <2>2, TablesAre DEF Mutated
<1>3. CASE op.kind = "rotate"
  <2>1. KeysOf(tb, op.tenant) # {}
    BY <1>3 DEF Refuses
  <2>2. Good(RotateTenantKeys(tb, op.tenant, op.key, op.stamp))
    BY <1>0, <1>1, <2>1, RotateKeeps
  <2> QED
    BY <1>3, <2>2, TablesAre DEF Mutated
<1>4. /\ Good(SetSuspended(tb, op.tenant, op.on))
      /\ Good(SetContractActive(tb, op.tenant, op.on))
      /\ Good(SetIpAllowlist(tb, op.tenant, op.cidrs))
      /\ Good(DeleteTenantKeys(tb, op.tenant))
  BY <1>0, <1>1, OthersKeep
<1>5. CASE op.kind \in {"delete", "suspended", "contract", "allow"}
  BY <1>4, <1>5, TablesAre DEF Mutated
<1> QED
  BY <1>1, <1>2, <1>3, <1>5 DEF Kinds

LookPcs == {"start", "wantLoad", "loadVersion", "loadData", "loadApply",
            "wantVersion", "askVersion", "done"}

LookupRecs ==
    [pc : LookPcs, home : Instances \cup {None}, key : LookedUp \cup {None},
     asked : 0 .. MaxTime, attempted : BOOLEAN, versionKnown : BOOLEAN,
     reason : {"none", "stale", "changed", "miss"}, seen : Nat, ver : Nat, data : Tables,
     checked : BOOLEAN, window : SUBSET (Entry \cup {None}), stale : BOOLEAN, late : BOOLEAN]

WriterPcs == {"start", "wantWrite", "load", "persist", "assign", "begin", "commit",
              "announce", "done", "failed"}

WriterRecs ==
    [pc : WriterPcs, home : Instances \cup {None}, op : Op \cup {None}, data : Tables]

RefresherRecs ==
    [pc : {"idle", "read", "apply"}, full : BOOLEAN, tenants : SUBSET Tenants,
     servesFull : BOOLEAN, serves : SUBSET Tenants, data : Tables]

Resting == {"start", "done"}              \* a lookup not under way
Loading == {"wantLoad", "loadVersion", "loadData", "loadApply"}   \* one in _reload
Idle == {"start", "done", "failed"}       \* a writer not under way

StoreTypes ==
    /\ backend \in Backends /\ store \in Tables /\ version \in Nat /\ version >= 1
    /\ revoked \in SUBSET Keys /\ goneAt \in [LookedUp -> Int]

CacheTypes ==
    /\ cache \in [Instances -> Tables] /\ loadedAt \in [Instances -> Times]
    /\ cacheVersion \in [Instances -> Nat] /\ overtaken \in [Instances -> SUBSET Tenants]
    /\ \A i \in Instances : cacheVersion[i] <= version

LoadTypes ==
    /\ lastVersionCheck \in [Instances -> Times] /\ lastAttempt \in [Instances -> Times]
    /\ lastForced \in [Instances -> Times]

LockTypes ==
    /\ loadLock \in [Instances -> Lookups \cup {Nobody}]
    /\ versionLock \in [Instances -> Lookups \cup {Nobody}]
    /\ writeLock \in [Instances -> Writers \cup {Nobody}]
    /\ advisory \in Writers \cup {Nobody}

\* A lookup as it may be.
Fine(r) ==
    /\ r.ver <= version
    /\ r.pc \notin Resting => r.home \in Instances /\ r.key \in LookedUp
    /\ r.pc \in Loading => r.reason # "none"
    /\ r.pc = "start" => r = NewLookup

LookTypes ==
    look \in [Lookups -> LookupRecs] /\ \A l \in Lookups : Fine(look[l])

WriteTypes ==
    /\ wr \in [Writers -> WriterRecs]
    /\ \A w \in Writers : wr[w].pc \notin Idle =>
        /\ wr[w].op \in Op /\ wr[w].op.key = FreshKey[w]
        /\ wr[w].home \in WritersAt[backend] /\ wr[w].home \in Instances

RefreshTypes ==
    refresher \in [Instances -> RefresherRecs] /\ mail \in [Instances -> SUBSET Tenants]

ClockTypes == stamps \in Nat /\ now \in 0 .. MaxTime /\ faults \in 0 .. MaxFaults

TypeInv ==
    /\ StoreTypes /\ CacheTypes /\ LoadTypes /\ LockTypes /\ LookTypes /\ WriteTypes
    /\ RefreshTypes /\ ClockTypes

LEMMA TypeInit == ASSUME AllStamps, Init PROVE TypeInv
<1>1. NoKeys \in Tables /\ FirstStore \in Tables
  <2>1. IsTable(NoKeys)
    BY DEF IsTable, NoKeys
  <2> QED
    BY <2>1, TablesAre, StoreAssumption
<1>2. {0, Never} \subseteq Times /\ 0 \in 0 .. MaxTime /\ 0 \in 0 .. MaxFaults
      /\ MaxTime + 1 \in Int
  BY StoreAssumption DEF Times, Never
<1>3. NewLookup \in LookupRecs
  BY <1>1, <1>2 DEF NewLookup, LookupRecs, LookPcs
<1>4. Over("start") \in WriterRecs
  BY <1>1 DEF Over, WriterRecs, WriterPcs
<1>5. IdleRefresher \in RefresherRecs
  BY <1>1 DEF IdleRefresher, RefresherRecs
<1>6. StoreTypes /\ ClockTypes
  BY <1>1, <1>2, StoreAssumption DEF Init, StoreTypes, ClockTypes
<1>7. CacheTypes
  BY <1>1, <1>2 DEF Init, CacheTypes
<1>8. LoadTypes /\ LockTypes
  BY <1>2 DEF Init, LoadTypes, LockTypes
<1>9. LookTypes
  BY <1>3 DEF Init, LookTypes, Fine, Resting, Loading, NewLookup
<1>10. WriteTypes
  BY <1>4 DEF Init, WriteTypes, Idle, Over
<1>11. RefreshTypes
  BY <1>5 DEF Init, RefreshTypes
<1> QED
  BY <1>6, <1>7, <1>8, <1>9, <1>10, <1>11 DEF TypeInv

\* A lookup record is one whichever of its fields is set.
LEMMA NewIsLookup == NewLookup \in LookupRecs /\ NoKeys \in Tables
<1>1. NoKeys \in Tables
  <2>1. IsTable(NoKeys)
    BY DEF IsTable, NoKeys
  <2> QED
    BY <2>1, TablesAre
<1>2. 0 \in 0 .. MaxTime
  BY StoreAssumption
<1> QED
  BY <1>1, <1>2 DEF NewLookup, LookupRecs, LookPcs

LEMMA AnsweredIs ==
    ASSUME NEW r, NEW c
    PROVE  /\ Answered(r, c) \in LookupRecs
           /\ Answered(r, c).pc = "done" /\ Answered(r, c).ver = 0
           /\ Answered(r, c).home = None /\ ~Answered(r, c).checked
           /\ Answered(r, c).stale = (r.checked /\ At(c, r.key) \notin r.window)
<1> DEFINE st == r.checked /\ At(c, r.key) \notin r.window
           la == r.key \in DOMAIN c /\ r.asked > goneAt[r.key] + CheckInterval
<1>1. st \in BOOLEAN /\ la \in BOOLEAN
  OBVIOUS
<1>2. Answered(r, c) = [NewLookup EXCEPT !.pc = "done", !.stale = st, !.late = la]
  BY DEF Answered
<1> HIDE DEF st, la
<1>3. /\ Answered(r, c) \in LookupRecs
      /\ Answered(r, c).pc = "done" /\ Answered(r, c).ver = 0
      /\ Answered(r, c).home = None /\ ~Answered(r, c).checked
      /\ Answered(r, c).stale = st
  BY ZenonT(60), <1>1, <1>2, NewIsLookup DEF NewLookup, LookupRecs, LookPcs
<1> QED
  BY <1>3 DEF st

\* A lookup that is under way: it knows its instance and its key.
Going(r) ==
    r \in LookupRecs /\ r.ver <= version /\ r.home \in Instances /\ r.key \in LookedUp

LEMMA AnsweredFine ==
    ASSUME StoreTypes, NEW r, NEW c
    PROVE  Answered(r, c) \in LookupRecs /\ Fine(Answered(r, c))
<1>1. /\ Answered(r, c) \in LookupRecs
      /\ Answered(r, c).pc = "done" /\ Answered(r, c).ver = 0
  BY AnsweredIs
<1>2. 0 <= version
  BY DEF StoreTypes
<1> QED
  BY <1>1, <1>2 DEF Fine, Resting, Loading

LEMMA LookedInFine ==
    ASSUME StoreTypes, NEW r, Going(r), NEW c
    PROVE  LookedIn(r, c) \in LookupRecs /\ Fine(LookedIn(r, c))
<1>1. CASE r.key \in DOMAIN c
  BY <1>1, AnsweredFine DEF LookedIn
<1>2. CASE r.key \notin DOMAIN c
  <2>1. LookedIn(r, c) = [r EXCEPT !.pc = "wantLoad", !.reason = "miss"]
    BY <1>2 DEF LookedIn
  <2>2. /\ [r EXCEPT !.pc = "wantLoad", !.reason = "miss"] \in LookupRecs
        /\ Fine([r EXCEPT !.pc = "wantLoad", !.reason = "miss"])
    BY DEF Going, Fine, LookupRecs, LookPcs, Resting, Loading
  <2> QED
    BY <2>1, <2>2
<1> QED
  BY <1>1, <1>2

LEMMA CheckedNextFine ==
    ASSUME StoreTypes, NEW r, Going(r), NEW c, NEW at
    PROVE  CheckedNext(r, c, at) \in LookupRecs /\ Fine(CheckedNext(r, c, at))
<1>1. CASE VersionCheckDue(r, c, at)
  <2>1. CheckedNext(r, c, at) = [r EXCEPT !.pc = "wantVersion"]
    BY <1>1 DEF CheckedNext
  <2>2. /\ [r EXCEPT !.pc = "wantVersion"] \in LookupRecs
        /\ Fine([r EXCEPT !.pc = "wantVersion"])
    BY DEF Going, Fine, LookupRecs, LookPcs, Resting, Loading
  <2> QED
    BY <2>1, <2>2
<1>2. CASE ~VersionCheckDue(r, c, at)
  BY <1>2, LookedInFine DEF CheckedNext
<1> QED
  BY <1>1, <1>2

LEMMA ResumedFine ==
    ASSUME StoreTypes, NEW r, Going(r), r.reason # "none", NEW c, NEW at
    PROVE  Resumed(r, c, at) \in LookupRecs /\ Fine(Resumed(r, c, at))
<1>1. r.reason \in {"stale", "changed", "miss"}
  BY DEF Going, LookupRecs
<1>2. CASE r.reason = "stale"
  BY <1>2, CheckedNextFine DEF Resumed
<1>3. CASE r.reason = "changed"
  BY <1>3, LookedInFine DEF Resumed
<1>4. CASE r.reason = "miss"
  BY <1>4, AnsweredFine DEF Resumed
<1> QED
  BY <1>1, <1>2, <1>3, <1>4

\* Noting the time of a load or of a check sets that flag and nothing else.
LEMMA NotedIs ==
    ASSUME LookTypes, NEW i \in Instances, NEW l \in Lookups
    PROVE  /\ Noted(i, "attempted") \in [Lookups -> LookupRecs]
           /\ Noted(i, "attempted")[l] =
                 IF look[l].home = i /\ look[l].pc # "done"
                 THEN [look[l] EXCEPT !.attempted = TRUE] ELSE look[l]
           /\ Noted(i, "versionKnown") \in [Lookups -> LookupRecs]
           /\ Noted(i, "versionKnown")[l] =
                 IF look[l].home = i /\ look[l].pc # "done"
                 THEN [look[l] EXCEPT !.versionKnown = TRUE] ELSE look[l]
<1>1. ASSUME NEW m \in Lookups
      PROVE  /\ [look[m] EXCEPT !.attempted = TRUE] \in LookupRecs
             /\ [look[m] EXCEPT !.versionKnown = TRUE] \in LookupRecs
             /\ look[m] \in LookupRecs
  <2>1. look[m] \in LookupRecs
    BY DEF LookTypes
  <2> QED
    BY <2>1 DEF LookupRecs
<1>2. Noted(i, "attempted") = [m \in Lookups |->
          IF look[m].home = i /\ look[m].pc # "done"
          THEN [look[m] EXCEPT !.attempted = TRUE] ELSE look[m]]
  BY DEF Noted
<1>3. Noted(i, "versionKnown") = [m \in Lookups |->
          IF look[m].home = i /\ look[m].pc # "done"
          THEN [look[m] EXCEPT !.versionKnown = TRUE] ELSE look[m]]
  BY DEF Noted
<1> QED
  BY <1>1, <1>2, <1>3

LEMMA NotedFine ==
    ASSUME LookTypes, NEW i \in Instances, NEW l \in Lookups
    PROVE  Fine(Noted(i, "attempted")[l]) /\ Fine(Noted(i, "versionKnown")[l])
<1>1. look[l] \in LookupRecs /\ Fine(look[l])
  BY DEF LookTypes
<1>2. look[l].home = i => look[l].pc # "start"
  <2>1. i # None
    BY ThreadsAssumption
  <2> QED
    BY <1>1, <2>1 DEF Fine, NewLookup
<1>3. look[l].home = i =>
         Fine([look[l] EXCEPT !.attempted = TRUE]) /\ Fine([look[l] EXCEPT !.versionKnown = TRUE])
  BY <1>1, <1>2 DEF Fine, LookupRecs
<1> QED
  BY <1>1, <1>3, NotedIs

LEMMA LookTypesNext ==
    ASSUME version' = version, look' \in [Lookups -> LookupRecs],
           \A m \in Lookups : Fine(look'[m])
    PROVE  LookTypes'
BY DEF LookTypes, Fine

\* A step that sets one lookup.
LEMMA OneLookup ==
    ASSUME LookTypes, UNCHANGED version, NEW f, f \in [Lookups -> LookupRecs],
           \A m \in Lookups : Fine(f[m]),
           NEW l \in Lookups, NEW r \in LookupRecs, Fine(r), look' = [f EXCEPT ![l] = r]
    PROVE  LookTypes'
<1>1. look' \in [Lookups -> LookupRecs] /\ \A m \in Lookups : Fine(look'[m])
  BY DEF LookTypes
<1> QED
  BY <1>1, LookTypesNext

\* What a lookup step leaves alone keeps its type.
LEMMA LeftAlone ==
    ASSUME TypeInv
    PROVE  /\ UNCHANGED <<backend, storeVars>> => StoreTypes'
           /\ UNCHANGED <<cacheVars, version>> => CacheTypes'
           /\ UNCHANGED loadVars => LoadTypes'
           /\ UNCHANGED lockVars => LockTypes'
           /\ UNCHANGED <<look, version>> => LookTypes'
           /\ UNCHANGED <<wr, backend>> => WriteTypes'
           /\ UNCHANGED <<refresher, mail>> => RefreshTypes'
           /\ UNCHANGED <<stamps, now, faults>> => ClockTypes'
<1>1. UNCHANGED <<backend, storeVars>> => StoreTypes'
  BY DEF TypeInv, StoreTypes, storeVars
<1>2. UNCHANGED <<cacheVars, version>> => CacheTypes'
  BY DEF TypeInv, CacheTypes, cacheVars
<1>3. UNCHANGED loadVars => LoadTypes'
  BY DEF TypeInv, LoadTypes, loadVars
<1>4. UNCHANGED lockVars => LockTypes'
  BY DEF TypeInv, LockTypes, lockVars
<1>5. UNCHANGED <<look, version>> => LookTypes'
  BY DEF TypeInv, LookTypes, Fine
<1>6. UNCHANGED <<wr, backend>> => WriteTypes'
  BY DEF TypeInv, WriteTypes
<1>7. UNCHANGED <<refresher, mail>> => RefreshTypes'
  BY DEF TypeInv, RefreshTypes
<1>8. UNCHANGED <<stamps, now, faults>> => ClockTypes'
  BY DEF TypeInv, ClockTypes
<1> QED
  BY <1>1, <1>2, <1>3, <1>4, <1>5, <1>6, <1>7, <1>8

\* A failed call is counted.
LEMMA FaultTypes ==
    ASSUME TypeInv, NEW kind, UNCHANGED <<stamps, now>>, Fault(kind)
    PROVE  ClockTypes' /\ faults' > 0
BY StoreAssumption DEF TypeInv, ClockTypes, Fault

\* A lookup under way, as its types say it.
LEMMA GoingOf ==
    ASSUME TypeInv, NEW l \in Lookups, look[l].pc \notin Resting
    PROVE  /\ Going(look[l]) /\ Home(l) \in Instances
           /\ look[l].pc \in Loading => look[l].reason # "none"
BY DEF TypeInv, LookTypes, Fine, Going, Home

LEMMA ResumeTypes ==
    ASSUME TypeInv, UNCHANGED version, NEW l \in Lookups, look[l].pc \in Loading,
           ResumeLookup(l)
    PROVE  LookTypes' /\ versionLock' \in [Instances -> Lookups \cup {Nobody}]
<1> DEFINE r == Resumed(look[l], cache[Home(l)], lastVersionCheck[Home(l)])
<1>0. look[l].pc \notin Resting
  BY DEF Loading, Resting
<1>1. Going(look[l]) /\ look[l].reason # "none"
  BY <1>0, GoingOf
<1>2. r \in LookupRecs /\ Fine(r)
  BY <1>1, ResumedFine DEF TypeInv
<1>3. look' = [look EXCEPT ![l] = r]
  BY DEF ResumeLookup
<1>4. LookTypes /\ look \in [Lookups -> LookupRecs] /\ \A m \in Lookups : Fine(look[m])
  BY DEF TypeInv, LookTypes
<1> HIDE DEF r
<1>5. LookTypes'
  BY <1>2, <1>3, <1>4, OneLookup
<1>6. versionLock' \in [Instances -> Lookups \cup {Nobody}]
  BY DEF ResumeLookup, VersionLockAfter, TypeInv, LockTypes
<1> QED
  BY <1>5, <1>6

LEMMA TypeLookBegin ==
    ASSUME TypeInv, NEW l \in Lookups, LookBegin(l) PROVE TypeInv'
<1>1. UNCHANGED <<backend, storeVars, cacheVars, loadVars, lockVars, wr, refresher,
                  mail, stamps, now, faults, version>>
  BY DEF LookBegin, storeVars
<1>2. LookTypes'
  <2>1. PICK k \in LookedUp, i \in Instances :
          LET r == [look[l] EXCEPT !.home = i, !.key = k, !.asked = now, !.window = {At(store, k)}]
          IN look' = [look EXCEPT ![l] =
                IF \/ cache[i] = NoKeys
                   \/ /\ now - loadedAt[i] > CacheTtl
                      /\ now - lastAttempt[i] >= ForcedInterval
                THEN [r EXCEPT !.pc = "wantLoad", !.reason = "stale"]
                ELSE CheckedNext(r, cache[i], lastVersionCheck[i])]
    BY DEF LookBegin
  <2> DEFINE r == [look[l] EXCEPT !.home = i, !.key = k, !.asked = now,
                                  !.window = {At(store, k)}]
             a == [r EXCEPT !.pc = "wantLoad", !.reason = "stale"]
             b == CheckedNext(r, cache[i], lastVersionCheck[i])
  <2>2. look[l] \in LookupRecs /\ look[l].ver <= version
    BY DEF TypeInv, LookTypes, Fine
  <2>3. {At(store, k)} \in SUBSET (Entry \cup {None}) /\ now \in 0 .. MaxTime
    <3>1. IsTable(store)
      BY TablesAre DEF TypeInv, StoreTypes
    <3> QED
      BY <3>1 DEF At, IsTable, TypeInv, ClockTypes
  <2>4. Going(r)
    <3> HIDE DEF a, b
    <3> QED BY <2>2, <2>3 DEF Going, LookupRecs
  <2>5. a \in LookupRecs /\ Fine(a)
    <3> HIDE DEF r
    <3> QED BY <2>4 DEF Going, Fine, LookupRecs, LookPcs, Resting, Loading
  <2> HIDE DEF r
  <2>6. b \in LookupRecs /\ Fine(b)
    BY <2>4, CheckedNextFine DEF TypeInv
  <2>7. PICK x \in {a, b} : look' = [look EXCEPT ![l] = x]
    BY <2>1 DEF r
  <2> HIDE DEF a, b
  <2>8. x \in LookupRecs /\ Fine(x)
    BY <2>5, <2>6, <2>7
  <2>9. LookTypes /\ look \in [Lookups -> LookupRecs] /\ \A m \in Lookups : Fine(look[m])
    BY DEF TypeInv, LookTypes
  <2> QED
    BY <1>1, <2>7, <2>8, <2>9, OneLookup
<1> QED
  BY <1>1, <1>2, LeftAlone DEF TypeInv

LEMMA TypeEnterReload ==
    ASSUME TypeInv, NEW l \in Lookups, EnterReload(l) PROVE TypeInv'
<1>1. UNCHANGED <<backend, storeVars, version, cacheVars, lastVersionCheck, writeLock, advisory,
                  wr, refresher, mail, stamps, now, faults>>
  BY DEF EnterReload, storeVars
<1>2. look[l].pc = "wantLoad"
  BY DEF EnterReload
<1>3. Going(look[l]) /\ Home(l) \in Instances /\ look[l].pc \in Loading
  BY <1>2, GoingOf DEF Loading, Resting
<1>4. CASE ResumeLookup(l) /\ UNCHANGED <<loadLock, lastAttempt, lastForced>>
  <2>1. LookTypes' /\ versionLock' \in [Instances -> Lookups \cup {Nobody}]
    BY <1>1, <1>3, <1>4, ResumeTypes
  <2>2. LockTypes'
    BY <1>1, <1>4, <2>1 DEF LockTypes, TypeInv
  <2>3. UNCHANGED loadVars
    BY <1>1, <1>4 DEF loadVars
  <2> QED
    BY <1>1, <2>1, <2>2, <2>3, LeftAlone DEF TypeInv
<1>5. CASE /\ loadLock' = [loadLock EXCEPT ![Home(l)] = l]
           /\ lastAttempt' = [lastAttempt EXCEPT ![Home(l)] = now]
           /\ lastForced' = IF look[l].reason = "miss"
                            THEN [lastForced EXCEPT ![Home(l)] = look[l].asked] ELSE lastForced
           /\ look' = [Noted(Home(l), "attempted") EXCEPT ![l].pc = "loadVersion"]
           /\ UNCHANGED versionLock
  <2> DEFINE f == Noted(Home(l), "attempted")
             r == [f[l] EXCEPT !.pc = "loadVersion"]
  <2>0. LookTypes
    BY DEF TypeInv
  <2>1. f \in [Lookups -> LookupRecs] /\ \A m \in Lookups : Fine(f[m])
    BY <1>3, <2>0, NotedIs, NotedFine
  <2>2. f[l] = [look[l] EXCEPT !.attempted = TRUE]
    BY <1>2, <1>3, <2>0, NotedIs DEF Home
  <2>3. look' = [f EXCEPT ![l] = r]
    BY <1>5
  <2> HIDE DEF f
  <2>4. r \in LookupRecs /\ Fine(r)
    BY <1>3, <2>2, GoingOf, <1>2 DEF Going, Fine, LookupRecs, LookPcs, Resting, Loading
  <2> HIDE DEF r
  <2>5. LookTypes'
    BY <1>1, <2>0, <2>1, <2>3, <2>4, OneLookup
  <2>6. now \in Times /\ look[l].asked \in Times
    <3>1. look[l].asked \in 0 .. MaxTime /\ now \in 0 .. MaxTime
      BY <1>3 DEF Going, LookupRecs, TypeInv, ClockTypes
    <3> QED
      BY <3>1, StoreAssumption DEF Times, Never
  <2>7. LoadTypes'
    BY <1>1, <1>5, <2>6 DEF TypeInv, LoadTypes
  <2>8. LockTypes'
    BY <1>1, <1>5 DEF TypeInv, LockTypes
  <2> QED
    BY <1>1, <2>5, <2>7, <2>8, LeftAlone DEF TypeInv
<1> QED
  BY <1>4, <1>5 DEF EnterReload

LEMMA TypeLockTimeout ==
    ASSUME TypeInv, NEW l \in Lookups, LockTimeout(l) PROVE TypeInv'
<1>1. UNCHANGED <<backend, storeVars, version, cacheVars, loadVars, loadLock, writeLock,
                  advisory, wr, refresher, mail, stamps, now>>
  BY DEF LockTimeout, storeVars
<1>2. ClockTypes'
  BY <1>1, FaultTypes DEF LockTimeout
<1>3. CASE look[l].pc = "wantLoad" /\ ResumeLookup(l)
  <2>1. look[l].pc \in Loading
    BY <1>3 DEF Loading
  <2>2. LookTypes' /\ versionLock' \in [Instances -> Lookups \cup {Nobody}]
    BY <1>1, <1>3, <2>1, ResumeTypes
  <2>3. LockTypes'
    BY <1>1, <2>2 DEF LockTypes, TypeInv
  <2> QED
    BY <1>1, <1>2, <2>2, <2>3, LeftAlone DEF TypeInv
<1>4. CASE /\ look[l].pc = "wantVersion"
           /\ look' = [look EXCEPT ![l] = LookedIn(@, cache[Home(l)])]
           /\ UNCHANGED versionLock
  <2>0. LookTypes /\ look \in [Lookups -> LookupRecs] /\ \A m \in Lookups : Fine(look[m])
    BY DEF TypeInv, LookTypes
  <2>1. Going(look[l])
    BY <1>4, GoingOf DEF Resting
  <2> DEFINE r == LookedIn(look[l], cache[Home(l)])
  <2>2. r \in LookupRecs /\ Fine(r)
    BY <2>1, LookedInFine DEF TypeInv
  <2>3. look' = [look EXCEPT ![l] = r]
    BY <1>4
  <2> HIDE DEF r
  <2>4. LookTypes'
    BY <1>1, <2>0, <2>2, <2>3, OneLookup
  <2>5. UNCHANGED lockVars
    BY <1>1, <1>4 DEF lockVars
  <2> QED
    BY <1>1, <1>2, <2>4, <2>5, LeftAlone DEF TypeInv
<1> QED
  BY <1>3, <1>4 DEF LockTimeout

LEMMA TypeLoadVersion ==
    ASSUME TypeInv, NEW l \in Lookups, LoadVersion(l) PROVE TypeInv'
<1>1. UNCHANGED <<backend, storeVars, version, cacheVars, loadVars, lockVars, wr, refresher,
                  mail, stamps, now>>
  BY DEF LoadVersion, storeVars
<1>2. PICK v \in {version, 0} : look' = [look EXCEPT ![l].pc = "loadData", ![l].ver = v]
  BY DEF LoadVersion
<1>3. ClockTypes'
  <2>1. CASE UNCHANGED faults
    BY <1>1, <2>1, LeftAlone
  <2>2. CASE Fault("version")
    BY <1>1, <2>2, FaultTypes
  <2> QED
    BY <2>1, <2>2 DEF LoadVersion
<1>4. Going(look[l]) /\ look[l].reason # "none" /\ look[l].pc = "loadVersion"
  BY GoingOf DEF LoadVersion, Resting, Loading
<1> DEFINE r == [look[l] EXCEPT !.pc = "loadData", !.ver = v]
<1>5. v \in Nat /\ v <= version
  BY DEF TypeInv, StoreTypes
<1>6. r \in LookupRecs /\ Fine(r)
  BY <1>4, <1>5 DEF Going, Fine, LookupRecs, LookPcs, Resting, Loading
<1>7. look' = [look EXCEPT ![l] = r]
  <2>1. look \in [Lookups -> LookupRecs] /\ look[l] \in LookupRecs
    BY DEF TypeInv, LookTypes
  <2> QED
    BY <1>2, <2>1
<1> HIDE DEF r
<1>8. LookTypes /\ look \in [Lookups -> LookupRecs] /\ \A m \in Lookups : Fine(look[m])
  BY DEF TypeInv, LookTypes
<1>9. LookTypes'
  BY <1>1, <1>6, <1>7, <1>8, OneLookup
<1> QED
  BY <1>1, <1>3, <1>9, LeftAlone DEF TypeInv

LEMMA TypeLoadData ==
    ASSUME TypeInv, NEW l \in Lookups, LoadData(l) PROVE TypeInv'
<1>1. UNCHANGED <<backend, storeVars, version, cacheVars, loadVars, writeLock, advisory, wr,
                  refresher, mail, stamps, now>>
  BY DEF LoadData, storeVars
<1>2. Going(look[l]) /\ look[l].reason # "none" /\ look[l].pc = "loadData"
      /\ Home(l) \in Instances
  BY GoingOf DEF LoadData, Resting, Loading
<1>3. CASE /\ look' = [look EXCEPT ![l].pc = "loadApply", ![l].data = store]
           /\ UNCHANGED <<loadLock, versionLock, faults>>
  <2> DEFINE r == [look[l] EXCEPT !.pc = "loadApply", !.data = store]
  <2>1. r \in LookupRecs /\ Fine(r)
    BY <1>2 DEF Going, Fine, LookupRecs, LookPcs, Resting, Loading, TypeInv, StoreTypes
  <2>2. look' = [look EXCEPT ![l] = r]
    <3>1. look \in [Lookups -> LookupRecs] /\ look[l] \in LookupRecs
      BY DEF TypeInv, LookTypes
    <3> QED
      BY <1>3, <3>1
  <2> HIDE DEF r
  <2>3. LookTypes /\ look \in [Lookups -> LookupRecs] /\ \A m \in Lookups : Fine(look[m])
    BY DEF TypeInv, LookTypes
  <2>4. LookTypes'
    BY <1>1, <2>1, <2>2, <2>3, OneLookup
  <2>5. UNCHANGED lockVars
    BY <1>1, <1>3 DEF lockVars
  <2> QED
    BY <1>1, <1>3, <2>4, <2>5, LeftAlone DEF TypeInv
<1>4. CASE /\ Fault("fetch")
           /\ loadLock' = [loadLock EXCEPT ![Home(l)] = Nobody]
           /\ ResumeLookup(l)
  <2>1. ClockTypes'
    BY <1>1, <1>4, FaultTypes
  <2>2. look[l].pc \in Loading
    BY <1>2 DEF Loading
  <2>3. LookTypes' /\ versionLock' \in [Instances -> Lookups \cup {Nobody}]
    BY <1>1, <1>4, <2>2, ResumeTypes
  <2>4. LockTypes'
    BY <1>1, <1>2, <1>4, <2>3 DEF LockTypes, TypeInv
  <2> QED
    BY <1>1, <2>1, <2>3, <2>4, LeftAlone DEF TypeInv
<1> QED
  BY <1>3, <1>4 DEF LoadData

LEMMA TypeLoadApply ==
    ASSUME TypeInv, NEW l \in Lookups, LoadApply(l) PROVE TypeInv'
<1> DEFINE i == Home(l)
           f == Noted(i, "versionKnown")
           c == [cache EXCEPT ![i] = look[l].data]
           at == [lastVersionCheck EXCEPT ![i] = now]
           r == Resumed(f[l], c[i], at[i])
<1>1. UNCHANGED <<backend, storeVars, version, overtaken, lastAttempt, lastForced, writeLock,
                  advisory, wr, refresher, mail, stamps, now, faults>>
  BY DEF LoadApply, LoadedUnder, storeVars
<1>2. /\ look[l].pc = "loadApply"
      /\ cache' = c
      /\ loadedAt' = [loadedAt EXCEPT ![i] = now]
      /\ cacheVersion' = [cacheVersion EXCEPT ![i] = look[l].ver]
      /\ lastVersionCheck' = at
      /\ loadLock' = [loadLock EXCEPT ![i] = Nobody]
      /\ versionLock' = VersionLockAfter(l)
      /\ look' = [f EXCEPT ![l] = r]
  BY DEF LoadApply, LoadedUnder
<1>3. Going(look[l]) /\ look[l].reason # "none" /\ i \in Instances
  BY <1>2, GoingOf DEF Resting, Loading
<1>4. LookTypes /\ f \in [Lookups -> LookupRecs] /\ \A m \in Lookups : Fine(f[m])
  BY <1>3, NotedIs, NotedFine DEF TypeInv
<1>5. f[l] = [look[l] EXCEPT !.versionKnown = TRUE]
  BY <1>2, <1>3, NotedIs DEF Home, TypeInv
<1> HIDE DEF f
<1>6. Going(f[l]) /\ f[l].reason # "none"
  BY <1>3, <1>4, <1>5 DEF Going, LookupRecs
<1>7. r \in LookupRecs /\ Fine(r)
  BY <1>6, ResumedFine DEF TypeInv
<1> HIDE DEF r
<1>8. LookTypes'
  BY <1>1, <1>2, <1>4, <1>7, OneLookup
<1>9. look[l].data \in Tables /\ look[l].ver \in Nat /\ look[l].ver <= version
  BY <1>3 DEF Going, LookupRecs
<1>10. now \in Times
  BY StoreAssumption DEF Times, Never, TypeInv, ClockTypes
<1> HIDE DEF i
<1>11. CacheTypes'
  BY <1>1, <1>2, <1>3, <1>9, <1>10 DEF TypeInv, CacheTypes
<1>12. LoadTypes'
  BY <1>1, <1>2, <1>3, <1>10 DEF TypeInv, LoadTypes
<1>13. LockTypes'
  BY <1>1, <1>2, <1>3 DEF TypeInv, LockTypes, VersionLockAfter
<1> QED
  BY <1>1, <1>8, <1>11, <1>12, <1>13, LeftAlone DEF TypeInv

LEMMA TypeEnterVersionCheck ==
    ASSUME TypeInv, NEW l \in Lookups, EnterVersionCheck(l) PROVE TypeInv'
<1>1. UNCHANGED <<backend, storeVars, version, cacheVars, lastAttempt, lastForced, loadLock,
                  writeLock, advisory, wr, refresher, mail, stamps, now, faults>>
  BY DEF EnterVersionCheck, storeVars
<1>2. look[l].pc = "wantVersion" /\ Going(look[l]) /\ Home(l) \in Instances
  BY GoingOf DEF EnterVersionCheck, Resting
<1>3. LookTypes /\ look \in [Lookups -> LookupRecs] /\ \A m \in Lookups : Fine(look[m])
  BY DEF TypeInv, LookTypes
<1>4. CASE look[l].versionKnown
  <2> DEFINE r == LookedIn(look[l], cache[Home(l)])
  <2>1. r \in LookupRecs /\ Fine(r)
    BY <1>2, LookedInFine DEF TypeInv
  <2>2. look' = [look EXCEPT ![l] = r] /\ UNCHANGED <<versionLock, lastVersionCheck>>
    BY <1>4 DEF EnterVersionCheck
  <2> HIDE DEF r
  <2>3. LookTypes'
    BY <1>1, <1>3, <2>1, <2>2, OneLookup
  <2>4. UNCHANGED lockVars /\ UNCHANGED loadVars
    BY <1>1, <2>2 DEF lockVars, loadVars
  <2> QED
    BY <1>1, <2>3, <2>4, LeftAlone DEF TypeInv
<1>5. CASE ~look[l].versionKnown
  <2> DEFINE f == Noted(Home(l), "versionKnown")
             r == [f[l] EXCEPT !.pc = "askVersion"]
  <2>1. f \in [Lookups -> LookupRecs] /\ \A m \in Lookups : Fine(f[m])
    BY <1>2, <1>3, NotedIs, NotedFine
  <2>2. f[l] = [look[l] EXCEPT !.versionKnown = TRUE]
    BY <1>2, <1>3, NotedIs DEF Home
  <2>3. /\ look' = [f EXCEPT ![l] = r]
        /\ versionLock' = [versionLock EXCEPT ![Home(l)] = l]
        /\ lastVersionCheck' = [lastVersionCheck EXCEPT ![Home(l)] = now]
    BY <1>5 DEF EnterVersionCheck
  <2> HIDE DEF f
  <2>4. r \in LookupRecs /\ Fine(r)
    BY <1>2, <2>2 DEF Going, Fine, LookupRecs, LookPcs, Resting, Loading
  <2> HIDE DEF r
  <2>5. LookTypes'
    BY <1>1, <1>3, <2>1, <2>3, <2>4, OneLookup
  <2>6. now \in Times
    BY StoreAssumption DEF Times, Never, TypeInv, ClockTypes
  <2>7. LoadTypes'
    BY <1>1, <1>2, <2>3, <2>6 DEF TypeInv, LoadTypes
  <2>8. LockTypes'
    BY <1>1, <1>2, <2>3 DEF TypeInv, LockTypes
  <2> QED
    BY <1>1, <2>5, <2>7, <2>8, LeftAlone DEF TypeInv
<1> QED
  BY <1>4, <1>5

LEMMA TypeAskVersion ==
    ASSUME TypeInv, NEW l \in Lookups, AskVersion(l) PROVE TypeInv'
<1>1. UNCHANGED <<backend, storeVars, version, cacheVars, loadVars, loadLock, writeLock, advisory,
                  wr, refresher, mail, stamps, now>>
  BY DEF AskVersion, storeVars
<1>2. look[l].pc = "askVersion" /\ Going(look[l]) /\ Home(l) \in Instances
  BY GoingOf DEF AskVersion, Resting
<1>3. LookTypes /\ look \in [Lookups -> LookupRecs] /\ \A m \in Lookups : Fine(look[m])
  BY DEF TypeInv, LookTypes
<1>4. ClockTypes'
  <2>1. CASE UNCHANGED faults
    BY <1>1, <2>1, LeftAlone
  <2>2. CASE Fault("version")
    BY <1>1, <2>2, FaultTypes
  <2> QED
    BY <2>1, <2>2 DEF AskVersion
<1>5. LockTypes'
  BY <1>1 DEF AskVersion, TypeInv, LockTypes, VersionLockAfter
<1> DEFINE a == [look[l] EXCEPT !.pc = "wantLoad", !.reason = "changed", !.seen = version,
                                !.checked = TRUE]
           q == [look[l] EXCEPT !.checked = TRUE]
           b == LookedIn(q, cache[Home(l)])
           d == LookedIn(look[l], cache[Home(l)])
<1>6. a \in LookupRecs /\ Fine(a)
  BY <1>2 DEF Going, Fine, LookupRecs, LookPcs, Resting, Loading, TypeInv, StoreTypes
<1>7. Going(q)
  BY <1>2 DEF Going, LookupRecs
<1> HIDE DEF q
<1>8. b \in LookupRecs /\ Fine(b) /\ d \in LookupRecs /\ Fine(d)
  BY <1>2, <1>7, LookedInFine DEF TypeInv
<1>9. look[l] \in LookupRecs
  BY <1>2 DEF Going
<1>10. PICK r \in {a, b, d} : look' = [look EXCEPT ![l] = r]
  <2>1. CASE look' = [look EXCEPT ![l].pc = "wantLoad", ![l].reason = "changed",
                                  ![l].seen = version, ![l].checked = TRUE]
    <3>1. look' = [look EXCEPT ![l] = a]
      BY <1>3, <1>9, <2>1
    <3> QED BY <3>1
  <2>2. CASE look' = [look EXCEPT ![l] = LookedIn([@ EXCEPT !.checked = TRUE], cache[Home(l)])]
    BY <2>2 DEF q
  <2>3. CASE look' = [look EXCEPT ![l] = LookedIn(@, cache[Home(l)])]
    BY <2>3
  <2> QED
    BY <2>1, <2>2, <2>3 DEF AskVersion
<1> HIDE DEF a, b, d
<1>11. LookTypes'
  BY <1>1, <1>3, <1>6, <1>8, <1>10, OneLookup
<1> QED
  BY <1>1, <1>4, <1>5, <1>11, LeftAlone DEF TypeInv

\* A commit only adds to what the lookups under way may answer.
LEMMA CommittedIs ==
    ASSUME LookTypes, NEW tb \in Tables, Committed(tb), NEW l \in Lookups
    PROVE  /\ look' \in [Lookups -> LookupRecs]
           /\ look'[l] = IF look[l].pc \in Resting THEN look[l]
                         ELSE [look[l] EXCEPT !.window = @ \cup {At(tb, look[l].key)}]
<1>1. ASSUME NEW m \in Lookups
      PROVE  /\ look[m] \in LookupRecs
             /\ [look[m] EXCEPT !.window = @ \cup {At(tb, look[m].key)}] \in LookupRecs
  <2>1. look[m] \in LookupRecs
    BY DEF LookTypes
  <2>2. At(tb, look[m].key) \in Entry \cup {None}
    BY TablesAre DEF At, IsTable
  <2> QED
    BY <2>1, <2>2 DEF LookupRecs
<1>2. look' = [m \in Lookups |->
                  IF look[m].pc \in Resting THEN look[m]
                  ELSE [look[m] EXCEPT !.window = @ \cup {At(tb, look[m].key)}]]
  BY DEF Committed, Resting
<1> QED
  BY <1>1, <1>2

LEMMA CommittedTypes ==
    ASSUME TypeInv, NEW tb \in Tables, Committed(tb), version' \in {version, version + 1}
    PROVE  store' \in Tables /\ goneAt' \in [LookedUp -> Int] /\ LookTypes'
<1>1. store' \in Tables /\ goneAt' \in [LookedUp -> Int]
  BY DEF Committed, TypeInv, StoreTypes, ClockTypes
<1>2. ASSUME NEW l \in Lookups PROVE look'[l] \in LookupRecs /\ Fine(look[l])' /\ DOMAIN look' = Lookups
  <2>1. look[l] \in LookupRecs /\ Fine(look[l])
    BY DEF TypeInv, LookTypes
  <2>2. /\ look' \in [Lookups -> LookupRecs]
        /\ look'[l] = IF look[l].pc \in Resting THEN look[l]
                      ELSE [look[l] EXCEPT !.window = @ \cup {At(tb, look[l].key)}]
    BY CommittedIs DEF TypeInv
  <2>3. /\ look'[l].ver = look[l].ver /\ look'[l].pc = look[l].pc /\ look'[l].home = look[l].home
        /\ look'[l].key = look[l].key /\ look'[l].reason = look[l].reason
        /\ (look[l].pc = "start" => look'[l] = look[l])
    BY <2>1, <2>2 DEF LookupRecs, Resting
  <2>4. look[l].ver \in Nat /\ version \in Nat
    BY <2>1 DEF LookupRecs, TypeInv, StoreTypes
  <2>5. look[l].ver <= version'
    BY <2>1, <2>4 DEF Fine
  <2>6. NewLookup' = NewLookup
    BY DEF NewLookup, NoKeys
  <2>7. Fine(look[l])'
    BY <2>1, <2>3, <2>5, <2>6 DEF Fine
  <2> QED
    BY <2>2, <2>7
<1>3. LookTypes'
  <2>1. ASSUME NEW l \in Lookups PROVE look' \in [Lookups -> LookupRecs]
    BY CommittedIs DEF TypeInv
  <2>2. look' \in [Lookups -> LookupRecs]
    <3>1. CASE Lookups = {}
      BY <3>1 DEF Committed
    <3>2. CASE Lookups # {}
      BY <2>1, <3>2
    <3> QED BY <3>1, <3>2
  <2> QED
    BY <1>2, <2>2 DEF LookTypes
<1> QED
  BY <1>1, <1>3

\* A writer as it may be.
Busy(w, r) ==
    /\ r \in WriterRecs
    /\ r.pc \notin Idle =>
        /\ r.op \in Op /\ r.op.key = FreshKey[w]
        /\ r.home \in WritersAt[backend] /\ r.home \in Instances

LEMMA OneWriter ==
    ASSUME TypeInv, UNCHANGED backend, NEW w \in Writers, NEW r, Busy(w, r),
           wr' = [wr EXCEPT ![w] = r]
    PROVE  WriteTypes'
BY DEF TypeInv, WriteTypes, Busy

LEMMA OverIs ==
    ASSUME NEW how \in Idle, NEW w \in Writers
    PROVE  /\ Over(how) \in WriterRecs /\ Over(how).pc = how /\ Over(how).data = NoKeys
           /\ Busy(w, Over(how))
<1>1. Over(how) \in WriterRecs /\ Over(how).pc = how /\ Over(how).data = NoKeys
  BY NewIsLookup DEF Over, WriterRecs, WriterPcs, Idle
<1> QED
  BY <1>1 DEF Busy

\* A writer under way, as its types say it.
LEMMA BusyOf ==
    ASSUME TypeInv, NEW w \in Writers, wr[w].pc \notin Idle
    PROVE  /\ wr[w] \in WriterRecs /\ wr[w].op \in Op /\ wr[w].op.key = FreshKey[w]
           /\ wr[w].home \in WritersAt[backend] /\ wr[w].home \in Instances
           /\ WHome(w) = wr[w].home
BY DEF TypeInv, WriteTypes, WHome

LEMMA AppliedIs ==
    ASSUME TypeInv, NEW w \in Writers, wr[w].pc \notin Idle
    PROVE  /\ Applied(w) \in Op /\ Applied(w).key = FreshKey[w]
           /\ Applied(w).tenant = wr[w].op.tenant /\ Applied(w).kind = wr[w].op.kind
           /\ StampsAfter(w) \in Nat
<1>1. wr[w].op \in Op /\ wr[w].op.key = FreshKey[w] /\ stamps + 1 \in Nat /\ stamps \in Nat
  BY BusyOf DEF TypeInv, ClockTypes
<1>2. [wr[w].op EXCEPT !.stamp = stamps + 1] \in Op
  BY <1>1 DEF Op
<1> QED
  BY <1>1, <1>2 DEF Applied, StampsAfter, Op

LEMMA EndsTypes ==
    ASSUME TypeInv, UNCHANGED backend, NEW w \in Writers, wr[w].pc \notin Idle,
           NEW how \in Idle, Ends(w, how)
    PROVE  WriteTypes' /\ writeLock' \in [Instances -> Writers \cup {Nobody}]
<1>1. WriteTypes'
  BY OverIs, OneWriter DEF Ends
<1>2. writeLock' \in [Instances -> Writers \cup {Nobody}]
  BY BusyOf DEF Ends, TypeInv, LockTypes
<1> QED
  BY <1>1, <1>2

LEMMA TypeWriteBegin ==
    ASSUME TypeInv, NEW w \in Writers, WriteBegin(w) PROVE TypeInv'
<1>1. UNCHANGED <<backend, storeVars, version, cacheVars, loadVars, lockVars, look, refresher,
                  mail, now, faults>>
  BY DEF WriteBegin, storeVars
<1>2. PICK c \in Changes[backend][w], i \in WritersAt[backend] :
        /\ wr' = [wr EXCEPT ![w].pc = "wantWrite", ![w].home = i,
                            ![w].op = [kind |-> c.kind, tenant |-> c.tenant, on |-> c.on,
                                       cidrs |-> c.cidrs, key |-> FreshKey[w],
                                       stamp |-> stamps + 1]]
        /\ stamps' = IF c.kind = "create" THEN stamps + 1 ELSE stamps
  BY DEF WriteBegin
<1> DEFINE op == [kind |-> c.kind, tenant |-> c.tenant, on |-> c.on, cidrs |-> c.cidrs,
                  key |-> FreshKey[w], stamp |-> stamps + 1]
           r == [wr[w] EXCEPT !.pc = "wantWrite", !.home = i, !.op = op]
<1>3. backend \in Backends /\ stamps \in Nat /\ wr \in [Writers -> WriterRecs]
  BY DEF TypeInv, StoreTypes, ClockTypes, WriteTypes
<1>4. /\ c.kind \in Kinds /\ c.tenant \in Tenants /\ c.on \in BOOLEAN /\ c.cidrs \subseteq Cidrs
      /\ i \in Instances
  BY <1>3, ThreadsAssumption
<1>5. FreshKey[w] \in Keys
  BY FreshAssumption
<1>6. op \in Op
  BY <1>3, <1>4, <1>5 DEF Op
<1>7. op.key = FreshKey[w]
  OBVIOUS
<1>8. wr' = [wr EXCEPT ![w].pc = "wantWrite", ![w].home = i, ![w].op = op]
  BY <1>2
<1> HIDE DEF op
<1>9. Busy(w, r) /\ wr' = [wr EXCEPT ![w] = r]
  BY <1>3, <1>4, <1>6, <1>7, <1>8 DEF Busy, WriterRecs, WriterPcs
<1> HIDE DEF r
<1>10. WriteTypes'
  BY <1>1, <1>9, OneWriter
<1>11. ClockTypes'
  BY <1>1, <1>2 DEF TypeInv, ClockTypes
<1> QED
  BY <1>1, <1>10, <1>11, LeftAlone DEF TypeInv

LEMMA TypeTakeWriteLock ==
    ASSUME TypeInv, NEW w \in Writers, TakeWriteLock(w) PROVE TypeInv'
<1>1. UNCHANGED <<backend, storeVars, version, cacheVars, loadVars, loadLock, versionLock,
                  advisory, look, refresher, mail, stamps, now, faults>>
  BY DEF TakeWriteLock, storeVars
<1>2. wr[w].pc = "wantWrite" /\ wr[w].pc \notin Idle
  BY DEF TakeWriteLock, Idle
<1>3. PICK p \in {"begin", "load"} : wr' = [wr EXCEPT ![w].pc = p]
  BY DEF TakeWriteLock
<1>4. writeLock' = [writeLock EXCEPT ![wr[w].home] = w]
  BY DEF TakeWriteLock, WHome
<1>5. LockTypes'
  BY <1>1, <1>2, <1>4, BusyOf DEF TypeInv, LockTypes
<1>6. Busy(w, [wr[w] EXCEPT !.pc = p]) /\ wr' = [wr EXCEPT ![w] = [wr[w] EXCEPT !.pc = p]]
  <2>1. wr \in [Writers -> WriterRecs]
    BY DEF TypeInv, WriteTypes
  <2> QED
    BY <1>2, <1>3, <2>1, BusyOf DEF Busy, WriterRecs, WriterPcs
<1>7. WriteTypes'
  BY <1>1, <1>6, OneWriter
<1> QED
  BY <1>1, <1>5, <1>7, LeftAlone DEF TypeInv

\* Reading the store and changing the copy: the three ways it may go.
LEMMA LoadFullStoreIs ==
    ASSUME TypeInv, NEW w \in Writers, LoadFullStore(w)
    PROVE  /\ wr[w].pc = "load" /\ wr[w].pc \notin Idle
           /\ UNCHANGED <<backend, storeVars, version, store, revoked, cacheVars, loadVars,
                          loadLock, versionLock, advisory, look, refresher, mail, now>>
           /\ \/ Ends(w, "failed") /\ UNCHANGED stamps
              \/ Ends(w, "done") /\ stamps' = StampsAfter(w)
              \/ /\ \E tb \in {store, NoKeys} :
                      /\ tb # store => Fault("write_fetch")
                      /\ ~Refuses(Applied(w), tb)
                      /\ wr' = [wr EXCEPT ![w].pc = "persist",
                                          ![w].data = Mutated(Applied(w), tb)]
                 /\ UNCHANGED writeLock /\ stamps' = StampsAfter(w)
           /\ UNCHANGED faults \/ Fault("write_fetch")
<1>1. wr[w].pc = "load" /\ wr[w].pc \notin Idle
  BY DEF LoadFullStore, Idle
<1>2. UNCHANGED <<backend, storeVars, version, store, revoked, cacheVars, loadVars,
                  loadLock, versionLock, advisory, look, refresher, mail, now>>
  BY DEF LoadFullStore, storeVars
<1>3. PICK tb \in {store, NoKeys} :
        /\ \/ tb = store /\ UNCHANGED faults
           \/ tb = NoKeys /\ Fault("write_fetch")
        /\ \/ /\ Refuses(Applied(w), tb)
              /\ Ends(w, "failed")
              /\ UNCHANGED stamps
           \/ /\ ~Refuses(Applied(w), tb)
              /\ stamps' = StampsAfter(w)
              /\ IF Mutated(Applied(w), tb) = tb
                 THEN Ends(w, "done")
                 ELSE /\ wr' = [wr EXCEPT ![w].pc = "persist",
                                          ![w].data = Mutated(Applied(w), tb)]
                      /\ UNCHANGED writeLock
  BY DEF LoadFullStore
<1> QED
  BY <1>1, <1>2, <1>3

LEMMA TypeLoadFullStore ==
    ASSUME AllStamps, TypeInv, NEW w \in Writers, LoadFullStore(w) PROVE TypeInv'
<1>1. /\ wr[w].pc = "load" /\ wr[w].pc \notin Idle
      /\ UNCHANGED <<backend, storeVars, version, cacheVars, loadVars, loadLock, versionLock,
                     advisory, look, refresher, mail, now>>
  BY LoadFullStoreIs
<1>2. ClockTypes'
  <2>1. stamps' \in Nat
    <3>1. stamps' = stamps \/ stamps' = StampsAfter(w)
      BY LoadFullStoreIs
    <3> QED
      BY <1>1, <3>1, AppliedIs DEF TypeInv, ClockTypes
  <2>2. faults' \in 0 .. MaxFaults
    <3>1. UNCHANGED faults \/ Fault("write_fetch")
      BY LoadFullStoreIs
    <3> QED
      BY <3>1, StoreAssumption DEF TypeInv, ClockTypes, Fault
  <2>3. now' \in 0 .. MaxTime
    BY <1>1 DEF TypeInv, ClockTypes
  <2> QED
    BY <2>1, <2>2, <2>3 DEF ClockTypes
<1>3. CASE Ends(w, "failed") \/ Ends(w, "done")
  <2>1. "failed" \in Idle /\ "done" \in Idle
    BY DEF Idle
  <2>2. WriteTypes' /\ writeLock' \in [Instances -> Writers \cup {Nobody}]
    BY <1>1, <1>3, <2>1, EndsTypes
  <2>3. LockTypes'
    BY <1>1, <2>2 DEF TypeInv, LockTypes
  <2> QED
    BY <1>1, <1>2, <2>2, <2>3, LeftAlone DEF TypeInv
<1>4. CASE /\ \E tb \in {store, NoKeys} :
                /\ ~Refuses(Applied(w), tb)
                /\ wr' = [wr EXCEPT ![w].pc = "persist", ![w].data = Mutated(Applied(w), tb)]
           /\ UNCHANGED writeLock
  <2>1. PICK tb \in {store, NoKeys} :
                /\ ~Refuses(Applied(w), tb)
                /\ wr' = [wr EXCEPT ![w].pc = "persist", ![w].data = Mutated(Applied(w), tb)]
    BY <1>4
  <2>2. tb \in Tables /\ Applied(w) \in Op
    BY <1>1, NewIsLookup, AppliedIs DEF TypeInv, StoreTypes
  <2> DEFINE d == Mutated(Applied(w), tb)
  <2>3. d \in Tables
    BY <2>1, <2>2, MutatedKeeps
  <2> HIDE DEF d
  <2> DEFINE r == [wr[w] EXCEPT !.pc = "persist", !.data = d]
  <2>4. wr \in [Writers -> WriterRecs]
    BY DEF TypeInv, WriteTypes
  <2>5. wr' = [wr EXCEPT ![w] = r]
    BY <2>1, <2>4 DEF d
  <2>6. Busy(w, r)
    BY <1>1, <2>3, <2>4, BusyOf DEF Busy, WriterRecs, WriterPcs
  <2> HIDE DEF r
  <2>7. WriteTypes'
    BY <1>1, <2>5, <2>6, OneWriter
  <2>8. UNCHANGED lockVars
    BY <1>1, <1>4 DEF lockVars
  <2> QED
    BY <1>1, <1>2, <2>7, <2>8, LeftAlone DEF TypeInv
<1> QED
  BY <1>3, <1>4, LoadFullStoreIs

\* Setting where a writer is and what it holds.
LEMMA MovedWriter ==
    ASSUME TypeInv, UNCHANGED backend, NEW w \in Writers, wr[w].pc \notin Idle,
           NEW p \in WriterPcs, NEW d \in Tables,
           wr' = [wr EXCEPT ![w].pc = p, ![w].data = d]
    PROVE  WriteTypes'
<1> DEFINE r == [wr[w] EXCEPT !.pc = p, !.data = d]
<1>1. wr \in [Writers -> WriterRecs]
  BY DEF TypeInv, WriteTypes
<1>2. wr' = [wr EXCEPT ![w] = r]
  BY <1>1
<1>3. Busy(w, r)
  BY <1>1, BusyOf DEF Busy, WriterRecs
<1> HIDE DEF r
<1> QED
  BY <1>2, <1>3, OneWriter

LEMMA TypePersist ==
    ASSUME TypeInv, NEW w \in Writers, Persist(w) PROVE TypeInv'
<1>1. UNCHANGED <<backend, revoked, cacheVars, loadVars, loadLock, versionLock, advisory,
                  refresher, mail, stamps, now>>
  BY DEF Persist
<1>2. wr[w].pc = "persist" /\ wr[w].pc \notin Idle
  BY DEF Persist, Idle
<1>3. wr[w].data \in Tables /\ wr \in [Writers -> WriterRecs]
  BY DEF TypeInv, WriteTypes, WriterRecs
<1>4. version' \in {version, version + 1} /\ version \in Nat
  BY DEF Persist, TypeInv, StoreTypes
<1>5. StoreTypes' /\ LookTypes'
  <2>1. CASE Committed(wr[w].data)
    <3>1. store' \in Tables /\ goneAt' \in [LookedUp -> Int] /\ LookTypes'
      BY <1>3, <1>4, <2>1, CommittedTypes
    <3> QED
      BY <1>1, <1>4, <3>1 DEF TypeInv, StoreTypes
  <2>2. CASE UNCHANGED <<store, version, goneAt, look>>
    <3>1. UNCHANGED <<backend, storeVars, look, version>>
      BY <1>1, <2>2 DEF storeVars
    <3> QED
      BY <3>1, LeftAlone
  <2> QED
    BY <2>1, <2>2 DEF Persist
<1>6. CacheTypes'
  <2>1. \A i \in Instances : cacheVersion[i] \in Nat /\ cacheVersion[i] <= version
    BY DEF TypeInv, CacheTypes
  <2>2. \A i \in Instances : cacheVersion[i] <= version'
    BY <1>4, <2>1
  <2> QED
    BY <1>1, <2>2 DEF TypeInv, CacheTypes, cacheVars
<1>7. WriteTypes' /\ writeLock' \in [Instances -> Writers \cup {Nobody}] /\ ClockTypes'
  <2>1. CASE wr' = [wr EXCEPT ![w].pc = "assign"] /\ UNCHANGED <<writeLock, faults>>
    <3>1. Busy(w, [wr[w] EXCEPT !.pc = "assign"])
          /\ wr' = [wr EXCEPT ![w] = [wr[w] EXCEPT !.pc = "assign"]]
      BY <1>2, <1>3, <2>1, BusyOf DEF Busy, WriterRecs, WriterPcs
    <3>2. WriteTypes'
      BY <1>1, <3>1, OneWriter
    <3> QED
      BY <1>1, <2>1, <3>2 DEF TypeInv, LockTypes, ClockTypes
  <2>2. CASE Ends(w, "failed") /\ Fault("write")
    <3>1. "failed" \in Idle
      BY DEF Idle
    <3>2. ClockTypes'
      BY <1>1, <2>2, FaultTypes
    <3> QED
      BY <1>1, <1>2, <2>2, <3>1, <3>2, EndsTypes
  <2> QED
    BY <2>1, <2>2 DEF Persist
<1>8. LockTypes'
  BY <1>1, <1>7 DEF TypeInv, LockTypes
<1> QED
  BY <1>1, <1>5, <1>6, <1>7, <1>8, LeftAlone DEF TypeInv

LEMMA TypeAssign ==
    ASSUME TypeInv, NEW w \in Writers, Assign(w) PROVE TypeInv'
<1>1. UNCHANGED <<backend, storeVars, version, cacheVersion, loadVars, loadLock, versionLock,
                  advisory, look, refresher, mail, stamps, now, faults>>
  BY DEF Assign, storeVars
<1>2. wr[w].pc = "assign" /\ wr[w].pc \notin Idle
  BY DEF Assign, Idle
<1>3. wr[w].data \in Tables /\ wr[w].home \in Instances /\ WHome(w) = wr[w].home
  BY <1>2, BusyOf DEF WriterRecs
<1>4. now \in Times
  BY StoreAssumption DEF Times, Never, TypeInv, ClockTypes
<1>5. Older(w) \in SUBSET Tenants
  BY DEF Older
<1>6. CacheTypes'
  BY <1>1, <1>3, <1>4, <1>5 DEF Assign, TypeInv, CacheTypes
<1>7. WriteTypes' /\ writeLock' \in [Instances -> Writers \cup {Nobody}]
  <2>1. CASE Ends(w, "done")
    <3>1. "done" \in Idle
      BY DEF Idle
    <3> QED
      BY <1>1, <1>2, <2>1, <3>1, EndsTypes
  <2>2. CASE /\ wr' = [wr EXCEPT ![w].pc = "announce", ![w].data = NoKeys]
             /\ writeLock' = [writeLock EXCEPT ![WHome(w)] = Nobody]
    <3>1. "announce" \in WriterPcs /\ NoKeys \in Tables
      BY NewIsLookup DEF WriterPcs
    <3>2. WriteTypes'
      BY <1>1, <1>2, <2>2, <3>1, MovedWriter
    <3> QED
      BY <1>3, <2>2, <3>2 DEF TypeInv, LockTypes
  <2> QED
    BY <2>1, <2>2 DEF Assign
<1>8. LockTypes'
  BY <1>1, <1>7 DEF TypeInv, LockTypes
<1> QED
  BY <1>1, <1>6, <1>7, <1>8, LeftAlone DEF TypeInv

LEMMA TypeBeginTransaction ==
    ASSUME TypeInv, NEW w \in Writers, BeginTransaction(w) PROVE TypeInv'
<1>1. UNCHANGED <<backend, storeVars, version, cacheVars, loadVars, loadLock, versionLock,
                  writeLock, look, refresher, mail, stamps, now, faults>>
  BY DEF BeginTransaction, storeVars
<1>2. wr[w].pc = "begin" /\ wr[w].pc \notin Idle /\ "commit" \in WriterPcs /\ store \in Tables
  BY DEF BeginTransaction, Idle, WriterPcs, TypeInv, StoreTypes
<1>3. wr' = [wr EXCEPT ![w].pc = "commit", ![w].data = store] /\ advisory' = w
  BY DEF BeginTransaction
<1>4. WriteTypes'
  BY <1>1, <1>2, <1>3, MovedWriter
<1>5. LockTypes'
  BY <1>1, <1>3 DEF TypeInv, LockTypes
<1> QED
  BY <1>1, <1>4, <1>5, LeftAlone DEF TypeInv

\* _write_diff leaves a table, and so is what transact returns.
LEMMA DiffTypes ==
    ASSUME TypeInv, NEW before, NEW after \in Tables
    PROVE  DiffWritten(before, after) \in Tables /\ Kept(before, after) \in Tables
<1>1. IsTable(after) /\ IsTable(store)
  BY TablesAre DEF TypeInv, StoreTypes
<1>2. IsTable(DiffWritten(before, after))
  BY <1>1 DEF IsTable, DiffWritten, Upserts, Removed
<1>3. IsTable(Kept(before, after))
  BY <1>1 DEF IsTable, Kept
<1> QED
  BY <1>2, <1>3, TablesAre

LEMMA TypeCommit ==
    ASSUME AllStamps, TypeInv, NEW w \in Writers, Commit(w) PROVE TypeInv'
<1> DEFINE before == wr[w].data
           after == Mutated(Applied(w), before)
<1>1. /\ UNCHANGED <<backend, cacheVars, loadVars, loadLock, versionLock, refresher, mail,
                     now, faults, version>>
      /\ wr[w].pc = "commit" /\ advisory' = Nobody
  BY DEF Commit, storeVars
<1>2. wr[w].pc \notin Idle /\ "assign" \in WriterPcs /\ before \in Tables /\ Applied(w) \in Op
      /\ StampsAfter(w) \in Nat
  BY <1>1, BusyOf, AppliedIs DEF Idle, WriterPcs, WriterRecs
<1>3. CASE Ends(w, "failed") /\ UNCHANGED <<storeVars, look, stamps>>
  <2>1. "failed" \in Idle
    BY DEF Idle
  <2>2. WriteTypes' /\ writeLock' \in [Instances -> Writers \cup {Nobody}]
    BY <1>1, <1>2, <1>3, <2>1, EndsTypes
  <2>3. LockTypes'
    BY <1>1, <2>2 DEF TypeInv, LockTypes
  <2> QED
    BY <1>1, <1>3, <2>2, <2>3, LeftAlone DEF TypeInv
<1>4. CASE /\ ~Refuses(Applied(w), before)
           /\ Committed(DiffWritten(before, after))
           /\ revoked' = revoked \cup (Removed(before, after) \cap DOMAIN store)
           /\ stamps' = StampsAfter(w)
           /\ wr' = [wr EXCEPT ![w].pc = "assign", ![w].data = Kept(before, after)]
           /\ UNCHANGED <<version, writeLock>>
  <2>1. after \in Tables
    BY <1>2, <1>4, MutatedKeeps
  <2> HIDE DEF after
  <2>2. DiffWritten(before, after) \in Tables /\ Kept(before, after) \in Tables
    BY <2>1, DiffTypes
  <2>3. WriteTypes'
    BY <1>1, <1>2, <1>4, <2>2, MovedWriter
  <2>4. store' \in Tables /\ goneAt' \in [LookedUp -> Int] /\ LookTypes'
    BY <1>1, <1>4, <2>2, CommittedTypes
  <2>5. revoked' \in SUBSET Keys
    <3>1. DOMAIN store \in SUBSET Keys /\ revoked \in SUBSET Keys
      BY TablesAre DEF TypeInv, StoreTypes, IsTable
    <3> QED
      BY <1>4, <3>1
  <2>6. StoreTypes'
    BY <1>1, <2>4, <2>5 DEF TypeInv, StoreTypes
  <2>7. LockTypes'
    BY <1>1, <1>4 DEF TypeInv, LockTypes
  <2>8. ClockTypes'
    BY <1>1, <1>2, <1>4 DEF TypeInv, ClockTypes
  <2> QED
    BY <1>1, <2>3, <2>4, <2>6, <2>7, <2>8, LeftAlone DEF TypeInv
<1> QED
  BY <1>3, <1>4 DEF Commit

LEMMA TypeTransactTimeout ==
    ASSUME TypeInv, NEW w \in Writers, TransactTimeout(w) PROVE TypeInv'
<1>1. /\ UNCHANGED <<backend, storeVars, version, cacheVars, loadVars, loadLock, versionLock,
                     look, refresher, mail, stamps, now>>
      /\ wr[w].pc \notin Idle /\ Ends(w, "failed") /\ Fault("timeout") /\ "failed" \in Idle
      /\ advisory' \in {Nobody, advisory}
  BY DEF TransactTimeout, storeVars, Idle
<1>2. WriteTypes' /\ writeLock' \in [Instances -> Writers \cup {Nobody}]
  BY <1>1, EndsTypes
<1>3. LockTypes'
  BY <1>1, <1>2 DEF TypeInv, LockTypes
<1>4. ClockTypes'
  BY <1>1, FaultTypes
<1> QED
  BY <1>1, <1>2, <1>3, <1>4, LeftAlone DEF TypeInv

LEMMA TypeAnnounce ==
    ASSUME TypeInv, NEW w \in Writers, Announce(w) PROVE TypeInv'
<1>1. /\ UNCHANGED <<backend, storeVars, version, cacheVars, loadVars, lockVars, look, refresher,
                     stamps, now>>
      /\ wr[w].pc = "announce" /\ wr[w].pc \notin Idle /\ wr' = [wr EXCEPT ![w] = Over("done")]
  BY DEF Announce, storeVars, Idle
<1>2. WriteTypes'
  <2>1. "done" \in Idle
    BY DEF Idle
  <2> QED
    BY <1>1, <2>1, OverIs, OneWriter
<1>3. wr[w].op.tenant \in Tenants
  BY <1>1, BusyOf DEF Op
<1>4. RefreshTypes'
  BY <1>1, <1>3 DEF Announce, TypeInv, RefreshTypes
<1>5. ClockTypes'
  <2>1. CASE UNCHANGED faults
    BY <1>1, <2>1, LeftAlone
  <2>2. CASE Fault("announce")
    BY <1>1, <2>2, FaultTypes
  <2> QED
    BY <2>1, <2>2 DEF Announce
<1> QED
  BY <1>1, <1>2, <1>4, <1>5, LeftAlone DEF TypeInv

LEMMA OneRefresher ==
    ASSUME TypeInv, UNCHANGED mail, NEW i \in Instances, NEW r \in RefresherRecs,
           refresher' = [refresher EXCEPT ![i] = r]
    PROVE  RefreshTypes'
BY DEF TypeInv, RefreshTypes

\* What a tenant's re-read makes of the cache is a table.
LEMMA ReplacedTypes ==
    ASSUME NEW c \in Tables, NEW ts, NEW data \in Tables
    PROVE  TenantsReplaced(c, ts, data) \in Tables
<1>1. IsTable(c) /\ IsTable(data)
  BY TablesAre
<1>2. IsTable(TenantsReplaced(c, ts, data))
  BY <1>1 DEF TenantsReplaced, IsTable
<1> QED
  BY <1>2, TablesAre

LEMMA TypeRefresh ==
    ASSUME TypeInv, NEW i \in Instances, Refresh(i) PROVE TypeInv'
<1>0. refresher \in [Instances -> RefresherRecs] /\ refresher[i] \in RefresherRecs
      /\ mail \in [Instances -> SUBSET Tenants]
  BY DEF TypeInv, RefreshTypes
<1>1. CASE Request(i)
  <2>1. UNCHANGED <<backend, storeVars, version, cacheVars, loadVars, lockVars, look, wr, stamps,
                    now, faults>>
    BY <1>1 DEF Request, storeVars
  <2>2. PICK t \in mail[i] : /\ mail' = [mail EXCEPT ![i] = @ \ {t}]
                             /\ refresher' = [refresher EXCEPT ![i].tenants = @ \cup {t}]
    BY <1>1 DEF Request
  <2>3. [refresher[i] EXCEPT !.tenants = @ \cup {t}] \in RefresherRecs
    BY <1>0 DEF RefresherRecs
  <2>4. refresher' = [refresher EXCEPT ![i] = [refresher[i] EXCEPT !.tenants = @ \cup {t}]]
    BY <1>0, <2>2
  <2>5. RefreshTypes'
    BY <1>0, <2>2, <2>3, <2>4 DEF RefreshTypes
  <2> QED
    BY <2>1, <2>5, LeftAlone DEF TypeInv
<1>2. CASE RefreshBegin(i)
  <2>1. UNCHANGED <<backend, storeVars, version, cacheVars, loadVars, lockVars, look, wr, mail,
                    stamps, now, faults>>
    BY <1>2 DEF RefreshBegin, storeVars
  <2> DEFINE all == ~Asked(i) \/ refresher[i].full
             r == [refresher[i] EXCEPT !.pc = "read", !.full = FALSE, !.tenants = {},
                                       !.servesFull = all, !.serves = refresher[i].tenants]
  <2>2. refresher' = [refresher EXCEPT ![i] = r]
    BY <1>2 DEF RefreshBegin
  <2>3. all \in BOOLEAN
    OBVIOUS
  <2> HIDE DEF all
  <2>4. r \in RefresherRecs
    BY <1>0, <2>3 DEF RefresherRecs
  <2> HIDE DEF r
  <2>5. RefreshTypes'
    BY <2>1, <2>2, <2>4, OneRefresher
  <2> QED
    BY <2>1, <2>5, LeftAlone DEF TypeInv
<1>3. CASE RefreshRead(i)
  <2>1. UNCHANGED <<backend, storeVars, version, cacheVars, loadVars, lockVars, look, wr, mail,
                    stamps, now>>
    BY <1>3 DEF RefreshRead, storeVars
  <2> DEFINE d == [k \in {h \in DOMAIN store : refresher[i].servesFull
                                      \/ store[h].tenant \in refresher[i].serves} |-> store[k]]
             a == [refresher[i] EXCEPT !.pc = "apply", !.data = d]
             b == [refresher[i] EXCEPT !.pc = "idle", !.full = TRUE, !.servesFull = FALSE,
                                       !.serves = {}]
  <2>2. d \in Tables
    <3>1. IsTable(store)
      BY TablesAre DEF TypeInv, StoreTypes
    <3>2. IsTable(d)
      BY <3>1 DEF IsTable
    <3> QED
      BY <3>2, TablesAre
  <2>3. CASE /\ refresher' = [refresher EXCEPT ![i].pc = "apply", ![i].data = d]
             /\ UNCHANGED faults
    <3> HIDE DEF d
    <3>1. a \in RefresherRecs /\ refresher' = [refresher EXCEPT ![i] = a]
      BY <1>0, <2>2, <2>3 DEF RefresherRecs
    <3> HIDE DEF a
    <3>2. RefreshTypes'
      BY <2>1, <3>1, OneRefresher
    <3> QED
      BY <2>1, <2>3, <3>2, LeftAlone DEF TypeInv
  <2>4. CASE Fault("refresh") /\ refresher' = [refresher EXCEPT ![i] = b]
    <3>1. b \in RefresherRecs
      BY <1>0 DEF RefresherRecs
    <3> HIDE DEF b
    <3>2. RefreshTypes' /\ ClockTypes'
      BY <2>1, <2>4, <3>1, OneRefresher, FaultTypes
    <3> QED
      BY <2>1, <3>2, LeftAlone DEF TypeInv
  <2> QED
    BY <1>3, <2>3, <2>4 DEF RefreshRead
<1>4. CASE RefreshApply(i)
  <2>1. UNCHANGED <<backend, storeVars, version, cacheVersion, lastAttempt, lastForced, lockVars,
                    look, wr, mail, stamps, now, faults>>
    BY <1>4 DEF RefreshApply, storeVars
  <2> DEFINE r == [refresher[i] EXCEPT !.pc = "idle", !.servesFull = FALSE, !.serves = {},
                                       !.data = NoKeys]
  <2>2. refresher' = [refresher EXCEPT ![i] = r]
    BY <1>4 DEF RefreshApply
  <2>3. r \in RefresherRecs
    BY <1>0, NewIsLookup DEF RefresherRecs
  <2> HIDE DEF r
  <2>4. RefreshTypes'
    BY <2>1, <2>2, <2>3, OneRefresher
  <2>5. now \in Times
    BY StoreAssumption DEF Times, Never, TypeInv, ClockTypes
  <2>6. refresher[i].data \in Tables /\ cache[i] \in Tables
    BY <1>0 DEF RefresherRecs, TypeInv, CacheTypes
  <2>7. TenantsReplaced(cache[i], refresher[i].serves, refresher[i].data) \in Tables
    BY <2>6, ReplacedTypes
  <2>8. CacheTypes'
    <3>1. cache' \in [Instances -> Tables]
      BY <1>4, <2>6, <2>7 DEF RefreshApply, TypeInv, CacheTypes
    <3>2. loadedAt' \in [Instances -> Times]
      BY <1>4, <2>5 DEF RefreshApply, TypeInv, CacheTypes
    <3>3. overtaken' \in [Instances -> SUBSET Tenants]
      BY <1>4 DEF RefreshApply, TypeInv, CacheTypes
    <3> QED
      BY <2>1, <3>1, <3>2, <3>3 DEF TypeInv, CacheTypes
  <2>9. LoadTypes'
    BY <1>4, <2>1, <2>5 DEF RefreshApply, TypeInv, LoadTypes
  <2> QED
    BY <2>1, <2>4, <2>8, <2>9, LeftAlone DEF TypeInv
<1> QED
  BY <1>1, <1>2, <1>3, <1>4 DEF Refresh

LEMMA TypeStep == ASSUME AllStamps PROVE TypeInv /\ [Next]_vars => TypeInv'
<1> SUFFICES ASSUME TypeInv, [Next]_vars PROVE TypeInv'
  OBVIOUS
<1>1. CASE Tick
  <2>1. UNCHANGED <<backend, storeVars, version, cacheVars, loadVars, lockVars, look, wr,
                    refresher, mail, stamps, faults>>
    BY <1>1 DEF Tick, storeVars
  <2>2. ClockTypes'
    <3>1. now' \in 0 .. MaxTime
      BY <1>1, StoreAssumption DEF Tick, TypeInv, ClockTypes
    <3> QED
      BY <2>1, <3>1 DEF TypeInv, ClockTypes
  <2> QED
    BY <2>1, <2>2, LeftAlone DEF TypeInv
<1>2. ASSUME NEW l \in Lookups, Look(l) PROVE TypeInv'
  BY <1>2, TypeLookBegin, TypeEnterReload, TypeLockTimeout, TypeLoadVersion, TypeLoadData,
     TypeLoadApply, TypeEnterVersionCheck, TypeAskVersion DEF Look
<1>3. ASSUME NEW w \in Writers, Write(w) PROVE TypeInv'
  BY <1>3, TypeWriteBegin, TypeTakeWriteLock, TypeLoadFullStore, TypePersist, TypeAssign,
     TypeBeginTransaction, TypeCommit, TypeTransactTimeout, TypeAnnounce DEF Write
<1>4. ASSUME NEW i \in Instances, Refresh(i) PROVE TypeInv'
  BY <1>4, TypeRefresh
<1>5. CASE UNCHANGED vars
  <2>1. UNCHANGED <<backend, storeVars, version, cacheVars, loadVars, lockVars, look, wr,
                    refresher, mail, stamps, now, faults>>
    BY <1>5 DEF vars, storeVars
  <2> QED
    BY <2>1, LeftAlone DEF TypeInv
<1> QED
  BY <1>1, <1>2, <1>3, <1>4, <1>5 DEF Next

\* Whatever runs and fails, every variable keeps its type: no cache is ever
\* marked with a version the store has not reached.
THEOREM KeyTypes == ASSUME AllStamps PROVE Spec => []TypeOK
<1>1. Init => TypeInv
  BY TypeInit
<1>2. TypeInv => TypeOK
  <2> SUFFICES ASSUME TypeInv PROVE TypeOK
    OBVIOUS
  <2>1. /\ backend \in Backends /\ IsTable(store) /\ version \in Nat /\ revoked \subseteq Keys
        /\ advisory \in Writers \cup {Nobody}
        /\ stamps \in Stamps /\ now \in 0 .. MaxTime /\ faults \in 0 .. MaxFaults
    BY TablesAre DEF TypeInv, StoreTypes, LockTypes, ClockTypes, AllStamps
  <2>2. ASSUME NEW i \in Instances
        PROVE  /\ IsTable(cache[i]) /\ cacheVersion[i] \in 0 .. version
               /\ {loadedAt[i], lastVersionCheck[i], lastAttempt[i], lastForced[i]} \subseteq Times
               /\ loadLock[i] \in Lookups \cup {Nobody}
               /\ versionLock[i] \in Lookups \cup {Nobody}
               /\ writeLock[i] \in Writers \cup {Nobody}
               /\ refresher[i].pc \in {"idle", "read", "apply"}
               /\ refresher[i].tenants \cup refresher[i].serves \cup mail[i] \subseteq Tenants
    <3>1. IsTable(cache[i])
      BY TablesAre DEF TypeInv, CacheTypes
    <3>2. cacheVersion[i] \in 0 .. version
      BY DEF TypeInv, CacheTypes, StoreTypes
    <3>3. {loadedAt[i], lastVersionCheck[i], lastAttempt[i], lastForced[i]} \subseteq Times
      BY DEF TypeInv, CacheTypes, LoadTypes
    <3>4. refresher[i] \in RefresherRecs /\ mail[i] \in SUBSET Tenants
      BY DEF TypeInv, RefreshTypes
    <3> QED
      BY <3>1, <3>2, <3>3, <3>4 DEF TypeInv, LockTypes, RefresherRecs
  <2>3. ASSUME NEW l \in Lookups
        PROVE  look[l].pc \in {"start", "wantLoad", "loadVersion", "loadData", "loadApply",
                               "wantVersion", "askVersion", "done"}
    BY DEF TypeInv, LookTypes, LookupRecs, LookPcs
  <2>4. ASSUME NEW w \in Writers
        PROVE  /\ wr[w].pc \in {"start", "wantWrite", "load", "persist", "assign", "begin",
                                "commit", "announce", "done", "failed"}
               /\ wr[w].pc \notin {"start", "done", "failed"} => wr[w].op \in Op
    BY DEF TypeInv, WriteTypes, WriterRecs, WriterPcs, Idle
  <2> QED
    BY <2>1, <2>2, <2>3, <2>4 DEF TypeOK
<1> QED
  BY <1>1, <1>2, TypeStep, PTL DEF Spec

-----------------------------------------------------------------------------
\* What the steps of a writer do to the store, the locks and itself, the rest
\* left out: each operator is one way an action may go.
Stays == UNCHANGED <<store, revoked, version>>

Goes(w, p, d) ==
    /\ wr'[w].pc = p /\ wr'[w].data = d
    /\ \A v \in Writers : v # w => wr'[v] = wr[v]

Further(w, p, d) == Goes(w, p, d) /\ wr'[w].home = wr[w].home /\ wr'[w].op = wr[w].op

Releases(w) == writeLock' = [writeLock EXCEPT ![wr[w].home] = Nobody]

Starts(w) ==
    /\ wr[w].pc = "start" /\ Goes(w, "wantWrite", wr[w].data)
    /\ Stays /\ UNCHANGED <<writeLock, advisory>>

Locks(w) ==
    /\ wr[w].pc = "wantWrite" /\ writeLock[wr[w].home] = Nobody
    /\ Further(w, IF backend = "postgres" THEN "begin" ELSE "load", wr[w].data)
    /\ writeLock' = [writeLock EXCEPT ![wr[w].home] = w]
    /\ Stays /\ UNCHANGED advisory

Holding == {"load", "persist", "assign", "begin", "commit"}

Quits(w) ==
    /\ wr[w].pc \in Holding
    /\ \E p \in {"done", "failed"} : Goes(w, p, NoKeys)
    /\ Releases(w) /\ Stays
    /\ \/ advisory' = advisory
       \/ advisory' = Nobody /\ (advisory = w \/ wr[w].pc = "commit")

Loads(w) ==
    /\ wr[w].pc = "load"
    /\ \E tb \in {store, NoKeys} :
          /\ tb # store => Fault("write_fetch")
          /\ ~Refuses(Applied(w), tb)
          /\ Further(w, "persist", Mutated(Applied(w), tb))
    /\ Stays /\ UNCHANGED <<writeLock, advisory>>

Persists(w) ==
    /\ wr[w].pc = "persist" /\ store' = wr[w].data /\ version' = version + 1
    /\ \/ Further(w, "assign", wr[w].data) /\ UNCHANGED writeLock
       \/ Goes(w, "failed", NoKeys) /\ Releases(w)
    /\ UNCHANGED <<revoked, advisory>>

Assigns(w) ==
    /\ wr[w].pc = "assign" /\ backend = "postgres" /\ Further(w, "announce", NoKeys)
    /\ Releases(w) /\ Stays /\ UNCHANGED advisory

Opens(w) ==
    /\ wr[w].pc = "begin" /\ advisory = Nobody /\ advisory' = w
    /\ Further(w, "commit", store) /\ Stays /\ UNCHANGED writeLock

Commits(w) ==
    LET after == Mutated(Applied(w), wr[w].data)
    IN  /\ wr[w].pc = "commit" /\ ~Refuses(Applied(w), wr[w].data) /\ advisory' = Nobody
        /\ store' = DiffWritten(wr[w].data, after)
        /\ revoked' = revoked \cup (Removed(wr[w].data, after) \cap DOMAIN store)
        /\ Further(w, "assign", Kept(wr[w].data, after))
        /\ UNCHANGED <<version, writeLock>>

Tells(w) ==
    /\ wr[w].pc = "announce" /\ Goes(w, "done", NoKeys) /\ Stays
    /\ UNCHANGED <<writeLock, advisory>>

LEMMA GoesBy ==
    ASSUME TypeInv, NEW w \in Writers, NEW p, NEW d,
           \/ wr' = [wr EXCEPT ![w].pc = p, ![w].data = d]
           \/ wr' = [wr EXCEPT ![w].pc = p] /\ d = wr[w].data
    PROVE  Further(w, p, d)
<1>1. wr \in [Writers -> WriterRecs] /\ wr[w] \in WriterRecs
  BY DEF TypeInv, WriteTypes
<1> QED
  BY <1>1 DEF Further, Goes, WriterRecs

LEMMA EndsIs ==
    ASSUME TypeInv, NEW w \in Writers, wr[w].pc \notin Idle, NEW p \in {"done", "failed"},
           Ends(w, p)
    PROVE  Goes(w, p, NoKeys) /\ Releases(w)
<1>1. wr \in [Writers -> WriterRecs]
  BY DEF TypeInv, WriteTypes
<1>2. Over(p).pc = p /\ Over(p).data = NoKeys
  BY DEF Over
<1> QED
  BY <1>1, <1>2 DEF Ends, Goes, Releases, WHome

LEMMA WriteIs ==
    ASSUME TypeInv, NEW w \in Writers, Write(w)
    PROVE  /\ UNCHANGED backend
           /\ \/ Starts(w) \/ Locks(w) \/ Quits(w) \/ Loads(w) \/ Persists(w) \/ Assigns(w)
              \/ Opens(w) \/ Commits(w) \/ Tells(w)
<1>0. wr \in [Writers -> WriterRecs] /\ wr[w] \in WriterRecs
  BY DEF TypeInv, WriteTypes
<1>1. CASE WriteBegin(w)
  <2>1. PICK i, op : wr' = [wr EXCEPT ![w].pc = "wantWrite", ![w].home = i, ![w].op = op]
    BY <1>1 DEF WriteBegin
  <2>2. Goes(w, "wantWrite", wr[w].data)
    BY <1>0, <2>1 DEF Goes, WriterRecs
  <2> QED
    BY <1>1, <2>2 DEF WriteBegin, Starts, Stays, storeVars, lockVars
<1>2. CASE TakeWriteLock(w)
  <2>1. Further(w, IF backend = "postgres" THEN "begin" ELSE "load", wr[w].data)
    BY <1>2, GoesBy DEF TakeWriteLock
  <2> QED
    BY <1>2, <2>1 DEF TakeWriteLock, Locks, Stays, storeVars, WHome
<1>3. CASE LoadFullStore(w)
  <2>1. /\ wr[w].pc = "load" /\ wr[w].pc \notin Idle
        /\ UNCHANGED <<backend, store, revoked, version, advisory>>
    BY <1>3, LoadFullStoreIs
  <2>2. CASE Ends(w, "failed") \/ Ends(w, "done")
    <3>1. \E p \in {"done", "failed"} : Ends(w, p)
      BY <2>2
    <3>2. (\E p \in {"done", "failed"} : Goes(w, p, NoKeys)) /\ Releases(w)
      BY <2>1, <3>1, EndsIs
    <3> QED
      BY <2>1, <3>2 DEF Quits, Stays, Holding
  <2>3. CASE /\ \E tb \in {store, NoKeys} :
                  /\ tb # store => Fault("write_fetch")
                  /\ ~Refuses(Applied(w), tb)
                  /\ wr' = [wr EXCEPT ![w].pc = "persist", ![w].data = Mutated(Applied(w), tb)]
             /\ UNCHANGED writeLock
    <3>1. PICK tb \in {store, NoKeys} :
                  /\ tb # store => Fault("write_fetch")
                  /\ ~Refuses(Applied(w), tb)
                  /\ wr' = [wr EXCEPT ![w].pc = "persist", ![w].data = Mutated(Applied(w), tb)]
      BY <2>3
    <3>2. Further(w, "persist", Mutated(Applied(w), tb))
      BY <3>1, GoesBy
    <3> QED
      BY <2>1, <2>3, <3>1, <3>2 DEF Loads, Stays
  <2> QED
    BY <1>3, <2>1, <2>2, <2>3, LoadFullStoreIs
<1>4. CASE Persist(w)
  <2>1. wr[w].pc = "persist" /\ wr[w].pc \notin Idle /\ UNCHANGED <<backend, revoked, advisory>>
    BY <1>4 DEF Persist, Idle
  <2>2. CASE Committed(wr[w].data) /\ version' = version + 1
    <3>1. store' = wr[w].data
      BY <2>2 DEF Committed
    <3>2. CASE wr' = [wr EXCEPT ![w].pc = "assign"] /\ UNCHANGED writeLock
      <4>1. Further(w, "assign", wr[w].data)
        BY <3>2, GoesBy
      <4> QED
        BY <2>1, <2>2, <3>1, <3>2, <4>1 DEF Persists
    <3>3. CASE Ends(w, "failed")
      <4>1. Goes(w, "failed", NoKeys) /\ Releases(w)
        BY <2>1, <3>3, EndsIs
      <4> QED
        BY <2>1, <2>2, <3>1, <4>1 DEF Persists
    <3>4. (wr' = [wr EXCEPT ![w].pc = "assign"] /\ UNCHANGED writeLock) \/ Ends(w, "failed")
      BY <1>4 DEF Persist
    <3> QED
      BY <3>2, <3>3, <3>4
  <2>3. CASE Ends(w, "failed") /\ UNCHANGED <<store, version>>
    <3>1. Goes(w, "failed", NoKeys) /\ Releases(w)
      BY <2>1, <2>3, EndsIs
    <3> QED
      BY <2>1, <2>3, <3>1 DEF Quits, Stays, Holding
  <2> QED
    BY <1>4, <2>1, <2>2, <2>3 DEF Persist
<1>5. CASE Assign(w)
  <2>1. wr[w].pc = "assign" /\ wr[w].pc \notin Idle /\ Stays /\ UNCHANGED <<backend, advisory>>
    BY <1>5 DEF Assign, Idle, Stays, storeVars
  <2>2. CASE Ends(w, "done")
    <3>1. Goes(w, "done", NoKeys) /\ Releases(w)
      BY <2>1, <2>2, EndsIs
    <3> QED
      BY <2>1, <3>1 DEF Quits, Holding
  <2>3. CASE /\ backend = "postgres"
             /\ wr' = [wr EXCEPT ![w].pc = "announce", ![w].data = NoKeys]
             /\ writeLock' = [writeLock EXCEPT ![WHome(w)] = Nobody]
    <3>1. Further(w, "announce", NoKeys)
      BY <2>3, GoesBy
    <3> QED
      BY <2>1, <2>3, <3>1 DEF Assigns, Releases, WHome
  <2> QED
    BY <1>5, <2>1, <2>2, <2>3 DEF Assign
<1>6. CASE BeginTransaction(w)
  <2>1. Further(w, "commit", store)
    BY <1>6, GoesBy DEF BeginTransaction
  <2> QED
    BY <1>6, <2>1 DEF BeginTransaction, Opens, Stays, storeVars, AdvisoryFree
<1>7. CASE Commit(w)
  <2>1. wr[w].pc = "commit" /\ wr[w].pc \notin Idle /\ UNCHANGED backend /\ advisory' = Nobody
    BY <1>7 DEF Commit, Idle
  <2>2. CASE Ends(w, "failed") /\ UNCHANGED storeVars
    <3>1. Goes(w, "failed", NoKeys) /\ Releases(w)
      BY <2>1, <2>2, EndsIs
    <3> QED
      BY <2>1, <2>2, <3>1 DEF Quits, Stays, Holding, storeVars
  <2> DEFINE after == Mutated(Applied(w), wr[w].data)
  <2>3. CASE /\ ~Refuses(Applied(w), wr[w].data)
             /\ Committed(DiffWritten(wr[w].data, after))
             /\ revoked' = revoked \cup (Removed(wr[w].data, after) \cap DOMAIN store)
             /\ wr' = [wr EXCEPT ![w].pc = "assign", ![w].data = Kept(wr[w].data, after)]
             /\ UNCHANGED <<version, writeLock>>
    <3>1. Further(w, "assign", Kept(wr[w].data, after))
      BY <2>3, GoesBy
    <3>2. store' = DiffWritten(wr[w].data, after)
      BY <2>3 DEF Committed
    <3> QED
      BY <2>1, <2>3, <3>1, <3>2 DEF Commits
  <2> QED
    BY <1>7, <2>1, <2>2, <2>3 DEF Commit
<1>8. CASE TransactTimeout(w)
  <2>1. /\ wr[w].pc \in {"begin", "commit", "assign"} /\ wr[w].pc \notin Idle /\ Stays
        /\ UNCHANGED backend /\ Ends(w, "failed")
        /\ advisory' = IF advisory = w THEN Nobody ELSE advisory
    BY <1>8 DEF TransactTimeout, Idle, Stays, storeVars
  <2>2. Goes(w, "failed", NoKeys) /\ Releases(w)
    BY <2>1, EndsIs
  <2> QED
    BY <2>1, <2>2 DEF Quits, Holding
<1>9. CASE Announce(w)
  <2>1. Goes(w, "done", NoKeys)
    BY <1>0, <1>9 DEF Announce, Over, Goes
  <2> QED
    BY <1>9, <2>1 DEF Announce, Tells, Stays, storeVars, lockVars
<1> QED
  BY <1>1, <1>2, <1>3, <1>4, <1>5, <1>6, <1>7, <1>8, <1>9 DEF Write

\* Everything else leaves the store and the writers alone.
StoreSide == <<backend, store, version, revoked, advisory, writeLock, wr>>

LEMMA OthersLeave ==
    ASSUME \/ Tick \/ (\E l \in Lookups : Look(l)) \/ (\E i \in Instances : Refresh(i))
           \/ UNCHANGED vars
    PROVE  UNCHANGED StoreSide
<1>1. CASE Tick
  BY <1>1 DEF Tick, StoreSide, storeVars, lockVars
<1>2. ASSUME NEW l \in Lookups, Look(l) PROVE UNCHANGED StoreSide
  <2>1. CASE LookBegin(l)
    BY <2>1 DEF LookBegin, StoreSide, storeVars, lockVars
  <2>2. CASE EnterReload(l)
    BY <2>2 DEF EnterReload, StoreSide, storeVars
  <2>3. CASE LockTimeout(l)
    BY <2>3 DEF LockTimeout, StoreSide, storeVars
  <2>4. CASE LoadVersion(l)
    BY <2>4 DEF LoadVersion, StoreSide, storeVars, lockVars
  <2>5. CASE LoadData(l)
    BY <2>5 DEF LoadData, StoreSide, storeVars
  <2>6. CASE LoadApply(l)
    BY <2>6 DEF LoadApply, LoadedUnder, StoreSide, storeVars
  <2>7. CASE EnterVersionCheck(l)
    BY <2>7 DEF EnterVersionCheck, StoreSide, storeVars
  <2>8. CASE AskVersion(l)
    BY <2>8 DEF AskVersion, StoreSide, storeVars
  <2> QED
    BY <1>2, <2>1, <2>2, <2>3, <2>4, <2>5, <2>6, <2>7, <2>8 DEF Look
<1>3. ASSUME NEW i \in Instances, Refresh(i) PROVE UNCHANGED StoreSide
  <2>1. CASE Request(i)
    BY <2>1 DEF Request, StoreSide, storeVars, lockVars
  <2>2. CASE RefreshBegin(i)
    BY <2>2 DEF RefreshBegin, StoreSide, storeVars, lockVars
  <2>3. CASE RefreshRead(i)
    BY <2>3 DEF RefreshRead, StoreSide, storeVars, lockVars
  <2>4. CASE RefreshApply(i)
    BY <2>4 DEF RefreshApply, StoreSide, storeVars, lockVars
  <2> QED
    BY <1>3, <2>1, <2>2, <2>3, <2>4 DEF Refresh
<1>4. CASE UNCHANGED vars
  BY <1>4 DEF vars, StoreSide, storeVars, lockVars
<1> QED
  BY <1>1, <1>2, <1>3, <1>4

-----------------------------------------------------------------------------
\* Who holds what: a writer has its instance's lock from the read to the cache, and
\* a transaction has the store as it is.
HoldInv == \A w \in Writers : wr[w].pc \in Holding => writeLock[wr[w].home] = w

TransactInv == \A w \in Writers : wr[w].pc = "commit" => advisory = w /\ wr[w].data = store

PathInv ==
    /\ backend = "secret" =>
          revoked = {} /\ \A w \in Writers : wr[w].pc \notin {"begin", "commit", "announce"}
    /\ backend = "postgres" => \A w \in Writers : wr[w].pc \notin {"load", "persist"}

LockInv == HoldInv /\ TransactInv /\ PathInv

\* A step of one writer under the lock of its instance disturbs no other holder.
LEMMA ReleaseHolds ==
    ASSUME TypeInv, HoldInv, NEW w \in Writers, wr[w].pc \in Holding,
           \/ Releases(w) /\ wr'[w].pc \notin Holding
           \/ UNCHANGED writeLock /\ wr'[w].home = wr[w].home,
           \A v \in Writers : v # w => wr'[v] = wr[v]
    PROVE  HoldInv'
<1> SUFFICES ASSUME NEW v \in Writers, wr'[v].pc \in Holding
             PROVE  writeLock'[wr'[v].home] = v
  BY DEF HoldInv
<1>1. writeLock[wr[w].home] = w
  BY DEF HoldInv
<1>2. CASE v = w
  BY <1>1, <1>2
<1>3. CASE v # w
  <2>1. wr'[v] = wr[v] /\ writeLock[wr[v].home] = v
    BY <1>3 DEF HoldInv
  <2>2. wr[v].home # wr[w].home
    BY <1>1, <1>3, <2>1
  <2>3. wr[v].home \in Instances /\ writeLock \in [Instances -> Writers \cup {Nobody}]
    <3>1. wr[v].pc \notin Idle
      BY <2>1 DEF Idle, Holding
    <3> QED
      BY <3>1, BusyOf DEF TypeInv, LockTypes
  <2> QED
    BY <2>1, <2>2, <2>3 DEF Releases
<1> QED
  BY <1>2, <1>3

LEMMA LockStep == ASSUME TypeInv, LockInv, [Next]_vars PROVE LockInv'
<1>1. CASE UNCHANGED StoreSide
  BY <1>1 DEF StoreSide, LockInv, HoldInv, TransactInv, PathInv
<1>2. ASSUME NEW w \in Writers, Write(w) PROVE LockInv'
  <2>0. /\ UNCHANGED backend /\ HoldInv /\ TransactInv /\ PathInv
        /\ backend \in {"secret", "postgres"} /\ w # Nobody
        /\ writeLock \in [Instances -> Writers \cup {Nobody}]
    BY <1>2, WriteIs, StoreAssumption, ThreadsAssumption DEF LockInv, TypeInv, StoreTypes, LockTypes
  <2>1. CASE Starts(w)
    <3>1. HoldInv'
      BY <2>0, <2>1 DEF Starts, Goes, HoldInv, Holding
    <3>2. TransactInv'
      BY <2>0, <2>1 DEF Starts, Goes, Stays, TransactInv
    <3>3. PathInv'
      BY <2>0, <2>1 DEF Starts, Goes, Stays, PathInv
    <3> QED BY <3>1, <3>2, <3>3 DEF LockInv
  <2>2. CASE Locks(w)
    <3>1. HoldInv'
      <4> SUFFICES ASSUME NEW v \in Writers, wr'[v].pc \in Holding
                   PROVE  writeLock'[wr'[v].home] = v
        BY DEF HoldInv
      <4>1. wr[w].home \in Instances /\ wr'[w].home = wr[w].home
        <5>1. wr[w].pc \notin Idle
          BY <2>2 DEF Locks, Idle
        <5> QED
          BY <2>2, <5>1, BusyOf DEF Locks, Further
      <4>2. CASE v = w
        BY <2>0, <2>2, <4>1, <4>2 DEF Locks
      <4>3. CASE v # w
        <5>1. wr'[v] = wr[v] /\ writeLock[wr[v].home] = v /\ v # Nobody
          BY <2>0, <2>2, <4>3, ThreadsAssumption DEF Locks, Further, Goes, HoldInv
        <5>2. wr[v].home # wr[w].home
          BY <2>2, <5>1 DEF Locks
        <5> QED
          BY <2>0, <2>2, <4>1, <5>1, <5>2 DEF Locks
      <4> QED BY <4>2, <4>3
    <3>2. TransactInv'
      BY <2>0, <2>2 DEF Locks, Further, Goes, Stays, TransactInv
    <3>3. PathInv'
      BY <2>0, <2>2 DEF Locks, Further, Goes, Stays, PathInv
    <3> QED BY <3>1, <3>2, <3>3 DEF LockInv
  <2>3. CASE Quits(w)
    <3>0. PICK p \in {"done", "failed"} : Goes(w, p, NoKeys)
      BY <2>3 DEF Quits
    <3>1. HoldInv'
      BY <2>0, <2>3, <3>0, ReleaseHolds DEF Quits, Goes, Holding
    <3>2. TransactInv'
      BY <2>0, <2>3, <3>0 DEF Quits, Goes, Stays, TransactInv
    <3>3. PathInv'
      BY <2>0, <2>3, <3>0 DEF Quits, Goes, Stays, PathInv
    <3> QED BY <3>1, <3>2, <3>3 DEF LockInv
  <2>4. CASE Loads(w)
    <3>0. PICK d : Further(w, "persist", d)
      BY <2>4 DEF Loads
    <3>1. HoldInv'
      BY <2>0, <2>4, <3>0, ReleaseHolds DEF Loads, Further, Goes, Holding
    <3>2. TransactInv'
      BY <2>0, <2>4, <3>0 DEF Loads, Further, Goes, Stays, TransactInv
    <3>3. PathInv'
      BY <2>0, <2>4, <3>0 DEF Loads, Further, Goes, Stays, PathInv
    <3> QED BY <3>1, <3>2, <3>3 DEF LockInv
  <2>5. CASE Persists(w)
    <3>1. HoldInv'
      BY <2>0, <2>5, ReleaseHolds DEF Persists, Further, Goes, Holding
    <3>2. backend = "secret"
      BY <2>0, <2>5 DEF Persists, PathInv
    <3>3. TransactInv'
      BY <2>0, <2>5, <3>2 DEF Persists, Further, Goes, TransactInv, PathInv
    <3>4. PathInv'
      BY <2>0, <2>5, <3>2 DEF Persists, Further, Goes, PathInv
    <3> QED BY <3>1, <3>3, <3>4 DEF LockInv
  <2>6. CASE Assigns(w)
    <3>1. HoldInv'
      BY <2>0, <2>6, ReleaseHolds DEF Assigns, Further, Goes, Holding
    <3>2. TransactInv'
      BY <2>0, <2>6 DEF Assigns, Further, Goes, Stays, TransactInv
    <3>3. PathInv'
      BY <2>0, <2>6 DEF Assigns, Further, Goes, Stays, PathInv
    <3> QED BY <3>1, <3>2, <3>3 DEF LockInv
  <2>7. CASE Opens(w)
    <3>1. HoldInv'
      BY <2>0, <2>7, ReleaseHolds DEF Opens, Further, Goes, Holding
    <3>2. TransactInv'
      BY <2>0, <2>7, ThreadsAssumption DEF Opens, Further, Goes, Stays, TransactInv
    <3>3. PathInv'
      BY <2>0, <2>7 DEF Opens, Further, Goes, Stays, PathInv
    <3> QED BY <3>1, <3>2, <3>3 DEF LockInv
  <2>8. CASE Commits(w)
    <3>0. PICK d : Further(w, "assign", d) /\ wr[w].pc = "commit" /\ advisory' = Nobody
      BY <2>8 DEF Commits
    <3>1. HoldInv'
      BY <2>0, <2>8, <3>0, ReleaseHolds DEF Commits, Further, Goes, Holding
    <3>2. TransactInv'
      BY <2>0, <3>0 DEF Further, Goes, TransactInv
    <3>3. PathInv'
      BY <2>0, <3>0 DEF Further, Goes, PathInv
    <3> QED BY <3>1, <3>2, <3>3 DEF LockInv
  <2>9. CASE Tells(w)
    <3>1. HoldInv'
      BY <2>0, <2>9 DEF Tells, Goes, HoldInv, Holding
    <3>2. TransactInv'
      BY <2>0, <2>9 DEF Tells, Goes, Stays, TransactInv
    <3>3. PathInv'
      BY <2>0, <2>9 DEF Tells, Goes, Stays, PathInv
    <3> QED BY <3>1, <3>2, <3>3 DEF LockInv
  <2> QED
    BY <1>2, <2>1, <2>2, <2>3, <2>4, <2>5, <2>6, <2>7, <2>8, <2>9, WriteIs
<1> QED
  BY <1>1, <1>2, OthersLeave DEF Next

-----------------------------------------------------------------------------
\* A key that was drawn and not yet issued is nowhere, and none that is recorded
\* as revoked is in the store: so _write_diff writes all of what it is given.
Unissued == {"start", "wantWrite", "load", "begin", "commit"}

FreshInv ==
    /\ revoked \cap DOMAIN store = {}
    /\ \A w \in Writers : wr[w].pc \in Unissued =>
          /\ FreshKey[w] \notin DOMAIN store /\ FreshKey[w] \notin revoked
          /\ \A v \in Writers : FreshKey[w] \notin DOMAIN wr[v].data

LEMMA MutatedDomain ==
    ASSUME NEW op \in Op, NEW tb
    PROVE  DOMAIN Mutated(op, tb) \subseteq DOMAIN tb \cup {op.key}
<1>1. op.kind \in Kinds
  BY DEF Op
<1> QED
  BY <1>1 DEF Kinds, Mutated, CreateKey, RotateTenantKeys, DeleteTenantKeys, SetSuspended,
              SetContractActive, SetIpAllowlist

LEMMA DiffIsAfter ==
    ASSUME IsTable(store), NEW after, IsTable(after), revoked \cap DOMAIN after = {}
    PROVE  DiffWritten(store, after) = after /\ Kept(store, after) = after
<1> DEFINE ups == {k \in DOMAIN after : At(store, k) # after[k]}
<1>1. Upserts(store, after) = ups
  BY DEF Upserts, Removed
<1>2. \A k \in DOMAIN after \ ups : k \in DOMAIN store /\ store[k] = after[k]
  BY ThreadsAssumption DEF At, IsTable
<1>3. (DOMAIN store \ Removed(store, after)) \cup ups = DOMAIN after
  BY <1>2 DEF Removed
<1>4. DiffWritten(store, after) = [k \in DOMAIN after |-> IF k \in ups THEN after[k] ELSE store[k]]
  BY <1>1, <1>3 DEF DiffWritten
<1>5. DiffWritten(store, after) = [k \in DOMAIN after |-> after[k]]
  <2> HIDE DEF ups
  <2> QED BY <1>2, <1>4
<1>6. {h \in DOMAIN after : At(store, h) = after[h] \/ h \in Upserts(store, after)} = DOMAIN after
  BY <1>1
<1>7. Kept(store, after) = [k \in DOMAIN after |-> after[k]]
  BY <1>6 DEF Kept
<1> QED
  BY <1>5, <1>7 DEF IsTable

LEMMA CommitsIs ==
    ASSUME AllStamps, TypeInv, LockInv, FreshInv, NEW w \in Writers, Commits(w)
    PROVE  /\ ~Refuses(Applied(w), store) /\ Applied(w) \in Op /\ Applied(w).key = FreshKey[w]
           /\ FreshKey[w] \notin DOMAIN store
           /\ store' = Mutated(Applied(w), store)
           /\ Further(w, "assign", store')
           /\ revoked' = revoked \cup (DOMAIN store \ DOMAIN store')
           /\ DOMAIN store' \subseteq DOMAIN store \cup {FreshKey[w]}
<1> DEFINE after == Mutated(Applied(w), store)
<1>1. wr[w].pc = "commit" /\ wr[w].data = store /\ wr[w].pc \notin Idle /\ store \in Tables
  BY DEF Commits, LockInv, TransactInv, Idle, TypeInv, StoreTypes
<1>2. Applied(w) \in Op /\ Applied(w).key = FreshKey[w] /\ ~Refuses(Applied(w), store)
  BY <1>1, AppliedIs DEF Commits
<1>3. FreshKey[w] \notin DOMAIN store /\ FreshKey[w] \notin revoked /\ revoked \cap DOMAIN store = {}
  BY <1>1 DEF FreshInv, Unissued
<1>4. after \in Tables /\ DOMAIN after \subseteq DOMAIN store \cup {FreshKey[w]}
  BY <1>1, <1>2, MutatedKeeps, MutatedDomain
<1>5. /\ store' = DiffWritten(store, after)
      /\ revoked' = revoked \cup (Removed(store, after) \cap DOMAIN store)
      /\ Further(w, "assign", Kept(store, after))
  BY <1>1 DEF Commits
<1> HIDE DEF after
<1>6. DiffWritten(store, after) = after /\ Kept(store, after) = after
  BY <1>1, <1>3, <1>4, DiffIsAfter, TablesAre
<1>7. revoked' = revoked \cup (DOMAIN store \ DOMAIN after)
  BY <1>5 DEF Removed
<1> QED
  BY <1>2, <1>3, <1>4, <1>5, <1>6, <1>7 DEF after

\* Another's key is not the one a writer may bring in.
LEMMA FreshKeeps ==
    ASSUME FreshInv, NEW w \in Writers, \A v \in Writers : v # w => wr'[v] = wr[v],
           wr'[w].pc \in Unissued => wr[w].pc \in Unissued /\ FreshKey[w] \notin DOMAIN wr'[w].data
              /\ FreshKey[w] \notin DOMAIN store' /\ FreshKey[w] \notin revoked',
           DOMAIN wr'[w].data \subseteq DOMAIN wr[w].data \cup DOMAIN store \cup {FreshKey[w]},
           DOMAIN store' \subseteq DOMAIN wr[w].data \cup DOMAIN store \cup {FreshKey[w]},
           revoked' \subseteq revoked \cup DOMAIN store,
           revoked' \cap DOMAIN store' = {}
    PROVE  FreshInv'
<1> SUFFICES ASSUME NEW v \in Writers, wr'[v].pc \in Unissued
             PROVE  /\ FreshKey[v] \notin DOMAIN store' /\ FreshKey[v] \notin revoked'
                    /\ \A u \in Writers : FreshKey[v] \notin DOMAIN wr'[u].data
  BY DEF FreshInv
<1>1. CASE v = w
  BY <1>1 DEF FreshInv
<1>2. CASE v # w
  <2>1. wr[v].pc \in Unissued /\ FreshKey[v] # FreshKey[w]
    BY <1>2, FreshAssumption
  <2> QED
    BY <1>2, <2>1 DEF FreshInv
<1> QED
  BY <1>1, <1>2

LEMMA FreshStep ==
    ASSUME AllStamps, TypeInv, LockInv, FreshInv, [Next]_vars PROVE FreshInv'
<1>1. CASE UNCHANGED StoreSide
  BY <1>1 DEF StoreSide, FreshInv
<1>2. ASSUME NEW w \in Writers, Write(w) PROVE FreshInv'
  <2>0. DOMAIN NoKeys = {}
    BY DEF NoKeys
  <2>1. CASE Starts(w) \/ Locks(w) \/ Opens(w)
    <3>1. /\ \A v \in Writers : v # w => wr'[v] = wr[v]
          /\ UNCHANGED <<store, revoked>> /\ wr[w].pc \in Unissued
          /\ wr'[w].data \in {wr[w].data, store}
      BY <2>1 DEF Starts, Locks, Opens, Goes, Further, Stays, Unissued
    <3> QED
      BY <3>1, FreshKeeps DEF FreshInv
  <2>2. CASE Quits(w) \/ Assigns(w) \/ Tells(w)
    <3>1. /\ \A v \in Writers : v # w => wr'[v] = wr[v]
          /\ UNCHANGED <<store, revoked>> /\ wr'[w].pc \notin Unissued /\ wr'[w].data = NoKeys
      BY <2>2 DEF Quits, Assigns, Tells, Goes, Further, Stays, Unissued
    <3> QED
      BY <2>0, <3>1, FreshKeeps DEF FreshInv
  <2>3. CASE Loads(w)
    <3>1. PICK tb \in {store, NoKeys} : Further(w, "persist", Mutated(Applied(w), tb))
      BY <2>3 DEF Loads
    <3>2. wr[w].pc \notin Idle
      BY <2>3 DEF Loads, Idle
    <3>3. Applied(w) \in Op /\ Applied(w).key = FreshKey[w]
      BY <3>2, AppliedIs
    <3>4. DOMAIN Mutated(Applied(w), tb) \subseteq DOMAIN tb \cup {FreshKey[w]}
      BY <3>3, MutatedDomain
    <3>5. UNCHANGED <<store, revoked>> /\ wr'[w].data = Mutated(Applied(w), tb)
          /\ wr'[w].pc \notin Unissued /\ \A v \in Writers : v # w => wr'[v] = wr[v]
      BY <2>3, <3>1 DEF Loads, Stays, Further, Goes, Unissued
    <3> QED
      BY <2>0, <3>4, <3>5, FreshKeeps DEF FreshInv
  <2>4. CASE Persists(w)
    <3>1. /\ \A v \in Writers : v # w => wr'[v] = wr[v]
          /\ store' = wr[w].data /\ revoked' = revoked /\ wr'[w].pc \notin Unissued
          /\ wr'[w].data \in {wr[w].data, NoKeys}
      BY <2>4 DEF Persists, Further, Goes, Unissued
    <3>2. revoked = {}
      BY <2>4, StoreAssumption DEF Persists, LockInv, PathInv, TypeInv, StoreTypes
    <3> QED
      BY <2>0, <3>1, <3>2, FreshKeeps
  <2>5. CASE Commits(w)
    <3>1. /\ Further(w, "assign", store')
          /\ revoked' = revoked \cup (DOMAIN store \ DOMAIN store')
          /\ DOMAIN store' \subseteq DOMAIN store \cup {FreshKey[w]}
      BY <2>5, CommitsIs
    <3>2. FreshKey[w] \notin revoked /\ revoked \cap DOMAIN store = {}
      BY <2>5 DEF Commits, FreshInv, Unissued
    <3>3. /\ \A v \in Writers : v # w => wr'[v] = wr[v]
          /\ wr'[w].pc \notin Unissued /\ wr'[w].data = store'
      BY <3>1 DEF Further, Goes, Unissued
    <3>4. revoked' \cap DOMAIN store' = {} /\ revoked' \subseteq revoked \cup DOMAIN store
      BY <3>1, <3>2
    <3> QED
      BY <3>1, <3>3, <3>4, FreshKeeps
  <2> QED
    BY <1>2, <2>1, <2>2, <2>3, <2>4, <2>5, WriteIs
<1> QED
  BY <1>1, <1>2, OthersLeave DEF Next

LEMMA LocksInit == ASSUME AllStamps, Init PROVE LockInv /\ FreshInv
<1>1. \A w \in Writers : wr[w].pc = "start" /\ wr[w].data = NoKeys
  BY DEF Init, Over
<1>2. revoked = {} /\ store = FirstStore /\ DOMAIN NoKeys = {}
  BY DEF Init, NoKeys
<1> QED
  BY <1>1, <1>2, FreshAssumption
     DEF LockInv, HoldInv, TransactInv, PathInv, FreshInv, Holding

-----------------------------------------------------------------------------
\* The keys of a tenant carry one restriction in the store, and in what is about to
\* become the store.
ShareInv == Shared(store) /\ \A w \in Writers : wr[w].pc = "persist" => Shared(wr[w].data)

LEMMA ShareStep ==
    ASSUME AllStamps, TypeInv, LockInv, FreshInv, ShareInv, [Next]_vars PROVE ShareInv'
<1>1. CASE UNCHANGED StoreSide
  BY <1>1 DEF StoreSide, ShareInv
<1>2. ASSUME NEW w \in Writers, Write(w) PROVE ShareInv'
  <2>0. Shared(NoKeys)
    BY DEF Shared, NoKeys
  <2>1. CASE Starts(w) \/ Locks(w) \/ Opens(w) \/ Quits(w) \/ Assigns(w) \/ Tells(w)
    <3>1. /\ \A v \in Writers : v # w => wr'[v] = wr[v]
          /\ UNCHANGED store /\ wr'[w].pc # "persist"
      BY <2>1 DEF Starts, Locks, Opens, Quits, Assigns, Tells, Goes, Further, Stays
    <3>2. Shared(store')
      BY <3>1 DEF ShareInv
    <3> QED
      BY <3>1, <3>2 DEF ShareInv
  <2>2. CASE Loads(w)
    <3>1. PICK tb \in {store, NoKeys} :
            ~Refuses(Applied(w), tb) /\ Further(w, "persist", Mutated(Applied(w), tb))
      BY <2>2 DEF Loads
    <3>2. wr[w].pc \notin Idle
      BY <2>2 DEF Loads, Idle
    <3>3. Applied(w) \in Op /\ tb \in Tables /\ Shared(tb)
      BY <2>0, <3>2, AppliedIs, NewIsLookup DEF TypeInv, StoreTypes, ShareInv
    <3>4. Shared(Mutated(Applied(w), tb))
      BY <3>1, <3>3, MutatedKeeps
    <3>5. UNCHANGED store /\ wr'[w].data = Mutated(Applied(w), tb)
          /\ \A v \in Writers : v # w => wr'[v] = wr[v]
      BY <2>2, <3>1 DEF Loads, Stays, Further, Goes
    <3>6. Shared(store') /\ Shared(wr'[w].data)
      BY <3>4, <3>5 DEF ShareInv
    <3> QED
      BY <3>5, <3>6 DEF ShareInv
  <2>3. CASE Persists(w)
    <3>1. /\ \A v \in Writers : v # w => wr'[v] = wr[v]
          /\ store' = wr[w].data /\ wr[w].pc = "persist" /\ wr'[w].pc # "persist"
      BY <2>3 DEF Persists, Further, Goes
    <3>2. Shared(store')
      BY <3>1 DEF ShareInv
    <3> QED
      BY <3>1, <3>2 DEF ShareInv
  <2>4. CASE Commits(w)
    <3>1. /\ ~Refuses(Applied(w), store) /\ Applied(w) \in Op
          /\ store' = Mutated(Applied(w), store) /\ Further(w, "assign", store')
      BY <2>4, CommitsIs
    <3>2. Shared(store')
      BY <3>1, MutatedKeeps DEF TypeInv, StoreTypes, ShareInv
    <3> QED
      BY <3>1, <3>2 DEF ShareInv, Further, Goes
  <2> QED
    BY <1>2, <2>1, <2>2, <2>3, <2>4, WriteIs
<1> QED
  BY <1>1, <1>2, OthersLeave DEF Next

\* The parts that hold whatever fails and however many instances write.
StoreInv == TypeInv /\ LockInv /\ FreshInv /\ ShareInv

LEMMA StoreInvInit == ASSUME AllStamps PROVE Init => StoreInv
<1> SUFFICES ASSUME Init PROVE StoreInv
  OBVIOUS
<1>1. ShareInv
  BY StoreAssumption DEF Init, ShareInv, Shared, Over
<1> QED
  BY <1>1, TypeInit, LocksInit DEF StoreInv

LEMMA StoreInvStep == ASSUME AllStamps PROVE StoreInv /\ [Next]_vars => StoreInv'
BY TypeStep, LockStep, FreshStep, ShareStep DEF StoreInv

\* No interleaving of lifecycle operations, on any number of instances and with any
\* of their calls failing, leaves a tenant a key outside its source-IP restriction.
THEOREM RestrictionHolds == ASSUME AllStamps PROVE Spec => []OneRestriction
<1>1. StoreInv => OneRestriction
  BY DEF StoreInv, ShareInv, Shared, OneRestriction, Table!OneRestriction
<1> QED
  BY <1>1, StoreInvInit, StoreInvStep, PTL DEF Spec

-----------------------------------------------------------------------------
\* The secret has one writing process: its threads are kept apart by a lock of that
\* process alone.
OneSecretWriter == \A i, j \in WritersAt["secret"] : i = j

\* What the operation of a thread is about to write, or has just written, is made
\* of the store as it is.
Changed(tb, new) ==
    \E op \in Op : op.key \notin DOMAIN tb /\ ~Refuses(op, tb) /\ new = Mutated(op, tb)

AssignInv ==
    backend = "secret" => \A w \in Writers : wr[w].pc = "assign" => wr[w].data = store

CopyInv == \A w \in Writers : wr[w].pc = "persist" => Changed(store, wr[w].data)

LEMMA OneHolder ==
    ASSUME OneSecretWriter, TypeInv, LockInv, backend = "secret",
           NEW v \in Writers, NEW w \in Writers, wr[v].pc \in Holding, wr[w].pc \in Holding
    PROVE  v = w
<1>1. wr[v].pc \notin Idle /\ wr[w].pc \notin Idle
  BY DEF Holding, Idle
<1>2. wr[v].home = wr[w].home
  BY <1>1, BusyOf DEF OneSecretWriter
<1> QED
  BY <1>2 DEF LockInv, HoldInv

LEMMA AssignStep ==
    ASSUME OneSecretWriter, TypeInv, LockInv, AssignInv, [Next]_vars PROVE AssignInv'
<1>1. CASE UNCHANGED StoreSide
  BY <1>1 DEF StoreSide, AssignInv
<1>2. ASSUME NEW w \in Writers, Write(w) PROVE AssignInv'
  <2>0. UNCHANGED backend
    BY <1>2, WriteIs
  <2>1. CASE Persists(w)
    <3>1. /\ \A v \in Writers : v # w => wr'[v] = wr[v]
          /\ store' = wr[w].data /\ wr[w].pc \in Holding
          /\ wr'[w].pc = "assign" => wr'[w].data = store'
      BY <2>1 DEF Persists, Further, Goes, Holding
    <3>2. ASSUME backend = "secret", NEW v \in Writers, v # w PROVE wr[v].pc # "assign"
      BY <3>1, <3>2, OneHolder DEF Holding
    <3> QED
      BY <2>0, <3>1, <3>2 DEF AssignInv
  <2>2. CASE Commits(w)
    BY <2>0, <2>2 DEF Commits, LockInv, PathInv, AssignInv
  <2>3. CASE Starts(w) \/ Locks(w) \/ Opens(w) \/ Quits(w) \/ Loads(w) \/ Assigns(w) \/ Tells(w)
    <3>1. /\ \A v \in Writers : v # w => wr'[v] = wr[v]
          /\ UNCHANGED store /\ wr'[w].pc # "assign"
      BY <2>3 DEF Starts, Locks, Opens, Quits, Loads, Assigns, Tells, Goes, Further, Stays
    <3> QED
      BY <2>0, <3>1 DEF AssignInv
  <2> QED
    BY <1>2, <2>1, <2>2, <2>3, WriteIs
<1> QED
  BY <1>1, <1>2, OthersLeave DEF Next

LEMMA CopyStep ==
    ASSUME AllStamps, OneSecretWriter, "write_fetch" \notin FaultKinds,
           TypeInv, LockInv, FreshInv, CopyInv, [Next]_vars
    PROVE  CopyInv'
<1>1. CASE UNCHANGED StoreSide
  <2>1. ASSUME NEW w \in Writers, wr'[w].pc = "persist" PROVE Changed(store, wr[w].data)'
    BY <1>1, <2>1 DEF StoreSide, CopyInv, Changed, Refuses, Mutated
  <2> QED
    BY <2>1 DEF CopyInv
<1>2. ASSUME NEW w \in Writers, Write(w) PROVE CopyInv'
  <2>0. backend \in {"secret", "postgres"}
    BY StoreAssumption DEF TypeInv, StoreTypes
  <2>1. CASE Persists(w) \/ Commits(w)
    <3>1. /\ \A v \in Writers : v # w => wr'[v] = wr[v]
          /\ wr'[w].pc # "persist"
      <4>1. CASE Persists(w)
        BY <4>1 DEF Persists, Further, Goes
      <4>2. CASE Commits(w)
        BY <4>2 DEF Commits, Further, Goes
      <4> QED BY <2>1, <4>1, <4>2
    <3>2. \A v \in Writers : v # w => wr[v].pc # "persist"
      <4>1. CASE backend = "secret"
        <5>1. wr[w].pc \in Holding
          BY <2>1 DEF Persists, Commits, Holding
        <5> QED
          BY <4>1, <5>1, OneHolder DEF Holding
      <4>2. CASE backend = "postgres"
        BY <4>2 DEF LockInv, PathInv
      <4> QED BY <2>0, <4>1, <4>2
    <3> QED
      BY <3>1, <3>2 DEF CopyInv
  <2>2. CASE Loads(w)
    <3>1. PICK tb \in {store, NoKeys} :
            /\ tb # store => Fault("write_fetch")
            /\ ~Refuses(Applied(w), tb) /\ Further(w, "persist", Mutated(Applied(w), tb))
      BY <2>2 DEF Loads
    <3>2. tb = store
      BY <3>1 DEF Fault
    <3>3. wr[w].pc \notin Idle /\ wr[w].pc \in Unissued
      BY <2>2 DEF Loads, Idle, Unissued
    <3>4. Applied(w) \in Op /\ Applied(w).key \notin DOMAIN store
      BY <3>3, AppliedIs DEF FreshInv
    <3>5. Changed(store, wr'[w].data)
      BY <3>1, <3>2, <3>4 DEF Further, Goes, Changed
    <3>6. UNCHANGED store /\ \A v \in Writers : v # w => wr'[v] = wr[v]
      BY <2>2, <3>1 DEF Loads, Stays, Further, Goes
    <3>7. ASSUME NEW v \in Writers, wr'[v].pc = "persist" PROVE Changed(store, wr'[v].data)
      BY <3>5, <3>6, <3>7 DEF CopyInv
    <3> QED
      BY <3>6, <3>7 DEF CopyInv, Changed, Refuses, Mutated
  <2>3. CASE Starts(w) \/ Locks(w) \/ Opens(w) \/ Quits(w) \/ Assigns(w) \/ Tells(w)
    <3>1. /\ \A v \in Writers : v # w => wr'[v] = wr[v]
          /\ UNCHANGED store /\ wr'[w].pc # "persist"
      BY <2>3 DEF Starts, Locks, Opens, Quits, Assigns, Tells, Goes, Further, Stays
    <3>2. ASSUME NEW v \in Writers, wr'[v].pc = "persist" PROVE Changed(store, wr'[v].data)
      BY <3>1, <3>2 DEF CopyInv
    <3> QED
      BY <3>1, <3>2 DEF CopyInv, Changed, Refuses, Mutated
  <2> QED
    BY <1>2, <2>1, <2>2, <2>3, WriteIs
<1> QED
  BY <1>1, <1>2, OthersLeave DEF Next

\* A whole operation on the store is a step of the table.
LEMMA ChangedIsStep ==
    ASSUME AllStamps, Changed(store, store') PROVE Table!Next
<1>1. PICK op \in Op : op.key \notin DOMAIN store /\ ~Refuses(op, store)
                       /\ store' = Mutated(op, store)
  BY DEF Changed
<1>2. /\ op.tenant \in Tenants /\ op.key \in Keys \ DOMAIN store /\ op.stamp \in Stamps
      /\ op.on \in BOOLEAN /\ op.cidrs \in SUBSET Cidrs /\ op.kind \in Kinds
  BY <1>1 DEF Op, AllStamps
<1>3. CASE op.kind = "create"
  <2>1. store' = CreateKey(store, op.tenant, op.key, op.stamp)
    BY <1>1, <1>3 DEF Mutated
  <2>2. Table!Create(op.tenant)
    BY <1>2, <2>1, SameOperations DEF Table!Create
  <2> QED
    BY <1>2, <2>2 DEF Table!Next
<1>4. CASE op.kind = "rotate"
  <2>1. store' = RotateTenantKeys(store, op.tenant, op.key, op.stamp)
        /\ KeysOf(store, op.tenant) # {}
    BY <1>1, <1>4 DEF Mutated, Refuses
  <2>2. Table!Rotate(op.tenant)
    BY <1>2, <2>1, SameOperations DEF Table!Rotate
  <2> QED
    BY <1>2, <2>2 DEF Table!Next
<1>5. CASE op.kind = "delete"
  <2>1. store' = DeleteTenantKeys(store, op.tenant)
    BY <1>1, <1>5 DEF Mutated
  <2>2. Table!Delete(op.tenant)
    BY <2>1, SameOperations DEF Table!Delete
  <2> QED
    BY <1>2, <2>2 DEF Table!Next
<1>6. CASE op.kind = "suspended"
  <2>1. store' = SetSuspended(store, op.tenant, op.on)
    BY <1>1, <1>6 DEF Mutated
  <2>2. Table!Suspend(op.tenant)
    BY <1>2, <2>1, SameOperations DEF Table!Suspend
  <2> QED
    BY <1>2, <2>2 DEF Table!Next
<1>7. CASE op.kind = "contract"
  <2>1. store' = SetContractActive(store, op.tenant, op.on)
    BY <1>1, <1>7 DEF Mutated
  <2>2. Table!Contract(op.tenant)
    BY <1>2, <2>1, SameOperations DEF Table!Contract
  <2> QED
    BY <1>2, <2>2 DEF Table!Next
<1>8. CASE op.kind = "allow"
  <2>1. store' = SetIpAllowlist(store, op.tenant, op.cidrs)
    BY <1>1, <1>8 DEF Mutated
  <2>2. Table!Allow(op.tenant)
    BY <1>2, <2>1, SameOperations DEF Table!Allow
  <2> QED
    BY <1>2, <2>2 DEF Table!Next
<1> QED
  BY <1>2, <1>3, <1>4, <1>5, <1>6, <1>7, <1>8 DEF Kinds

LEMMA StepIsTable ==
    ASSUME AllStamps, TypeInv, LockInv, FreshInv, CopyInv, [Next]_vars
    PROVE  [Table!Next]_store
<1>1. CASE UNCHANGED StoreSide
  BY <1>1 DEF StoreSide
<1>2. ASSUME NEW w \in Writers, Write(w) PROVE [Table!Next]_store
  <2>1. CASE Persists(w)
    <3>1. Changed(store, store')
      BY <2>1 DEF Persists, CopyInv
    <3> QED
      BY <3>1, ChangedIsStep
  <2>2. CASE Commits(w)
    <3>1. Changed(store, store')
      BY <2>2, CommitsIs DEF Changed
    <3> QED
      BY <3>1, ChangedIsStep
  <2>3. CASE Starts(w) \/ Locks(w) \/ Opens(w) \/ Quits(w) \/ Loads(w) \/ Assigns(w) \/ Tells(w)
    BY <2>3 DEF Starts, Locks, Opens, Quits, Loads, Assigns, Tells, Stays
  <2> QED
    BY <1>2, <2>1, <2>2, <2>3, WriteIs
<1> QED
  BY <1>1, <1>2, OthersLeave DEF Next

\* The store implements the table: while no fetch of a writer's fails and one process
\* writes the secret, every change of it is one whole operation on what it held.
THEOREM StoreImplementsTable ==
    ASSUME AllStamps, OneSecretWriter, "write_fetch" \notin FaultKinds
    PROVE  Spec => ImplementsTable
<1> DEFINE Inv == StoreInv /\ CopyInv
<1>1. Init => Inv
  <2>1. Init => CopyInv
    BY DEF Init, CopyInv, Over
  <2> QED
    BY <2>1, StoreInvInit
<1>2. Inv /\ [Next]_vars => Inv'
  BY StoreInvStep, CopyStep DEF StoreInv
<1>3. Init => Table!Init
  BY StoreAssumption DEF Init, Table!Init, Table!OneRestriction, Table!IsTable, IsTable,
     Table!Entry, Entry
<1>4. Inv /\ [Next]_vars => [Table!Next]_store
  BY StepIsTable DEF StoreInv
<1> QED
  BY <1>1, <1>2, <1>3, <1>4, PTL DEF Spec, ImplementsTable, Table!Spec

-----------------------------------------------------------------------------
\* Over the secret no refresher runs, and what is held or about to be held under the
\* store's version is the store.  A loader reads the version first, and only a new
\* version changes the store.
VersionInv ==
    backend = "secret" =>
        /\ \A i \in Instances : refresher[i].pc = "idle"
        /\ \A i \in Instances : cacheVersion[i] = version => cache[i] = store
        /\ \A l \in Lookups :
              look[l].pc = "loadApply" /\ look[l].ver = version => look[l].data = store

\* Where a lookup goes next it holds no data to apply.
LEMMA ResumedPc ==
    ASSUME NEW r \in LookupRecs, NEW c, NEW at, r.reason # "none"
    PROVE  /\ Resumed(r, c, at).pc # "loadApply" /\ CheckedNext(r, c, at).pc # "loadApply"
           /\ LookedIn(r, c).pc # "loadApply"
<1>1. Answered(r, c).pc = "done"
  BY AnsweredIs
<1>2. LookedIn(r, c).pc # "loadApply"
  BY <1>1 DEF LookedIn, LookupRecs
<1>3. CheckedNext(r, c, at).pc # "loadApply"
  BY <1>2 DEF CheckedNext, LookupRecs
<1> QED
  BY <1>1, <1>2, <1>3 DEF Resumed, LookupRecs

LEMMA NextPc ==
    ASSUME NEW r \in LookupRecs, NEW c, NEW at
    PROVE  CheckedNext(r, c, at).pc # "loadApply" /\ LookedIn(r, c).pc # "loadApply"
<1>1. Answered(r, c).pc = "done"
  BY AnsweredIs
<1>2. LookedIn(r, c).pc # "loadApply"
  BY <1>1 DEF LookedIn, LookupRecs
<1>3. CheckedNext(r, c, at).pc # "loadApply"
  BY <1>2 DEF CheckedNext, LookupRecs
<1> QED
  BY <1>2, <1>3

\* A lookup step puts data to apply under a version only by reading the store.
LEMMA LookData ==
    ASSUME TypeInv, NEW l \in Lookups, Look(l), NEW m \in Lookups, look'[m].pc = "loadApply"
    PROVE  \/ /\ look[m].pc = "loadApply" /\ look'[m].ver = look[m].ver
              /\ look'[m].data = look[m].data
           \/ look'[m].data = store
<1>0. look \in [Lookups -> LookupRecs] /\ look[m] \in LookupRecs /\ look[l] \in LookupRecs
      /\ LookTypes
  BY DEF TypeInv, LookTypes
<1>1. CASE LookBegin(l)
  <2>1. PICK k, i :
          LET r == [look[l] EXCEPT !.home = i, !.key = k, !.asked = now, !.window = {At(store, k)}]
          IN look' = [look EXCEPT ![l] =
                IF \/ cache[i] = NoKeys
                   \/ /\ now - loadedAt[i] > CacheTtl
                      /\ now - lastAttempt[i] >= ForcedInterval
                THEN [r EXCEPT !.pc = "wantLoad", !.reason = "stale"]
                ELSE CheckedNext(r, cache[i], lastVersionCheck[i])]
    BY <1>1 DEF LookBegin
  <2> DEFINE r == [look[l] EXCEPT !.home = i, !.key = k, !.asked = now, !.window = {At(store, k)}]
             a == [r EXCEPT !.pc = "wantLoad", !.reason = "stale"]
             b == CheckedNext(r, cache[i], lastVersionCheck[i])
  <2>2. a.pc # "loadApply"
    BY <1>0 DEF LookupRecs
  <2>3. b.pc # "loadApply"
    <3>1. Answered(r, cache[i]).pc = "done"
      BY AnsweredIs
    <3>2. LookedIn(r, cache[i]).pc # "loadApply" /\ [r EXCEPT !.pc = "wantVersion"].pc # "loadApply"
      BY <1>0, <3>1 DEF LookedIn, LookupRecs
    <3> QED
      BY <3>2 DEF CheckedNext
  <2>4. PICK x \in {a, b} : look' = [look EXCEPT ![l] = x]
    BY <2>1
  <2> HIDE DEF r, a, b
  <2>5. m # l
    BY <1>0, <2>2, <2>3, <2>4
  <2> QED
    BY <1>0, <2>4, <2>5
<1>2. CASE EnterReload(l)
  <2>1. look[l].pc = "wantLoad" /\ Home(l) \in Instances /\ look[l].reason # "none"
    BY <1>2, GoingOf DEF EnterReload, Loading, Resting
  <2>2. CASE look' = [Noted(Home(l), "attempted") EXCEPT ![l].pc = "loadVersion"]
    <3>1. Noted(Home(l), "attempted") \in [Lookups -> LookupRecs]
          /\ Noted(Home(l), "attempted")[l] \in LookupRecs
      BY <1>0, <2>1, NotedIs
    <3>2. m # l
      BY <2>2, <3>1 DEF LookupRecs
    <3>3. look'[m] = Noted(Home(l), "attempted")[m]
      BY <2>2, <3>1, <3>2
    <3>4. look'[m] \in {look[m], [look[m] EXCEPT !.attempted = TRUE]}
      BY <1>0, <2>1, <3>3, NotedIs
    <3> QED
      BY <1>0, <3>4 DEF LookupRecs
  <2>3. CASE ResumeLookup(l)
    <3>1. m # l
      BY <1>0, <2>1, <2>3, ResumedPc DEF ResumeLookup
    <3> QED
      BY <1>0, <2>3, <3>1 DEF ResumeLookup
  <2> QED
    BY <1>2, <2>2, <2>3 DEF EnterReload
<1>3. CASE LockTimeout(l)
  <2>1. CASE look[l].pc = "wantLoad" /\ ResumeLookup(l)
    <3>0. look[l].reason # "none"
      BY <2>1, GoingOf DEF Loading, Resting
    <3>1. m # l
      BY <1>0, <2>1, <3>0, ResumedPc DEF ResumeLookup
    <3> QED
      BY <1>0, <2>1, <3>1 DEF ResumeLookup
  <2>2. CASE look' = [look EXCEPT ![l] = LookedIn(@, cache[Home(l)])]
    <3>1. m # l
      BY <1>0, <2>2, NextPc
    <3> QED
      BY <1>0, <2>2, <3>1
  <2> QED
    BY <1>3, <2>1, <2>2 DEF LockTimeout
<1>4. CASE LoadVersion(l)
  <2>1. PICK v : look' = [look EXCEPT ![l].pc = "loadData", ![l].ver = v]
    BY <1>4 DEF LoadVersion
  <2>2. m # l
    BY <1>0, <2>1 DEF LookupRecs
  <2> QED
    BY <1>0, <2>1, <2>2
<1>5. CASE LoadData(l)
  <2>1. CASE look' = [look EXCEPT ![l].pc = "loadApply", ![l].data = store]
    BY <1>0, <2>1 DEF LookupRecs
  <2>2. CASE look[l].pc = "loadData" /\ ResumeLookup(l)
    <3>0. look[l].reason # "none"
      BY <2>2, GoingOf DEF Loading, Resting
    <3>1. m # l
      BY <1>0, <2>2, <3>0, ResumedPc DEF ResumeLookup
    <3> QED
      BY <1>0, <2>2, <3>1 DEF ResumeLookup
  <2> QED
    BY <1>5, <2>1, <2>2 DEF LoadData
<1>6. CASE LoadApply(l)
  <2> DEFINE f == Noted(Home(l), "versionKnown")
  <2>1. PICK c, at : look' = [f EXCEPT ![l] = Resumed(@, c, at)]
    <3>1. \E c, at : look' = [f EXCEPT ![l] = Resumed(@, c, at)]
      BY <1>6 DEF LoadApply, LoadedUnder
    <3> QED BY <3>1
  <2>2. look[l].pc = "loadApply" /\ Home(l) \in Instances /\ look[l].reason # "none"
    BY <1>6, GoingOf DEF LoadApply, LoadedUnder, Loading, Resting
  <2>3. f \in [Lookups -> LookupRecs] /\ f[m] \in {look[m], [look[m] EXCEPT !.versionKnown = TRUE]}
        /\ f[l] \in {look[l], [look[l] EXCEPT !.versionKnown = TRUE]}
    BY <1>0, <2>2, NotedIs
  <2> HIDE DEF f
  <2>4. f[l] \in LookupRecs /\ f[l].reason # "none"
    BY <1>0, <2>2, <2>3 DEF LookupRecs
  <2>5. m # l
    BY <2>1, <2>3, <2>4, ResumedPc
  <2>6. look'[m] = f[m]
    BY <2>1, <2>3, <2>5
  <2> QED
    BY <1>0, <2>3, <2>6 DEF LookupRecs
<1>7. CASE EnterVersionCheck(l)
  <2>0. look[l].pc = "wantVersion" /\ Home(l) \in Instances
    BY <1>7, GoingOf DEF EnterVersionCheck, Resting
  <2>1. CASE look' = [look EXCEPT ![l] = LookedIn(@, cache[Home(l)])]
    <3>1. m # l
      BY <1>0, <2>1, NextPc
    <3> QED
      BY <1>0, <2>1, <3>1
  <2>2. CASE look' = [Noted(Home(l), "versionKnown") EXCEPT ![l].pc = "askVersion"]
    <3>1. Noted(Home(l), "versionKnown") \in [Lookups -> LookupRecs]
          /\ Noted(Home(l), "versionKnown")[l] \in LookupRecs
      BY <1>0, <2>0, NotedIs
    <3>2. m # l
      BY <2>2, <3>1 DEF LookupRecs
    <3>3. look'[m] = Noted(Home(l), "versionKnown")[m]
      BY <2>2, <3>1, <3>2
    <3>4. look'[m] \in {look[m], [look[m] EXCEPT !.versionKnown = TRUE]}
      BY <1>0, <2>0, <3>3, NotedIs
    <3> QED
      BY <1>0, <3>4 DEF LookupRecs
  <2> QED
    BY <1>7, <2>1, <2>2 DEF EnterVersionCheck
<1>8. CASE AskVersion(l)
  <2>1. CASE look' = [look EXCEPT ![l].pc = "wantLoad", ![l].reason = "changed",
                                  ![l].seen = version, ![l].checked = TRUE]
    <3>1. m # l
      BY <1>0, <2>1 DEF LookupRecs
    <3> QED
      BY <1>0, <2>1, <3>1
  <2>2. CASE look' = [look EXCEPT ![l] = LookedIn([@ EXCEPT !.checked = TRUE], cache[Home(l)])]
    <3>0. [look[l] EXCEPT !.checked = TRUE] \in LookupRecs
      BY <1>0 DEF LookupRecs
    <3>1. m # l
      BY <1>0, <2>2, <3>0, NextPc
    <3> QED
      BY <1>0, <2>2, <3>1
  <2>3. CASE look' = [look EXCEPT ![l] = LookedIn(@, cache[Home(l)])]
    <3>1. m # l
      BY <1>0, <2>3, NextPc
    <3> QED
      BY <1>0, <2>3, <3>1
  <2> QED
    BY <1>8, <2>1, <2>2, <2>3 DEF AskVersion
<1> QED
  BY <1>1, <1>2, <1>3, <1>4, <1>5, <1>6, <1>7, <1>8 DEF Look

\* Of a lookup's steps, only the end of a load sets a cache.
LEMMA LookCache ==
    ASSUME NEW l \in Lookups, Look(l)
    PROVE  UNCHANGED refresher /\ (UNCHANGED <<cache, cacheVersion>> \/ LoadApply(l))
<1>1. CASE LookBegin(l)
  BY <1>1 DEF LookBegin, cacheVars
<1>2. CASE EnterReload(l)
  BY <1>2 DEF EnterReload, cacheVars
<1>3. CASE LockTimeout(l)
  BY <1>3 DEF LockTimeout, cacheVars
<1>4. CASE LoadVersion(l)
  BY <1>4 DEF LoadVersion, cacheVars
<1>5. CASE LoadData(l)
  BY <1>5 DEF LoadData, cacheVars
<1>6. CASE LoadApply(l)
  BY <1>6 DEF LoadApply, LoadedUnder
<1>7. CASE EnterVersionCheck(l)
  BY <1>7 DEF EnterVersionCheck, cacheVars
<1>8. CASE AskVersion(l)
  BY <1>8 DEF AskVersion, cacheVars
<1> QED
  BY <1>1, <1>2, <1>3, <1>4, <1>5, <1>6, <1>7, <1>8 DEF Look

\* A writer's step sets no cache before it has written, and then only to what it
\* wrote; it marks no version.
LEMMA WriteCache ==
    ASSUME TypeInv, TypeInv', NEW w \in Writers, Write(w)
    PROVE  /\ UNCHANGED <<refresher, cacheVersion>>
           /\ \/ UNCHANGED cache
              \/ /\ wr[w].pc = "assign" /\ UNCHANGED <<store, version, look>>
                 /\ cache' = [cache EXCEPT ![wr[w].home] = wr[w].data]
           /\ \/ UNCHANGED look
              \/ \E tb \in Tables : Committed(tb) /\ version' \in {version, version + 1}
<1>1. CASE WriteBegin(w)
  BY <1>1 DEF WriteBegin, cacheVars
<1>2. CASE TakeWriteLock(w)
  BY <1>2 DEF TakeWriteLock, cacheVars
<1>3. CASE LoadFullStore(w)
  BY <1>3, LoadFullStoreIs DEF cacheVars
<1>4. CASE Persist(w)
  <2>1. wr[w].data \in Tables
    BY DEF TypeInv, WriteTypes, WriterRecs
  <2> QED
    BY <1>4, <2>1 DEF Persist, cacheVars
<1>5. CASE Assign(w)
  BY <1>5 DEF Assign, WHome, storeVars
<1>6. CASE BeginTransaction(w)
  BY <1>6 DEF BeginTransaction, cacheVars
<1>7. CASE Commit(w)
  <2>1. UNCHANGED <<refresher, cacheVars>>
    BY <1>7 DEF Commit
  <2>2. UNCHANGED look \/ \E tb : Committed(tb) /\ version' = version
    BY <1>7 DEF Commit
  <2>3. ASSUME NEW tb, Committed(tb) PROVE tb \in Tables
    BY <2>3 DEF Committed, TypeInv, StoreTypes
  <2> QED
    BY <2>1, <2>2, <2>3 DEF cacheVars
<1>8. CASE TransactTimeout(w)
  BY <1>8 DEF TransactTimeout, cacheVars
<1>9. CASE Announce(w)
  BY <1>9 DEF Announce, cacheVars
<1> QED
  BY <1>1, <1>2, <1>3, <1>4, <1>5, <1>6, <1>7, <1>8, <1>9 DEF Write

LEMMA VersionInit == ASSUME Init PROVE VersionInv
<1>1. \A i \in Instances : refresher[i].pc = "idle"
  BY DEF Init, IdleRefresher
<1>2. \A i \in Instances : cacheVersion[i] = version => cache[i] = store
  BY DEF Init
<1>3. \A l \in Lookups : look[l].pc = "start"
  BY DEF Init, NewLookup
<1> QED
  BY <1>1, <1>2, <1>3 DEF VersionInv

LEMMA VersionStep ==
    ASSUME TypeInv, TypeInv', LockInv, AssignInv, VersionInv, [Next]_vars PROVE VersionInv'
<1> SUFFICES ASSUME backend' = "secret"
             PROVE  /\ \A i \in Instances : refresher'[i].pc = "idle"
                    /\ \A i \in Instances : cacheVersion'[i] = version' => cache'[i] = store'
                    /\ \A l \in Lookups :
                         look'[l].pc = "loadApply" /\ look'[l].ver = version'
                             => look'[l].data = store'
  BY DEF VersionInv
<1>0. UNCHANGED backend
  BY OthersLeave, WriteIs DEF Next, StoreSide
<1>1. /\ \A i \in Instances : refresher[i].pc = "idle"
      /\ \A i \in Instances : cacheVersion[i] = version => cache[i] = store
      /\ \A l \in Lookups :
            look[l].pc = "loadApply" /\ look[l].ver = version => look[l].data = store
  BY <1>0 DEF VersionInv
<1>2. CASE Tick \/ UNCHANGED vars
  <2>1. UNCHANGED <<refresher, cacheVersion, cache, look, store, version>>
    BY <1>2 DEF Tick, vars, storeVars, cacheVars
  <2> QED
    BY <1>1, <2>1
<1>3. ASSUME NEW l \in Lookups, Look(l)
      PROVE  /\ \A i \in Instances : refresher'[i].pc = "idle"
             /\ \A i \in Instances : cacheVersion'[i] = version' => cache'[i] = store'
             /\ \A m \in Lookups :
                  look'[m].pc = "loadApply" /\ look'[m].ver = version'
                      => look'[m].data = store'
  <2>1. UNCHANGED <<store, version>> /\ UNCHANGED refresher
    BY <1>3, OthersLeave, LookCache DEF StoreSide
  <2>2. \A i \in Instances : cacheVersion'[i] = version' => cache'[i] = store'
    <3>1. CASE UNCHANGED <<cache, cacheVersion>>
      BY <1>1, <2>1, <3>1
    <3>2. CASE LoadApply(l)
      <4>1. /\ look[l].pc = "loadApply"
            /\ cache' = [cache EXCEPT ![Home(l)] = look[l].data]
            /\ cacheVersion' = [cacheVersion EXCEPT ![Home(l)] = look[l].ver]
        BY <3>2 DEF LoadApply, LoadedUnder
      <4>2. cache \in [Instances -> Tables] /\ cacheVersion \in [Instances -> Nat]
        BY DEF TypeInv, CacheTypes
      <4> QED
        BY <1>1, <2>1, <4>1, <4>2
    <3> QED
      BY <1>3, <3>1, <3>2, LookCache
  <2>3. ASSUME NEW m \in Lookups, look'[m].pc = "loadApply", look'[m].ver = version'
        PROVE  look'[m].data = store'
    BY <1>1, <1>3, <2>1, <2>3, LookData
  <2> QED
    BY <1>1, <2>1, <2>2, <2>3
<1>4. ASSUME NEW w \in Writers, Write(w)
      PROVE  /\ \A i \in Instances : refresher'[i].pc = "idle"
             /\ \A i \in Instances : cacheVersion'[i] = version' => cache'[i] = store'
             /\ \A m \in Lookups :
                  look'[m].pc = "loadApply" /\ look'[m].ver = version'
                      => look'[m].data = store'
  <2>0. /\ version \in Nat /\ \A i \in Instances : cacheVersion[i] \in Nat /\ cacheVersion[i] <= version
        /\ \A m \in Lookups : look[m].ver \in Nat /\ look[m].ver <= version
        /\ cache \in [Instances -> Tables]
    BY DEF TypeInv, StoreTypes, CacheTypes, LookTypes, LookupRecs, Fine
  <2>1. UNCHANGED <<refresher, cacheVersion>>
    BY <1>4, WriteCache
  <2>2. ASSUME NEW m \in Lookups
        PROVE  look'[m].pc = look[m].pc /\ look'[m].ver = look[m].ver /\ look'[m].data = look[m].data
    <3>1. CASE UNCHANGED look
      BY <3>1
    <3>2. ASSUME NEW tb \in Tables, Committed(tb)
          PROVE  /\ look'[m].pc = look[m].pc /\ look'[m].ver = look[m].ver
                 /\ look'[m].data = look[m].data
      <4>1. look'[m] = IF look[m].pc \in Resting THEN look[m]
                       ELSE [look[m] EXCEPT !.window = @ \cup {At(tb, look[m].key)}]
        BY <3>2, CommittedIs DEF TypeInv
      <4>2. look[m] \in LookupRecs
        BY DEF TypeInv, LookTypes
      <4> QED
        BY <4>1, <4>2 DEF LookupRecs
    <3> QED
      BY <1>4, <3>1, <3>2, WriteCache
  <2>3. CASE UNCHANGED <<store, version>>
    <3>1. CASE UNCHANGED cache
      BY <1>1, <2>1, <2>2, <2>3, <3>1
    <3>2. CASE /\ wr[w].pc = "assign"
               /\ cache' = [cache EXCEPT ![wr[w].home] = wr[w].data]
      <4>1. wr[w].data = store
        BY <1>0, <3>2 DEF AssignInv
      <4>2. \A i \in Instances : cacheVersion'[i] = version' => cache'[i] = store'
        BY <1>1, <2>0, <2>1, <2>3, <3>2, <4>1
      <4> QED
        BY <1>1, <2>1, <2>2, <2>3, <4>2
    <3> QED
      BY <1>4, <3>1, <3>2, WriteCache
  <2>4. CASE version' = version + 1
    BY <1>1, <2>0, <2>1, <2>2, <2>4
  <2>5. UNCHANGED <<store, version>> \/ version' = version + 1
    <3>1. ~Commits(w)
      BY <1>0 DEF Commits, LockInv, PathInv
    <3> QED
      BY <1>4, <3>1, WriteIs
         DEF Starts, Locks, Quits, Loads, Persists, Assigns, Opens, Tells, Stays
  <2> QED
    BY <2>3, <2>4, <2>5
<1>5. ASSUME NEW i \in Instances, Refresh(i)
      PROVE  UNCHANGED <<cache, cacheVersion, look, store, version>>
             /\ \A j \in Instances : refresher'[j].pc = "idle"
  <2>1. refresher \in [Instances -> RefresherRecs] /\ refresher[i].pc = "idle"
    BY <1>1 DEF TypeInv, RefreshTypes
  <2>2. CASE Request(i)
    <3>1. PICK t : refresher' = [refresher EXCEPT ![i].tenants = @ \cup {t}]
      BY <2>2 DEF Request
    <3>2. UNCHANGED <<cache, cacheVersion, look, store, version>>
      BY <2>2 DEF Request, cacheVars, storeVars
    <3> QED
      BY <1>1, <2>1, <3>1, <3>2 DEF RefresherRecs
  <2>3. ~RefreshBegin(i)
    BY <1>0 DEF RefreshBegin
  <2> QED
    BY <1>5, <2>1, <2>2, <2>3 DEF Refresh, RefreshRead, RefreshApply
<1> QED
  BY <1>1, <1>2, <1>3, <1>4, <1>5 DEF Next

-----------------------------------------------------------------------------
\* While no call fails, what a lookup may come to answer with is an entry its key
\* had while it ran.  Once a load was begun since the lookup began, both the cache
\* and what is about to replace it are such; once the version was asked for, the
\* cache is, unless the store had changed, and then the next load is.
Seen(l, tb) == At(tb, look[l].key) \in look[l].window

Ready(m, i) == look[m].pc = "loadApply" /\ look[m].home = i

LoaderOk(l) ==
    /\ look[l].pc \in {"loadVersion", "loadData", "loadApply"} =>
          loadLock[look[l].home] = l /\ look[l].attempted
    /\ look[l].pc \in {"loadData", "loadApply"} => cacheVersion[look[l].home] <= look[l].ver

AnswerOk(l) ==
    look[l].pc \notin Resting =>
      /\ Seen(l, store)
      /\ look[l].attempted =>
           /\ loadLock[look[l].home] = Nobody => Seen(l, cache[look[l].home])
           /\ \A m \in Lookups : Ready(m, look[l].home) => Seen(l, look[m].data)
      /\ look[l].checked => look[l].pc \in Loading /\ look[l].reason \in {"changed", "miss"}
      /\ look[l].checked /\ look[l].reason = "changed" =>
           /\ cacheVersion[look[l].home] = look[l].seen => Seen(l, cache[look[l].home])
           /\ \A m \in Lookups :
                Ready(m, look[l].home) /\ look[m].ver = look[l].seen => Seen(l, look[m].data)
      /\ look[l].checked /\ look[l].reason = "miss" =>
           /\ Seen(l, cache[look[l].home])
           /\ \A m \in Lookups : Ready(m, look[l].home) => Seen(l, look[m].data)

AnswersOk == \A l \in Lookups : LoaderOk(l) /\ ~look[l].stale /\ AnswerOk(l)

CheckInv == backend = "secret" /\ faults = 0 => AnswersOk

\* Where a lookup r goes on to: it is over, or it is as it was and waits.
Onward(r, q) ==
    /\ ~q.stale
    /\ \/ q.pc = "done"
       \/ /\ q.pc \in {"wantLoad", "wantVersion"}
          /\ q.home = r.home /\ q.key = r.key /\ q.window = r.window
          /\ q.checked = r.checked /\ q.attempted = r.attempted
          /\ q.checked => q.pc = "wantLoad" /\ q.reason = "miss"

LEMMA OnwardIs ==
    ASSUME NEW r \in LookupRecs, ~r.stale, NEW c, NEW at,
           r.checked => At(c, r.key) \in r.window
    PROVE  /\ Onward(r, LookedIn(r, c))
           /\ ~r.checked => Onward(r, CheckedNext(r, c, at))
           /\ r.reason # "none" /\ (r.checked => r.reason # "stale") => Onward(r, Resumed(r, c, at))
<1>1. Onward(r, Answered(r, c))
  BY AnsweredIs DEF Onward
<1>2. Onward(r, LookedIn(r, c))
  BY <1>1 DEF LookedIn, Onward, LookupRecs
<1>3. ~r.checked => Onward(r, CheckedNext(r, c, at))
  BY <1>2 DEF CheckedNext, Onward, LookupRecs
<1>4. r.reason # "none" /\ (r.checked => r.reason # "stale") => Onward(r, Resumed(r, c, at))
  BY <1>1, <1>2, <1>3 DEF Resumed, LookupRecs
<1> QED
  BY <1>2, <1>3, <1>4

LEMMA OnwardOk ==
    ASSUME NEW l \in Lookups, NEW r, Onward(r, look'[l]), At(store', r.key) \in r.window,
           r.attempted =>
             /\ loadLock'[r.home] = Nobody => At(cache'[r.home], r.key) \in r.window
             /\ \A m \in Lookups : look'[m].pc = "loadApply" /\ look'[m].home = r.home =>
                    At(look'[m].data, r.key) \in r.window,
           r.checked =>
             /\ At(cache'[r.home], r.key) \in r.window
             /\ \A m \in Lookups : look'[m].pc = "loadApply" /\ look'[m].home = r.home =>
                    At(look'[m].data, r.key) \in r.window
    PROVE  LoaderOk(l)' /\ ~look'[l].stale /\ AnswerOk(l)'
<1>1. CASE look'[l].pc = "done"
  BY <1>1 DEF Onward, LoaderOk, AnswerOk, Resting
<1>2. CASE look'[l].pc # "done"
  <2>1. /\ look'[l].pc \in {"wantLoad", "wantVersion"}
        /\ look'[l].home = r.home /\ look'[l].key = r.key /\ look'[l].window = r.window
        /\ look'[l].checked = r.checked /\ look'[l].attempted = r.attempted
        /\ look'[l].checked => look'[l].pc = "wantLoad" /\ look'[l].reason = "miss"
        /\ ~look'[l].stale
    BY <1>2 DEF Onward
  <2>2. \A tb : At(tb, r.key)' = At(tb, r.key)
    BY DEF At
  <2>3. LoaderOk(l)'
    BY <2>1 DEF LoaderOk
  <2>4. AnswerOk(l)'
    BY <2>1 DEF AnswerOk, Seen, Ready, Loading, Resting, At
  <2> QED
    BY <2>1, <2>3, <2>4
<1> QED
  BY <1>1, <1>2

\* A lookup that goes on with what it knew.
Like(m) ==
    /\ look'[m].pc \in Resting <=> look[m].pc \in Resting
    /\ look[m].pc \in Loading => look'[m].pc \in Loading
    /\ look'[m].home = look[m].home /\ look'[m].key = look[m].key
    /\ look'[m].reason = look[m].reason /\ look'[m].seen = look[m].seen
    /\ look'[m].checked = look[m].checked /\ look'[m].stale = look[m].stale
    /\ look[m].window \subseteq look'[m].window

\* What a step does around such a lookup: its instance's cache stays, or becomes what
\* the lookup may answer with; so does what is about to replace it; a load is only
\* noted when it begins.
LEMMA LikeOk ==
    ASSUME NEW l \in Lookups, Like(l), ~look[l].stale, AnswerOk(l),
           look'[l].attempted =>
              \/ look[l].attempted
              \/ /\ loadLock'[look[l].home] # Nobody
                 /\ \A m \in Lookups : look'[m].pc = "loadApply" => look'[m].home # look[l].home,
           look[l].pc \notin Resting => At(store', look[l].key) \in look'[l].window,
           look[l].pc \notin Resting =>
              \/ /\ cache'[look[l].home] = cache[look[l].home]
                 /\ cacheVersion'[look[l].home] = cacheVersion[look[l].home]
                 /\ loadLock'[look[l].home] = Nobody => loadLock[look[l].home] = Nobody
              \/ At(cache'[look[l].home], look[l].key) \in look'[l].window,
           look[l].pc \notin Resting =>
              \A m \in Lookups : look'[m].pc = "loadApply" /\ look'[m].home = look[l].home =>
                 \/ /\ Ready(m, look[l].home)
                    /\ look'[m].data = look[m].data /\ look'[m].ver = look[m].ver
                 \/ At(look'[m].data, look[l].key) \in look'[l].window
    PROVE  ~look'[l].stale /\ AnswerOk(l)'
<1>0. ~look'[l].stale
  BY DEF Like
<1>1. CASE look[l].pc \in Resting
  BY <1>0, <1>1 DEF Like, AnswerOk
<1>2. CASE look[l].pc \notin Resting
  <2> DEFINE i == look[l].home
             k == look[l].key
             W == look[l].window
             V == look'[l].window
  <2>1. /\ look[l].pc \in Loading => look'[l].pc \in Loading
        /\ look'[l].home = i /\ look'[l].key = k
        /\ look'[l].reason = look[l].reason /\ look'[l].seen = look[l].seen
        /\ look'[l].checked = look[l].checked
        /\ look'[l].attempted =>
              \/ look[l].attempted
              \/ /\ loadLock'[i] # Nobody
                 /\ \A m \in Lookups : look'[m].pc = "loadApply" => look'[m].home # i
        /\ W \subseteq V
    BY DEF Like
  <2>2. \/ /\ cache'[i] = cache[i] /\ cacheVersion'[i] = cacheVersion[i]
           /\ loadLock'[i] = Nobody => loadLock[i] = Nobody
        \/ At(cache'[i], k) \in V
    BY <1>2
  <2>3. \A m \in Lookups : look'[m].pc = "loadApply" /\ look'[m].home = i =>
                 \/ Ready(m, i) /\ look'[m].data = look[m].data /\ look'[m].ver = look[m].ver
                 \/ At(look'[m].data, k) \in V
    BY <1>2
  <2>4. /\ look[l].attempted =>
             /\ loadLock[i] = Nobody => At(cache[i], k) \in W
             /\ \A m \in Lookups : Ready(m, i) => At(look[m].data, k) \in W
        /\ look[l].checked => look[l].pc \in Loading /\ look[l].reason \in {"changed", "miss"}
        /\ look[l].checked /\ look[l].reason = "changed" =>
             /\ cacheVersion[i] = look[l].seen => At(cache[i], k) \in W
             /\ \A m \in Lookups :
                  Ready(m, i) /\ look[m].ver = look[l].seen => At(look[m].data, k) \in W
        /\ look[l].checked /\ look[l].reason = "miss" =>
             /\ At(cache[i], k) \in W
             /\ \A m \in Lookups : Ready(m, i) => At(look[m].data, k) \in W
    BY <1>2 DEF AnswerOk, Seen
  <2>5. At(store', k) \in V
    BY <1>2
  <2> HIDE DEF i, k, W, V
  <2>6. look'[l].attempted =>
             /\ loadLock'[i] = Nobody => At(cache'[i], k) \in V
             /\ \A m \in Lookups : look'[m].pc = "loadApply" /\ look'[m].home = i
                                       => At(look'[m].data, k) \in V
    BY <2>1, <2>2, <2>3, <2>4
  <2>7. look[l].checked /\ look[l].reason = "changed" =>
             /\ cacheVersion'[i] = look[l].seen => At(cache'[i], k) \in V
             /\ \A m \in Lookups : look'[m].pc = "loadApply" /\ look'[m].home = i
                                       /\ look'[m].ver = look[l].seen => At(look'[m].data, k) \in V
    BY <2>1, <2>2, <2>3, <2>4
  <2>8. look[l].checked /\ look[l].reason = "miss" =>
             /\ At(cache'[i], k) \in V
             /\ \A m \in Lookups : look'[m].pc = "loadApply" /\ look'[m].home = i
                                       => At(look'[m].data, k) \in V
    BY <2>1, <2>2, <2>3, <2>4
  <2>9. look[l].checked => look[l].pc \in Loading /\ look[l].reason \in {"changed", "miss"}
    BY <2>4
  <2>10. V = look'[l].window
    BY DEF V
  <2>11. AnswerOk(l)'
    BY <2>1, <2>5, <2>6, <2>7, <2>8, <2>9, <2>10 DEF AnswerOk, Seen, Ready, At
  <2> QED
    BY <1>0, <2>11
<1> QED
  BY <1>1, <1>2
\* The lookups that a step leaves where they are.
Unmoved(m) ==
    /\ Like(m) /\ look'[m].pc = look[m].pc
    /\ look'[m].ver = look[m].ver /\ look'[m].data = look[m].data
    /\ look[m].attempted => look'[m].attempted

LEMMA UnmovedIs ==
    ASSUME TypeInv, NEW m \in Lookups,
           look'[m] \in {look[m], [look[m] EXCEPT !.attempted = TRUE],
                         [look[m] EXCEPT !.versionKnown = TRUE]}
    PROVE  /\ Unmoved(m)
           /\ look'[m] # [look[m] EXCEPT !.attempted = TRUE]
                => look'[m].attempted = look[m].attempted
<1>1. look[m] \in LookupRecs
  BY DEF TypeInv, LookTypes
<1>2. CASE look'[m] = look[m]
  BY <1>2 DEF Unmoved, Like
<1>3. CASE look'[m] = [look[m] EXCEPT !.attempted = TRUE]
  BY <1>1, <1>3 DEF Unmoved, Like, LookupRecs
<1>4. CASE look'[m] = [look[m] EXCEPT !.versionKnown = TRUE]
  BY <1>1, <1>4 DEF Unmoved, Like, LookupRecs
<1> QED
  BY <1>2, <1>3, <1>4

\* The other lookups around one that reads, waits or answers.
LEMMA OthersOk ==
    ASSUME TypeInv, AnswersOk, UNCHANGED <<store, cache, cacheVersion>>, NEW l \in Lookups,
           \A n \in Lookups \ {l} : Unmoved(n),
           \A i \in Instances : loadLock'[i] = loadLock[i] \/ loadLock[i] = Nobody,
           look'[l].pc = "loadApply" => look'[l].data = store,
           \A n \in Lookups \ {l} : look'[n].attempted /\ ~look[n].attempted =>
                /\ loadLock[look[n].home] = Nobody /\ loadLock'[look[n].home] = l
                /\ look'[l].pc # "loadApply",
           NEW n \in Lookups \ {l}
    PROVE  LoaderOk(n)' /\ ~look'[n].stale /\ AnswerOk(n)'
<1>1. LoaderOk(n) /\ ~look[n].stale /\ AnswerOk(n) /\ Unmoved(n)
  BY DEF AnswersOk
<1>2. Nobody \notin Lookups /\ loadLock \in [Instances -> Lookups \cup {Nobody}]
  BY ThreadsAssumption DEF TypeInv, LockTypes
<1>3. \A m \in Lookups : look[m].pc \notin Resting => look[m].home \in Instances
  BY DEF TypeInv, LookTypes, Fine
<1>4. LoaderOk(n)'
  BY <1>1, <1>2, <1>3 DEF LoaderOk, Unmoved, Like, Resting
<1>5. ASSUME look[n].pc \notin Resting
      PROVE  \A m \in Lookups : look'[m].pc = "loadApply" /\ look'[m].home = look[n].home =>
                 \/ Ready(m, look[n].home) /\ look'[m].data = look[m].data
                    /\ look'[m].ver = look[m].ver
                 \/ At(look'[m].data, look[n].key) \in look'[n].window
  <2>1. At(store, look[n].key) \in look'[n].window
    BY <1>1, <1>5 DEF AnswerOk, Seen, Unmoved, Like
  <2>2. ASSUME NEW m \in Lookups \ {l}, look'[m].pc = "loadApply", look'[m].home = look[n].home
        PROVE  Ready(m, look[n].home) /\ look'[m].data = look[m].data
               /\ look'[m].ver = look[m].ver
    BY <2>2 DEF Unmoved, Like, Ready
  <2> QED
    BY <2>1, <2>2
<1>6. ASSUME look[n].pc \notin Resting
      PROVE  look'[n].attempted =>
              \/ look[n].attempted
              \/ /\ loadLock'[look[n].home] # Nobody
                 /\ \A m \in Lookups : look'[m].pc = "loadApply" => look'[m].home # look[n].home
  <2>1. ASSUME look'[n].attempted, ~look[n].attempted, NEW m \in Lookups,
               look'[m].pc = "loadApply", look'[m].home = look[n].home
        PROVE  FALSE
    <3>1. m # l /\ loadLock[look[n].home] = Nobody
      BY <2>1
    <3>2. look[m].pc = "loadApply" /\ look[m].home = look[n].home
      BY <2>1, <3>1 DEF Unmoved, Like
    <3>3. loadLock[look[n].home] = m
      BY <3>2 DEF AnswersOk, LoaderOk
    <3> QED
      BY <1>2, <3>1, <3>3
  <2> QED
    BY <1>2, <2>1
<1>7. look[n].pc \notin Resting =>
        /\ At(store', look[n].key) \in look'[n].window
        /\ loadLock'[look[n].home] = Nobody => loadLock[look[n].home] = Nobody
  BY <1>1, <1>2, <1>3 DEF AnswerOk, Seen, Unmoved, Like
<1>8. Like(n)
  BY <1>1 DEF Unmoved
<1>9. ~look'[n].stale
  BY <1>1, <1>8 DEF Like
<1>10. CASE look[n].pc \in Resting
  BY <1>4, <1>8, <1>9, <1>10 DEF Like, AnswerOk
<1>11. CASE look[n].pc \notin Resting
  BY <1>1, <1>4, <1>5, <1>6, <1>7, <1>8, <1>11, LikeOk
<1> QED
  BY <1>10, <1>11
\* A lookup under way, as the invariant has it.
LEMMA UnderWay ==
    ASSUME TypeInv, AnswersOk, NEW l \in Lookups, look[l].pc \notin Resting
    PROVE  /\ look[l] \in LookupRecs /\ Home(l) \in Instances /\ Home(l) = look[l].home
           /\ look[l].ver <= version /\ ~look[l].stale /\ AnswerOk(l) /\ LoaderOk(l)
           /\ At(store, look[l].key) \in look[l].window
           /\ look[l].pc \in Loading => look[l].reason # "none"
           /\ look[l].checked => look[l].pc \in Loading /\ look[l].reason \in {"changed", "miss"}
           /\ look[l].attempted =>
                 /\ loadLock[Home(l)] = Nobody => At(cache[Home(l)], look[l].key) \in look[l].window
                 /\ \A m \in Lookups : Ready(m, Home(l)) =>
                        At(look[m].data, look[l].key) \in look[l].window
BY DEF TypeInv, LookTypes, Fine, Home, AnswersOk, AnswerOk, Seen

LEMMA CheckLookBegin ==
    ASSUME TypeInv, AnswersOk, NEW l \in Lookups, LookBegin(l) PROVE AnswersOk'
<1>1. UNCHANGED <<store, cache, cacheVersion, loadLock>> /\ look[l].pc = "start"
  BY DEF LookBegin, storeVars, cacheVars, lockVars
<1>2. PICK k \in LookedUp, i \in Instances :
        LET r == [look[l] EXCEPT !.home = i, !.key = k, !.asked = now, !.window = {At(store, k)}]
        IN look' = [look EXCEPT ![l] =
              IF \/ cache[i] = NoKeys
                 \/ /\ now - loadedAt[i] > CacheTtl
                    /\ now - lastAttempt[i] >= ForcedInterval
              THEN [r EXCEPT !.pc = "wantLoad", !.reason = "stale"]
              ELSE CheckedNext(r, cache[i], lastVersionCheck[i])]
  BY DEF LookBegin
<1> DEFINE r == [look[l] EXCEPT !.home = i, !.key = k, !.asked = now,
                                !.window = {At(store, k)}]
<1>3. /\ look \in [Lookups -> LookupRecs] /\ look[l] = NewLookup
      /\ store \in Tables /\ now \in 0 .. MaxTime
  BY <1>1 DEF TypeInv, LookTypes, Fine, StoreTypes, ClockTypes
<1>4. At(store, k) \in Entry \cup {None}
  BY <1>3, TablesAre DEF At, IsTable
<1>5. /\ r \in LookupRecs /\ ~r.stale /\ ~r.checked /\ ~r.attempted
      /\ At(store, r.key) \in r.window
  BY <1>3, <1>4, NewIsLookup DEF LookupRecs, NewLookup
<1> HIDE DEF r
<1>6. Onward(r, CheckedNext(r, cache[i], lastVersionCheck[i]))
  BY <1>5, OnwardIs
<1>7. Onward(r, [r EXCEPT !.pc = "wantLoad", !.reason = "stale"])
  BY <1>5 DEF Onward, LookupRecs
<1>8. /\ Onward(r, look'[l])
      /\ \A m \in Lookups \ {l} : look'[m] = look[m]
  BY <1>2, <1>3, <1>6, <1>7 DEF r
<1>9. LoaderOk(l)' /\ ~look'[l].stale /\ AnswerOk(l)'
  BY <1>1, <1>5, <1>8, OnwardOk
<1>10. look'[l].pc # "loadApply"
  BY <1>8 DEF Onward
<1>11. \A m \in Lookups \ {l} : Unmoved(m) /\ look'[m].attempted = look[m].attempted
  BY <1>8 DEF Unmoved, Like
<1>12. ASSUME NEW n \in Lookups \ {l} PROVE LoaderOk(n)' /\ ~look'[n].stale /\ AnswerOk(n)'
  BY <1>1, <1>10, <1>11, OthersOk
<1> QED
  BY <1>9, <1>12 DEF AnswersOk

\* A lookup that goes on after _reload, or without it, and no load is under way.
LEMMA CheckResume ==
    ASSUME TypeInv, AnswersOk, UNCHANGED <<store, cache, cacheVersion, loadLock>>,
           NEW l \in Lookups, look[l].pc = "wantLoad", ResumeLookup(l),
           look[l].checked => At(cache[Home(l)], look[l].key) \in look[l].window,
           loadLock[Home(l)] = Nobody
    PROVE  AnswersOk'
<1>1. /\ look[l] \in LookupRecs /\ Home(l) \in Instances /\ Home(l) = look[l].home
      /\ ~look[l].stale /\ At(store, look[l].key) \in look[l].window
      /\ look[l].reason # "none" /\ (look[l].checked => look[l].reason \in {"changed", "miss"})
      /\ look[l].attempted => At(cache[Home(l)], look[l].key) \in look[l].window
  BY UnderWay DEF Resting, Loading
<1> DEFINE q == Resumed(look[l], cache[Home(l)], lastVersionCheck[Home(l)])
<1>2. Onward(look[l], q)
  BY <1>1, OnwardIs
<1>3. look' = [look EXCEPT ![l] = q] /\ look \in [Lookups -> LookupRecs]
  BY DEF ResumeLookup, TypeInv, LookTypes
<1> HIDE DEF q
<1>4. look'[l] = q /\ \A m \in Lookups \ {l} : look'[m] = look[m]
  BY <1>3
<1>5. look'[l].pc # "loadApply"
  BY <1>2, <1>4 DEF Onward
<1>6. \A m \in Lookups : look'[m].pc = "loadApply" => look'[m].home # look[l].home
  <2>1. \A m \in Lookups : look[m].pc = "loadApply" => loadLock[look[m].home] = m
    BY DEF AnswersOk, LoaderOk
  <2> QED
    BY <1>1, <1>4, <1>5, <2>1, ThreadsAssumption
<1>7. LoaderOk(l)' /\ ~look'[l].stale /\ AnswerOk(l)'
  <2> DEFINE r == look[l]
  <2>1. /\ Onward(r, look'[l]) /\ At(store', r.key) \in r.window
        /\ r.attempted => At(cache'[r.home], r.key) \in r.window
        /\ r.checked => At(cache'[r.home], r.key) \in r.window
        /\ \A m \in Lookups : ~(look'[m].pc = "loadApply" /\ look'[m].home = r.home)
    BY <1>1, <1>2, <1>4, <1>6
  <2> HIDE DEF r
  <2> QED
    BY <2>1, OnwardOk
<1>8. \A m \in Lookups \ {l} : Unmoved(m) /\ look'[m].attempted = look[m].attempted
  BY <1>4 DEF Unmoved, Like
<1>9. ASSUME NEW n \in Lookups \ {l} PROVE LoaderOk(n)' /\ ~look'[n].stale /\ AnswerOk(n)'
  BY <1>5, <1>8, OthersOk
<1> QED
  BY <1>7, <1>9 DEF AnswersOk

LEMMA CheckEnterReload ==
    ASSUME TypeInv, AnswersOk, NEW l \in Lookups, EnterReload(l) PROVE AnswersOk'
<1>1. /\ UNCHANGED <<store, cache, cacheVersion>> /\ look[l].pc = "wantLoad"
      /\ loadLock[Home(l)] = Nobody
  BY DEF EnterReload, storeVars, cacheVars
<1>2. look[l] \in LookupRecs /\ Home(l) \in Instances /\ Home(l) = look[l].home
  BY <1>1, UnderWay DEF Resting
<1>3. CASE ~MayLoad(l) /\ ResumeLookup(l) /\ UNCHANGED loadLock
  <2>1. look[l].checked => look[l].reason \in {"changed", "miss"}
    BY <1>1, UnderWay DEF Resting
  <2>2. look[l].attempted => At(cache[Home(l)], look[l].key) \in look[l].window
    BY <1>1, UnderWay DEF Resting
  <2>3. look[l].checked /\ look[l].reason = "miss" =>
            At(cache[Home(l)], look[l].key) \in look[l].window
    BY <1>1, <1>2 DEF AnswersOk, AnswerOk, Seen, Resting
  <2>4. look[l].checked /\ look[l].reason = "changed" /\ cacheVersion[Home(l)] = look[l].seen
            => At(cache[Home(l)], look[l].key) \in look[l].window
    BY <1>1, <1>2 DEF AnswersOk, AnswerOk, Seen, Resting
  <2>5. look[l].reason = "changed" /\ ~look[l].attempted => cacheVersion[Home(l)] = look[l].seen
    BY <1>3 DEF MayLoad, StillNeeded
  <2>6. look[l].checked => At(cache[Home(l)], look[l].key) \in look[l].window
    BY <2>1, <2>2, <2>3, <2>4, <2>5
  <2> QED
    BY <1>1, <1>3, <2>6, CheckResume
<1>4. CASE /\ loadLock' = [loadLock EXCEPT ![Home(l)] = l]
           /\ look' = [Noted(Home(l), "attempted") EXCEPT ![l].pc = "loadVersion"]
  <2>1. LookTypes /\ look \in [Lookups -> LookupRecs]
        /\ loadLock \in [Instances -> Lookups \cup {Nobody}]
    BY DEF TypeInv, LookTypes, LockTypes
  <2>2. /\ Noted(Home(l), "attempted") \in [Lookups -> LookupRecs]
        /\ Noted(Home(l), "attempted")[l] = [look[l] EXCEPT !.attempted = TRUE]
        /\ \A m \in Lookups : Noted(Home(l), "attempted")[m] =
              IF look[m].home = Home(l) /\ look[m].pc # "done"
              THEN [look[m] EXCEPT !.attempted = TRUE] ELSE look[m]
    BY <1>1, <1>2, <2>1, NotedIs
  <2>3. ASSUME NEW m \in Lookups \ {l}
        PROVE  /\ look'[m] \in {look[m], [look[m] EXCEPT !.attempted = TRUE]}
               /\ look[m].home # Home(l) => look'[m] = look[m]
    BY <1>4, <2>2
  <2>4. /\ look'[l] = [[look[l] EXCEPT !.attempted = TRUE] EXCEPT !.pc = "loadVersion"]
        /\ look'[l].pc = "loadVersion" /\ look'[l].home = Home(l) /\ look'[l].attempted
        /\ Like(l)
    <3>1. look'[l] = [[look[l] EXCEPT !.attempted = TRUE] EXCEPT !.pc = "loadVersion"]
      BY <1>4, <2>2
    <3> QED
      BY <1>1, <1>2, <3>1 DEF LookupRecs, Like, Resting, Loading
  <2>5. \A m \in Lookups \ {l} : Unmoved(m)
    BY <2>3, UnmovedIs
  <2>6. \A m \in Lookups \ {l} : look'[m].attempted /\ ~look[m].attempted =>
            loadLock[look[m].home] = Nobody /\ loadLock'[look[m].home] = l
    BY ZenonT(60), <1>1, <1>2, <1>4, <2>1, <2>3
  <2>7. \A i \in Instances : loadLock'[i] = loadLock[i] \/ loadLock[i] = Nobody
    BY <1>1, <1>4, <2>1
  <2>8. ASSUME NEW n \in Lookups \ {l} PROVE LoaderOk(n)' /\ ~look'[n].stale /\ AnswerOk(n)'
    BY <1>1, <2>4, <2>5, <2>6, <2>7, OthersOk
  <2>9. loadLock'[Home(l)] = l /\ l # Nobody
    BY <1>2, <1>4, <2>1, ThreadsAssumption
  <2>10. \A m \in Lookups : look'[m].pc = "loadApply" => look'[m].home # look[l].home
    <3>1. \A m \in Lookups : look[m].pc = "loadApply" => loadLock[look[m].home] = m
      BY DEF AnswersOk, LoaderOk
    <3>2. \A m \in Lookups \ {l} : look'[m].pc = look[m].pc /\ look'[m].home = look[m].home
      BY <2>5 DEF Unmoved, Like
    <3>3. Nobody \notin Lookups /\ look'[l].pc # "loadApply"
      BY <2>4, ThreadsAssumption
    <3> QED
      BY <1>1, <1>2, <3>1, <3>2, <3>3
  <2>11. /\ ~look[l].stale /\ AnswerOk(l) /\ At(store', look[l].key) \in look'[l].window
    BY <1>1, <2>4, UnderWay DEF Resting, Like
  <2>12. ~look'[l].stale /\ AnswerOk(l)'
    <3>1. /\ cache'[look[l].home] = cache[look[l].home]
          /\ cacheVersion'[look[l].home] = cacheVersion[look[l].home]
          /\ loadLock'[look[l].home] = Nobody => loadLock[look[l].home] = Nobody
      BY <1>1, <1>2, <2>9
    <3> QED
      BY <1>2, <2>4, <2>9, <2>10, <2>11, <3>1, LikeOk
  <2>13. LoaderOk(l)'
    BY <2>4, <2>9 DEF LoaderOk
  <2> QED
    BY <2>8, <2>12, <2>13 DEF AnswersOk
<1> QED
  BY <1>3, <1>4 DEF EnterReload
\* A step of the loader, or of a lookup about to ask for the version: it stays under way.
LEMMA CheckStays ==
    ASSUME TypeInv, AnswersOk, UNCHANGED <<store, cache, cacheVersion, loadLock>>,
           NEW l \in Lookups, look[l].pc \notin Resting, Like(l),
           look'[l].attempted = look[l].attempted,
           look'[l].pc = "loadApply" => look'[l].data = store,
           LoaderOk(l)',
           \A m \in Lookups \ {l} : Unmoved(m) /\ look'[m].attempted = look[m].attempted
    PROVE  AnswersOk'
<1>1. ASSUME NEW n \in Lookups \ {l} PROVE LoaderOk(n)' /\ ~look'[n].stale /\ AnswerOk(n)'
  BY OthersOk
<1>2. ~look[l].stale /\ AnswerOk(l) /\ At(store', look[l].key) \in look'[l].window
  BY UnderWay DEF Like
<1>3. \A m \in Lookups : look'[m].pc = "loadApply" /\ look'[m].home = look[l].home =>
          \/ Ready(m, look[l].home) /\ look'[m].data = look[m].data /\ look'[m].ver = look[m].ver
          \/ At(look'[m].data, look[l].key) \in look'[l].window
  BY <1>2 DEF Unmoved, Like, Ready
<1>4. ~look'[l].stale /\ AnswerOk(l)'
  BY <1>2, <1>3, LikeOk
<1> QED
  BY <1>1, <1>4 DEF AnswersOk

LEMMA CheckLoadVersion ==
    ASSUME TypeInv, AnswersOk, NEW l \in Lookups, LoadVersion(l), UNCHANGED faults
    PROVE  AnswersOk'
<1>1. /\ UNCHANGED <<store, cache, cacheVersion, loadLock>> /\ look[l].pc = "loadVersion"
      /\ look' = [look EXCEPT ![l].pc = "loadData", ![l].ver = version]
  BY DEF LoadVersion, storeVars, cacheVars, lockVars, Fault, TypeInv, ClockTypes
<1>2. look \in [Lookups -> LookupRecs] /\ look[l] \in LookupRecs
  BY DEF TypeInv, LookTypes
<1>3. look'[l] = [look[l] EXCEPT !.pc = "loadData", !.ver = version]
      /\ \A m \in Lookups \ {l} : look'[m] = look[m]
  BY <1>1, <1>2
<1>4. /\ Like(l) /\ look'[l].attempted = look[l].attempted /\ look'[l].pc = "loadData"
      /\ look'[l].ver = version /\ look'[l].home = look[l].home
  BY <1>1, <1>2, <1>3 DEF Like, LookupRecs, Resting, Loading
<1>5. \A m \in Lookups \ {l} : Unmoved(m) /\ look'[m].attempted = look[m].attempted
  BY <1>3 DEF Unmoved, Like
<1>6. loadLock[look[l].home] = l /\ look[l].attempted /\ cacheVersion[look[l].home] <= version
  BY <1>1 DEF AnswersOk, LoaderOk, TypeInv, CacheTypes, LookTypes, Fine, Resting
<1>7. LoaderOk(l)'
  BY <1>1, <1>4, <1>6 DEF LoaderOk
<1> QED
  BY <1>1, <1>4, <1>5, <1>7, CheckStays DEF Resting

LEMMA CheckLoadData ==
    ASSUME TypeInv, AnswersOk, NEW l \in Lookups, LoadData(l), UNCHANGED faults
    PROVE  AnswersOk'
<1>1. /\ UNCHANGED <<store, cache, cacheVersion, loadLock>> /\ look[l].pc = "loadData"
      /\ look' = [look EXCEPT ![l].pc = "loadApply", ![l].data = store]
  BY DEF LoadData, storeVars, cacheVars, Fault, TypeInv, ClockTypes
<1>2. look \in [Lookups -> LookupRecs] /\ look[l] \in LookupRecs
  BY DEF TypeInv, LookTypes
<1>3. look'[l] = [look[l] EXCEPT !.pc = "loadApply", !.data = store]
      /\ \A m \in Lookups \ {l} : look'[m] = look[m]
  BY <1>1, <1>2
<1>4. /\ Like(l) /\ look'[l].attempted = look[l].attempted /\ look'[l].pc = "loadApply"
      /\ look'[l].ver = look[l].ver /\ look'[l].home = look[l].home /\ look'[l].data = store
  BY <1>1, <1>2, <1>3 DEF Like, LookupRecs, Resting, Loading
<1>5. \A m \in Lookups \ {l} : Unmoved(m) /\ look'[m].attempted = look[m].attempted
  BY <1>3 DEF Unmoved, Like
<1>6. /\ loadLock[look[l].home] = l /\ look[l].attempted
      /\ cacheVersion[look[l].home] <= look[l].ver
  BY <1>1 DEF AnswersOk, LoaderOk
<1>7. LoaderOk(l)'
  BY <1>1, <1>4, <1>6 DEF LoaderOk
<1> QED
  BY <1>1, <1>4, <1>5, <1>7, CheckStays DEF Resting

\* A lookup that goes on where no load replaced its cache.
LEMMA CheckGoesOn ==
    ASSUME TypeInv, AnswersOk, UNCHANGED <<store, cache, cacheVersion, loadLock>>,
           NEW l \in Lookups, look[l].pc \notin Resting, NEW r, Onward(r, look'[l]),
           r.home = look[l].home, r.key = look[l].key, r.window = look[l].window,
           r.attempted = look[l].attempted,
           r.checked =>
             /\ At(cache[Home(l)], look[l].key) \in look[l].window
             /\ \A m \in Lookups : Ready(m, Home(l)) =>
                    At(look[m].data, look[l].key) \in look[l].window,
           \A m \in Lookups \ {l} : look'[m] = look[m]
    PROVE  AnswersOk'
<1>1. /\ Home(l) = look[l].home /\ At(store, look[l].key) \in look[l].window
      /\ look[l].attempted =>
            /\ loadLock[Home(l)] = Nobody => At(cache[Home(l)], look[l].key) \in look[l].window
            /\ \A m \in Lookups : Ready(m, Home(l)) =>
                   At(look[m].data, look[l].key) \in look[l].window
  BY UnderWay
<1>2. look'[l].pc # "loadApply"
  BY DEF Onward
<1>3. \A m \in Lookups : look'[m].pc = "loadApply" /\ look'[m].home = r.home =>
          Ready(m, Home(l)) /\ look'[m].data = look[m].data
  BY <1>1, <1>2 DEF Ready
<1>4. LoaderOk(l)' /\ ~look'[l].stale /\ AnswerOk(l)'
  <2>1. At(store', r.key) \in r.window
    BY <1>1
  <2>2. r.attempted =>
             /\ loadLock'[r.home] = Nobody => At(cache'[r.home], r.key) \in r.window
             /\ \A m \in Lookups : look'[m].pc = "loadApply" /\ look'[m].home = r.home =>
                    At(look'[m].data, r.key) \in r.window
    BY <1>1, <1>3
  <2>3. r.checked =>
             /\ At(cache'[r.home], r.key) \in r.window
             /\ \A m \in Lookups : look'[m].pc = "loadApply" /\ look'[m].home = r.home =>
                    At(look'[m].data, r.key) \in r.window
    BY <1>1, <1>3
  <2> QED
    BY <2>1, <2>2, <2>3, OnwardOk
<1>5. \A m \in Lookups \ {l} : Unmoved(m) /\ look'[m].attempted = look[m].attempted
  BY DEF Unmoved, Like
<1>6. ASSUME NEW n \in Lookups \ {l} PROVE LoaderOk(n)' /\ ~look'[n].stale /\ AnswerOk(n)'
  BY <1>2, <1>5, OthersOk
<1> QED
  BY <1>4, <1>6 DEF AnswersOk

LEMMA CheckEnterVersionCheck ==
    ASSUME TypeInv, AnswersOk, NEW l \in Lookups, EnterVersionCheck(l) PROVE AnswersOk'
<1>1. UNCHANGED <<store, cache, cacheVersion, loadLock>> /\ look[l].pc = "wantVersion"
  BY DEF EnterVersionCheck, storeVars, cacheVars
<1>2. /\ look \in [Lookups -> LookupRecs] /\ look[l] \in LookupRecs /\ LookTypes
      /\ Home(l) \in Instances /\ Home(l) = look[l].home /\ ~look[l].stale /\ ~look[l].checked
  BY <1>1, UnderWay DEF TypeInv, LookTypes, Resting, Loading
<1>3. CASE look' = [look EXCEPT ![l] = LookedIn(@, cache[Home(l)])]
  <2>1. Onward(look[l], LookedIn(look[l], cache[Home(l)]))
    BY <1>2, OnwardIs
  <2>2. Onward(look[l], look'[l]) /\ \A m \in Lookups \ {l} : look'[m] = look[m]
    BY <1>2, <1>3, <2>1
  <2> DEFINE r == look[l]
  <2>3. /\ Onward(r, look'[l]) /\ r.home = look[l].home /\ r.key = look[l].key
        /\ r.window = look[l].window /\ r.attempted = look[l].attempted /\ ~r.checked
    BY <1>2, <2>2
  <2> HIDE DEF r
  <2> QED
    BY <1>1, <2>2, <2>3, CheckGoesOn DEF Resting
<1>4. CASE look' = [Noted(Home(l), "versionKnown") EXCEPT ![l].pc = "askVersion"]
  <2>1. /\ Noted(Home(l), "versionKnown") \in [Lookups -> LookupRecs]
        /\ \A m \in Lookups : Noted(Home(l), "versionKnown")[m] =
              IF look[m].home = Home(l) /\ look[m].pc # "done"
              THEN [look[m] EXCEPT !.versionKnown = TRUE] ELSE look[m]
    BY <1>2, NotedIs
  <2>2. /\ look'[l] = [[look[l] EXCEPT !.versionKnown = TRUE] EXCEPT !.pc = "askVersion"]
        /\ \A m \in Lookups \ {l} :
              look'[m] \in {look[m], [look[m] EXCEPT !.versionKnown = TRUE]}
    BY <1>1, <1>2, <1>4, <2>1
  <2>3. Like(l) /\ look'[l].attempted = look[l].attempted /\ look'[l].pc = "askVersion"
    BY <1>1, <1>2, <2>2 DEF Like, LookupRecs, Resting, Loading
  <2>4. \A m \in Lookups \ {l} : Unmoved(m) /\ look'[m].attempted = look[m].attempted
    <3>1. ASSUME NEW m \in Lookups \ {l}
          PROVE  Unmoved(m) /\ look'[m].attempted = look[m].attempted
      <4>1. look[m] \in LookupRecs
        BY <1>2
      <4> QED
        BY <2>2, <4>1 DEF Unmoved, Like, LookupRecs
    <3> QED
      BY <3>1
  <2>5. LoaderOk(l)'
    BY <2>3 DEF LoaderOk
  <2> QED
    BY <1>1, <2>3, <2>4, <2>5, CheckStays DEF Resting
<1> QED
  BY <1>3, <1>4 DEF EnterVersionCheck
LEMMA CheckAskVersion ==
    ASSUME TypeInv, VersionInv, backend = "secret", AnswersOk, NEW l \in Lookups,
           AskVersion(l), UNCHANGED faults
    PROVE  AnswersOk'
<1>1. UNCHANGED <<store, version, cache, cacheVersion, loadLock>> /\ look[l].pc = "askVersion"
  BY DEF AskVersion, storeVars, cacheVars
<1>2. /\ look \in [Lookups -> LookupRecs] /\ look[l] \in LookupRecs
      /\ Home(l) \in Instances /\ Home(l) = look[l].home /\ ~look[l].stale /\ ~look[l].checked
      /\ At(store, look[l].key) \in look[l].window
  BY <1>1, UnderWay DEF TypeInv, LookTypes, Resting, Loading
<1>3. /\ \A i \in Instances : cacheVersion[i] = version => cache[i] = store
      /\ \A m \in Lookups :
            look[m].pc = "loadApply" /\ look[m].ver = version => look[m].data = store
  BY DEF VersionInv
<1>4. CASE /\ version # cacheVersion[Home(l)]
           /\ look' = [look EXCEPT ![l].pc = "wantLoad", ![l].reason = "changed",
                                   ![l].seen = version, ![l].checked = TRUE]
  <2>1. /\ look'[l] = [look[l] EXCEPT !.pc = "wantLoad", !.reason = "changed",
                                      !.seen = version, !.checked = TRUE]
        /\ \A m \in Lookups \ {l} : look'[m] = look[m]
    BY <1>2, <1>4
  <2>2. /\ look'[l].pc = "wantLoad" /\ look'[l].reason = "changed" /\ look'[l].seen = version
        /\ look'[l].home = look[l].home /\ look'[l].key = look[l].key
        /\ look'[l].window = look[l].window /\ look'[l].attempted = look[l].attempted
        /\ ~look'[l].stale
    BY <1>2, <2>1 DEF LookupRecs
  <2>3. \A m \in Lookups \ {l} : Unmoved(m) /\ look'[m].attempted = look[m].attempted
    BY <2>1 DEF Unmoved, Like
  <2>4. ASSUME NEW n \in Lookups \ {l} PROVE LoaderOk(n)' /\ ~look'[n].stale /\ AnswerOk(n)'
    BY <1>1, <2>2, <2>3, OthersOk
  <2>5. \A m \in Lookups : look'[m].pc = "loadApply" /\ look'[m].home = look[l].home =>
            Ready(m, look[l].home) /\ look'[m].data = look[m].data /\ look'[m].ver = look[m].ver
    BY <2>1, <2>2 DEF Ready
  <2>6. look[l].attempted =>
            /\ loadLock[Home(l)] = Nobody => At(cache[Home(l)], look[l].key) \in look[l].window
            /\ \A m \in Lookups : Ready(m, Home(l)) =>
                   At(look[m].data, look[l].key) \in look[l].window
    BY <1>1, UnderWay DEF Resting
  <2>7. \A m \in Lookups : look'[m].pc = "loadApply" /\ look'[m].home = look[l].home =>
            /\ look[l].attempted => At(look'[m].data, look[l].key) \in look[l].window
            /\ look'[m].ver = version => At(look'[m].data, look[l].key) \in look[l].window
    BY <1>2, <1>3, <2>5, <2>6 DEF Ready
  <2>8. AnswerOk(l)'
    BY SMTT(60), <1>1, <1>2, <1>4, <2>2, <2>6, <2>7 DEF AnswerOk, Seen, Ready, Loading, At
  <2>9. LoaderOk(l)'
    BY <2>2 DEF LoaderOk
  <2> QED
    BY <2>2, <2>4, <2>8, <2>9 DEF AnswersOk
<1>5. CASE /\ version = cacheVersion[Home(l)]
           /\ look' = [look EXCEPT ![l] =
                         LookedIn([@ EXCEPT !.checked = TRUE], cache[Home(l)])]
  <2> DEFINE r == [look[l] EXCEPT !.checked = TRUE]
  <2>1. cache[Home(l)] = store
    BY <1>2, <1>3, <1>5
  <2>2. /\ r \in LookupRecs /\ ~r.stale /\ r.home = look[l].home /\ r.key = look[l].key
        /\ r.window = look[l].window /\ r.attempted = look[l].attempted
        /\ At(cache[Home(l)], r.key) \in r.window
    BY <1>2, <2>1 DEF LookupRecs
  <2>3. look'[l] = LookedIn(r, cache[Home(l)]) /\ \A m \in Lookups \ {l} : look'[m] = look[m]
    BY <1>2, <1>5
  <2> HIDE DEF r
  <2>4. Onward(r, look'[l])
    BY <2>2, <2>3, OnwardIs
  <2>5. ASSUME NEW m \in Lookups, Ready(m, Home(l))
        PROVE  At(look[m].data, look[l].key) \in look[l].window
    <3>1. cacheVersion[Home(l)] <= look[m].ver /\ look[m].ver <= version
      BY <2>5, UnderWay DEF Ready, LoaderOk, Resting
    <3>2. look[m].ver \in Nat /\ version \in Nat
      BY DEF TypeInv, LookTypes, LookupRecs, StoreTypes
    <3>3. look[m].ver = version
      BY <1>5, <3>1, <3>2
    <3> QED
      BY <1>2, <1>3, <2>5, <3>3 DEF Ready
  <2> QED
    BY <1>1, <1>2, <2>1, <2>2, <2>3, <2>4, <2>5, CheckGoesOn DEF Resting
<1>6. faults \in Nat
  BY DEF TypeInv, ClockTypes
<1> QED
  BY <1>4, <1>5, <1>6 DEF AskVersion, Fault

LEMMA CheckLoadApply ==
    ASSUME TypeInv, AnswersOk, NEW l \in Lookups, LoadApply(l) PROVE AnswersOk'
<1> DEFINE i == Home(l)
           d == look[l].data
<1>1. /\ look[l].pc = "loadApply" /\ UNCHANGED store
      /\ cache' = [cache EXCEPT ![i] = d]
      /\ cacheVersion' = [cacheVersion EXCEPT ![i] = look[l].ver]
      /\ loadLock' = [loadLock EXCEPT ![i] = Nobody]
      /\ look' = [Noted(i, "versionKnown") EXCEPT ![l] =
                    Resumed(@, cache'[i], lastVersionCheck'[i])]
  BY DEF LoadApply, LoadedUnder, storeVars
<1>2. /\ look \in [Lookups -> LookupRecs] /\ LookTypes
      /\ cache \in [Instances -> Tables] /\ cacheVersion \in [Instances -> Nat]
      /\ loadLock \in [Instances -> Lookups \cup {Nobody}]
  BY DEF TypeInv, LookTypes, CacheTypes, LockTypes
<1>3. /\ look[l] \in LookupRecs /\ i \in Instances /\ i = look[l].home
      /\ ~look[l].stale /\ AnswerOk(l) /\ loadLock[i] = l /\ look[l].attempted
      /\ At(store, look[l].key) \in look[l].window /\ At(d, look[l].key) \in look[l].window
      /\ look[l].reason # "none" /\ (look[l].checked => look[l].reason \in {"changed", "miss"})
  BY <1>1, UnderWay DEF Resting, Loading, Ready, LoaderOk
<1>4. /\ Noted(i, "versionKnown") \in [Lookups -> LookupRecs]
      /\ \A m \in Lookups : Noted(i, "versionKnown")[m] =
            IF look[m].home = i /\ look[m].pc # "done"
            THEN [look[m] EXCEPT !.versionKnown = TRUE] ELSE look[m]
  BY <1>2, <1>3, NotedIs
<1> DEFINE r == [look[l] EXCEPT !.versionKnown = TRUE]
<1>5. /\ look'[l] = Resumed(r, d, lastVersionCheck'[i])
      /\ \A m \in Lookups \ {l} : look'[m] \in {look[m], [look[m] EXCEPT !.versionKnown = TRUE]}
  BY <1>1, <1>2, <1>3, <1>4
<1>6. /\ r \in LookupRecs /\ ~r.stale /\ r.home = i /\ r.key = look[l].key
      /\ r.window = look[l].window /\ r.reason = look[l].reason /\ r.checked = look[l].checked
  BY <1>3 DEF LookupRecs
<1>7. /\ cache'[i] = d /\ cacheVersion'[i] = look[l].ver /\ loadLock'[i] = Nobody
      /\ \A j \in Instances \ {i} : cache'[j] = cache[j] /\ cacheVersion'[j] = cacheVersion[j]
                                    /\ loadLock'[j] = loadLock[j]
  BY <1>1, <1>2, <1>3
<1> HIDE DEF i, d, r
<1>8. Onward(r, look'[l])
  BY <1>3, <1>5, <1>6, OnwardIs
<1>9. ASSUME NEW m \in Lookups \ {l}
      PROVE  Unmoved(m) /\ look'[m].attempted = look[m].attempted
  <2>1. look[m] \in LookupRecs
    BY <1>2
  <2> QED
    BY <1>5, <2>1 DEF Unmoved, Like, LookupRecs
<1>10. \A m \in Lookups : look'[m].pc = "loadApply" => look'[m].home # i
  <2>1. \A m \in Lookups : look[m].pc = "loadApply" => loadLock[look[m].home] = m
    BY DEF AnswersOk, LoaderOk
  <2>2. look'[l].pc # "loadApply"
    BY <1>8 DEF Onward
  <2> QED
    BY <1>3, <1>9, <2>1, <2>2 DEF Unmoved, Like
<1>11. LoaderOk(l)' /\ ~look'[l].stale /\ AnswerOk(l)'
  <2>1. At(store', r.key) \in r.window /\ At(cache'[r.home], r.key) \in r.window
    BY <1>1, <1>3, <1>6, <1>7
  <2>2. \A m \in Lookups : ~(look'[m].pc = "loadApply" /\ look'[m].home = r.home)
    BY <1>6, <1>10
  <2> QED
    BY <1>8, <2>1, <2>2, OnwardOk
<1>12. ASSUME NEW n \in Lookups \ {l}, look[n].pc \notin Resting, look[n].home = i
       PROVE  LoaderOk(n)' /\ ~look'[n].stale /\ AnswerOk(n)'
  <2>1. /\ look'[n].pc = look[n].pc /\ look'[n].home = i /\ look'[n].key = look[n].key
        /\ look'[n].reason = look[n].reason /\ look'[n].seen = look[n].seen
        /\ look'[n].checked = look[n].checked /\ look'[n].attempted = look[n].attempted
        /\ look[n].window \subseteq look'[n].window /\ look'[n].stale = look[n].stale
    BY <1>9, <1>12 DEF Unmoved, Like
  <2>2. AnswerOk(n) /\ LoaderOk(n) /\ ~look[n].stale
    BY DEF AnswersOk
  <2>3. Ready(l, i)
    BY <1>1, <1>3 DEF Ready
  <2>4. look[n].pc \notin {"loadVersion", "loadData", "loadApply"}
    BY <1>3, <1>12, <2>2 DEF LoaderOk
  <2>5. LoaderOk(n)'
    BY <2>1, <2>4 DEF LoaderOk
  <2>6. /\ At(store, look[n].key) \in look[n].window
        /\ look[n].attempted => At(d, look[n].key) \in look[n].window
        /\ look[n].checked => look[n].pc \in Loading /\ look[n].reason \in {"changed", "miss"}
        /\ look[n].checked /\ look[n].reason = "changed" /\ look[l].ver = look[n].seen
              => At(d, look[n].key) \in look[n].window
        /\ look[n].checked /\ look[n].reason = "miss" => At(d, look[n].key) \in look[n].window
    BY <1>12, <2>2, <2>3 DEF AnswerOk, Seen, d
  <2>7. AnswerOk(n)'
    BY SMTT(60), <1>1, <1>7, <1>10, <2>1, <2>6 DEF AnswerOk, Seen, Ready, At
  <2> QED
    BY <2>1, <2>2, <2>5, <2>7
<1>13. ASSUME NEW n \in Lookups \ {l}, look[n].pc \notin Resting, look[n].home # i
       PROVE  LoaderOk(n)' /\ ~look'[n].stale /\ AnswerOk(n)'
  <2>1. /\ AnswerOk(n) /\ LoaderOk(n) /\ ~look[n].stale /\ look[n].home \in Instances \ {i}
        /\ At(store', look[n].key) \in look'[n].window
    BY <1>1, <1>9, <1>13, UnderWay DEF Unmoved, Like
  <2>2. \A m \in Lookups : look'[m].pc = "loadApply" /\ look'[m].home = look[n].home =>
            Ready(m, look[n].home) /\ look'[m].data = look[m].data /\ look'[m].ver = look[m].ver
    <3>1. look'[l].pc # "loadApply"
      BY <1>8 DEF Onward
    <3> QED
      BY <1>9, <3>1 DEF Unmoved, Like, Ready
  <2>3. LoaderOk(n)'
    BY <1>7, <1>9, <2>1 DEF LoaderOk, Unmoved, Like
  <2>4. ~look'[n].stale /\ AnswerOk(n)'
    BY <1>7, <1>9, <2>1, <2>2, LikeOk DEF Unmoved
  <2> QED
    BY <2>3, <2>4
<1>14. ASSUME NEW n \in Lookups \ {l}, look[n].pc \in Resting
       PROVE  LoaderOk(n)' /\ ~look'[n].stale /\ AnswerOk(n)'
  <2>1. look'[n].pc = look[n].pc /\ ~look'[n].stale
    BY <1>9 DEF Unmoved, Like, AnswersOk
  <2> QED
    BY <1>14, <2>1 DEF LoaderOk, AnswerOk, Resting
<1> QED
  BY <1>11, <1>12, <1>13, <1>14 DEF AnswersOk
\* No call has failed: none failed before.
LEMMA NoFault ==
    ASSUME TypeInv, [Next]_vars, faults' = 0
    PROVE  /\ UNCHANGED faults
           /\ \A l \in Lookups : ~LockTimeout(l)
<1>0. faults \in Nat
  BY DEF TypeInv, ClockTypes
<1>1. ASSUME NEW kind PROVE ~Fault(kind)
  BY <1>0 DEF Fault
<1>2. \A l \in Lookups : ~LockTimeout(l)
  BY <1>1 DEF LockTimeout
<1>3. ASSUME NEW l \in Lookups, Look(l) PROVE UNCHANGED faults
  <2>1. UNCHANGED faults \/ \E kind : Fault(kind)
    BY <1>3 DEF Look, LookBegin, EnterReload, LockTimeout, LoadVersion, LoadData, LoadApply,
       LoadedUnder, EnterVersionCheck, AskVersion
  <2> QED
    BY <1>1, <2>1
<1>4. ASSUME NEW w \in Writers, Write(w) PROVE UNCHANGED faults
  <2>1. CASE LoadFullStore(w)
    BY <1>1, <2>1 DEF LoadFullStore
  <2>2. CASE Commit(w)
    BY <2>2 DEF Commit
  <2>3. CASE Persist(w)
    BY <1>1, <2>3 DEF Persist
  <2>4. CASE TransactTimeout(w)
    BY <1>1, <2>4 DEF TransactTimeout
  <2>5. CASE Announce(w)
    BY <1>1, <2>5 DEF Announce
  <2> QED
    BY <1>4, <2>1, <2>2, <2>3, <2>4, <2>5
       DEF Write, WriteBegin, TakeWriteLock, Assign, BeginTransaction
<1>5. ASSUME NEW i \in Instances, Refresh(i) PROVE UNCHANGED faults
  <2>1. CASE RefreshRead(i)
    BY <1>1, <2>1 DEF RefreshRead
  <2> QED
    BY <1>5, <2>1 DEF Refresh, Request, RefreshBegin, RefreshApply
<1>6. Tick \/ UNCHANGED vars => UNCHANGED faults
  BY DEF Tick, vars
<1>7. UNCHANGED faults
  BY <1>3, <1>4, <1>5, <1>6 DEF Next
<1> QED
  BY <1>2, <1>7

\* Only a lookup takes or frees a load lock.
LEMMA LoadLockLeft ==
    /\ \A w \in Writers : Write(w) => UNCHANGED loadLock
    /\ \A i \in Instances : Refresh(i) => UNCHANGED <<loadLock, look, store>>
    /\ Tick \/ UNCHANGED vars => UNCHANGED <<loadLock, look, store, cache, cacheVersion>>
<1>1. ASSUME NEW w \in Writers, Write(w) PROVE UNCHANGED loadLock
  <2>1. CASE LoadFullStore(w)
    BY <2>1 DEF LoadFullStore
  <2>2. CASE Commit(w)
    BY <2>2 DEF Commit
  <2>3. CASE Persist(w)
    BY <2>3 DEF Persist
  <2> QED
    BY <1>1, <2>1, <2>2, <2>3 DEF Write, WriteBegin, TakeWriteLock, Assign, BeginTransaction,
       TransactTimeout, Announce, lockVars
<1>2. ASSUME NEW i \in Instances, Refresh(i) PROVE UNCHANGED <<loadLock, look, store>>
  BY <1>2 DEF Refresh, Request, RefreshBegin, RefreshRead, RefreshApply, lockVars, storeVars
<1>3. Tick \/ UNCHANGED vars => UNCHANGED <<loadLock, look, store, cache, cacheVersion>>
  BY DEF Tick, vars, lockVars, storeVars, cacheVars
<1> QED
  BY <1>1, <1>2, <1>3

\* A write keeps what the lookups answer with theirs: the new store's entry is one.
LEMMA CheckWrite ==
    ASSUME TypeInv, TypeInv', AssignInv, backend = "secret", AnswersOk,
           NEW w \in Writers, Write(w)
    PROVE  AnswersOk'
<1>1. /\ UNCHANGED <<refresher, cacheVersion>> /\ UNCHANGED loadLock
      /\ \/ UNCHANGED cache
         \/ /\ wr[w].pc = "assign" /\ UNCHANGED <<store, version, look>>
            /\ cache' = [cache EXCEPT ![wr[w].home] = wr[w].data]
      /\ \/ UNCHANGED look
         \/ \E tb \in Tables : Committed(tb) /\ version' \in {version, version + 1}
  BY WriteCache, LoadLockLeft
<1>2. wr[w].pc = "assign" => wr[w].data = store
  BY DEF AssignInv
<1>3. look \in [Lookups -> LookupRecs] /\ cache \in [Instances -> Tables]
      /\ \A m \in Lookups : look[m].pc \notin Resting => look[m].home \in Instances
  BY DEF TypeInv, LookTypes, CacheTypes, Fine
<1>4. ASSUME NEW m \in Lookups
      PROVE  /\ Unmoved(m) /\ look'[m].attempted = look[m].attempted
             /\ look[m].pc \notin Resting => At(store', look[m].key) \in look'[m].window
  <2>0. look[m].pc \notin Resting => At(store, look[m].key) \in look[m].window
    BY DEF AnswersOk, AnswerOk, Seen
  <2>1. CASE UNCHANGED <<look, store>>
    BY <2>0, <2>1 DEF Unmoved, Like
  <2>2. CASE \E tb \in Tables : Committed(tb)
    <3>1. PICK tb \in Tables : Committed(tb)
      BY <2>2
    <3>2. store' = tb
          /\ look'[m] = IF look[m].pc \in Resting THEN look[m]
                        ELSE [look[m] EXCEPT !.window = @ \cup {At(tb, look[m].key)}]
      BY <3>1, CommittedIs DEF Committed, TypeInv
    <3>3. look[m] \in LookupRecs
      BY <1>3
    <3>4. CASE look[m].pc \in Resting
      BY <3>2, <3>4 DEF Unmoved, Like
    <3>5. CASE look[m].pc \notin Resting
      <4>1. look'[m] = [look[m] EXCEPT !.window = @ \cup {At(tb, look[m].key)}]
        BY <3>2, <3>5
      <4>2. /\ look'[m].window = look[m].window \cup {At(tb, look[m].key)}
            /\ Unmoved(m) /\ look'[m].attempted = look[m].attempted
        BY <3>3, <4>1 DEF Unmoved, Like, LookupRecs
      <4> QED
        BY <3>2, <4>2
    <3> QED
      BY <3>4, <3>5
  <2>3. UNCHANGED <<look, store>> \/ \E tb \in Tables : Committed(tb)
    <3>1. CASE Persist(w) \/ Commit(w)
      <4>1. UNCHANGED <<look, store>> \/ \E tb : Committed(tb)
        BY <3>1 DEF Persist, Commit, storeVars
      <4>2. ASSUME NEW tb, Committed(tb) PROVE tb \in Tables
        BY <4>2 DEF Committed, TypeInv, StoreTypes
      <4> QED
        BY <4>1, <4>2
    <3>2. CASE LoadFullStore(w)
      BY <3>2 DEF LoadFullStore, storeVars
    <3> QED
      BY <3>1, <3>2 DEF Write, WriteBegin, TakeWriteLock, Assign, BeginTransaction,
         TransactTimeout, Announce, storeVars
  <2> QED
    BY <2>1, <2>2, <2>3
<1>5. ASSUME NEW n \in Lookups PROVE LoaderOk(n)' /\ ~look'[n].stale /\ AnswerOk(n)'
  <2>1. LoaderOk(n) /\ ~look[n].stale /\ AnswerOk(n) /\ Unmoved(n) /\ Like(n)
    BY <1>4 DEF AnswersOk, Unmoved
  <2>2. LoaderOk(n)' /\ ~look'[n].stale
    BY <1>1, <2>1 DEF LoaderOk, Unmoved, Like
  <2>3. CASE look[n].pc \in Resting
    BY <2>1, <2>2, <2>3 DEF Like, AnswerOk
  <2>4. CASE look[n].pc \notin Resting
    <3>1. \A m \in Lookups : look'[m].pc = "loadApply" /\ look'[m].home = look[n].home =>
              Ready(m, look[n].home) /\ look'[m].data = look[m].data
              /\ look'[m].ver = look[m].ver
      BY <1>4 DEF Unmoved, Like, Ready
    <3>2. \/ cache'[look[n].home] = cache[look[n].home]
          \/ At(cache'[look[n].home], look[n].key) \in look'[n].window
      <4>1. CASE UNCHANGED cache
        BY <4>1
      <4>2. CASE /\ wr[w].pc = "assign" /\ UNCHANGED store
                 /\ cache' = [cache EXCEPT ![wr[w].home] = wr[w].data]
        BY <1>2, <1>3, <1>4, <2>4, <4>2
      <4> QED
        BY <1>1, <4>1, <4>2
    <3>3. At(store', look[n].key) \in look'[n].window /\ look'[n].attempted = look[n].attempted
      BY <1>4, <2>4
    <3> QED
      BY <1>1, <2>1, <2>2, <3>1, <3>2, <3>3, LikeOk
  <2> QED
    BY <2>3, <2>4
<1> QED
  BY <1>5 DEF AnswersOk

LEMMA CheckStep ==
    ASSUME TypeInv, TypeInv', AssignInv, VersionInv, CheckInv, [Next]_vars PROVE CheckInv'
<1> SUFFICES ASSUME backend' = "secret", faults' = 0 PROVE AnswersOk'
  BY DEF CheckInv
<1>1. /\ UNCHANGED faults /\ \A l \in Lookups : ~LockTimeout(l)
  BY NoFault
<1>2. UNCHANGED backend
  BY OthersLeave, WriteIs DEF Next, StoreSide
<1>3. backend = "secret" /\ AnswersOk
  BY <1>1, <1>2 DEF CheckInv
<1>4. CASE Tick \/ UNCHANGED vars
  BY <1>3, <1>4, LoadLockLeft DEF AnswersOk, LoaderOk, AnswerOk, Seen, Ready, At
<1>5. ASSUME NEW l \in Lookups, Look(l) PROVE AnswersOk'
  BY <1>1, <1>3, <1>5, CheckLookBegin, CheckEnterReload, CheckLoadVersion, CheckLoadData,
     CheckLoadApply, CheckEnterVersionCheck, CheckAskVersion DEF Look
<1>6. ASSUME NEW w \in Writers, Write(w) PROVE AnswersOk'
  BY <1>3, <1>6, CheckWrite
<1>7. ASSUME NEW i \in Instances, Refresh(i) PROVE AnswersOk'
  <2>1. UNCHANGED <<look, loadLock, store>>
    BY <1>7, LoadLockLeft
  <2>2. UNCHANGED <<cache, cacheVersion>>
    <3>1. refresher[i].pc = "idle"
      BY <1>3 DEF VersionInv
    <3> QED
      BY <1>3, <1>7, <3>1 DEF Refresh, Request, RefreshBegin, RefreshRead, RefreshApply, cacheVars
  <2> QED
    BY <1>3, <2>1, <2>2 DEF AnswersOk, LoaderOk, AnswerOk, Seen, Ready, At
<1> QED
  BY <1>4, <1>5, <1>6, <1>7 DEF Next
\* Over Postgres no lookup leaves the start.
RestInv == backend # "secret" => \A l \in Lookups : look[l].pc = "start"

LEMMA RestStep == ASSUME TypeInv, RestInv, [Next]_vars PROVE RestInv'
<1> SUFFICES ASSUME backend' # "secret" PROVE \A l \in Lookups : look'[l].pc = "start"
  BY DEF RestInv
<1>1. UNCHANGED backend
  BY OthersLeave, WriteIs DEF Next, StoreSide
<1>2. \A l \in Lookups : look[l].pc = "start"
  BY <1>1 DEF RestInv
<1>3. ASSUME NEW l \in Lookups, Look(l) PROVE FALSE
  BY <1>1, <1>2, <1>3 DEF Look, LookBegin, EnterReload, LockTimeout, LoadVersion, LoadData,
     LoadApply, LoadedUnder, EnterVersionCheck, AskVersion
<1>4. UNCHANGED look \/ \E tb : Committed(tb)
  <2>1. ASSUME NEW w \in Writers, Write(w) PROVE UNCHANGED look \/ \E tb : Committed(tb)
    <3>1. CASE Persist(w) \/ Commit(w)
      BY <3>1 DEF Persist, Commit
    <3>2. CASE LoadFullStore(w)
      BY <3>2 DEF LoadFullStore
    <3> QED
      BY <2>1, <3>1, <3>2 DEF Write, WriteBegin, TakeWriteLock, Assign, BeginTransaction,
         TransactTimeout, Announce
  <2> QED
    BY <1>3, <2>1, LoadLockLeft DEF Next
<1>5. ASSUME NEW tb, Committed(tb) PROVE UNCHANGED look
  <2>1. look' = [l \in Lookups |->
                  IF look[l].pc \in {"start", "done"} THEN look[l]
                  ELSE [look[l] EXCEPT !.window = @ \cup {At(tb, look[l].key)}]]
    BY <1>5 DEF Committed
  <2>2. look' = [l \in Lookups |-> look[l]]
    BY <1>2, <2>1
  <2> QED
    BY <2>2 DEF TypeInv, LookTypes
<1> QED
  BY <1>2, <1>4, <1>5

\* What says it is current is (_check_store_version, _reload), however the threads of
\* the instances and the writers of any of them interleave.
THEOREM ClaimsAlwaysCurrent ==
    ASSUME AllStamps, OneSecretWriter PROVE Spec => []ClaimsAreCurrent
<1> DEFINE Inv == StoreInv /\ AssignInv /\ VersionInv /\ CheckInv /\ RestInv
<1>1. Init => Inv
  <2> SUFFICES ASSUME Init PROVE Inv
    OBVIOUS
  <2>1. look = [l \in Lookups |-> NewLookup]
        /\ wr = [w \in Writers |-> Over("start")]
    BY DEF Init
  <2>2. AssignInv
    BY <2>1 DEF AssignInv, Over
  <2>3. CheckInv /\ RestInv
    BY <2>1 DEF CheckInv, RestInv, AnswersOk, LoaderOk, AnswerOk, NewLookup, Resting
  <2> QED
    BY <2>2, <2>3, StoreInvInit, VersionInit
<1>2. Inv /\ [Next]_vars => Inv'
  <2> SUFFICES ASSUME Inv, [Next]_vars PROVE Inv'
    OBVIOUS
  <2>1. StoreInv' /\ TypeInv /\ TypeInv' /\ LockInv
    BY StoreInvStep DEF StoreInv
  <2>2. AssignInv'
    BY <2>1, AssignStep
  <2>3. VersionInv' /\ CheckInv' /\ RestInv'
    BY <2>1, VersionStep, CheckStep, RestStep
  <2> QED
    BY <2>1, <2>2, <2>3
<1>3. Inv => ClaimsAreCurrent
  <2> SUFFICES ASSUME Inv PROVE ClaimsAreCurrent
    OBVIOUS
  <2>1. VersionHonest
    BY DEF VersionInv, VersionHonest
  <2>2. CheckedIsCurrent
    <3>1. CASE backend = "secret"
      BY <3>1 DEF CheckInv, AnswersOk, CheckedIsCurrent
    <3>2. CASE backend # "secret"
      <4>1. \A l \in Lookups : look[l] = NewLookup
        BY <3>2 DEF RestInv, StoreInv, TypeInv, LookTypes, Fine
      <4> QED
        BY <4>1 DEF CheckedIsCurrent, NewLookup
    <3> QED
      BY <3>1, <3>2
  <2> QED
    BY <2>1, <2>2 DEF ClaimsAreCurrent
<1> QED
  BY <1>1, <1>2, <1>3, PTL DEF Spec
-----------------------------------------------------------------------------
\* Over Postgres: what a refresher brings in is what the table holds, unless a change
\* is on its way to this instance.
LEMMA SameRows ==
    ASSUME NEW c, NEW d, NEW t, KeysOf(c, t) = KeysOf(d, t),
           \A k \in KeysOf(d, t) : c[k] = d[k]
    PROVE  Rows(c, t) = Rows(d, t)
BY DEF Rows

\* An operation is about the rows of its own tenant, and brings in its own key.
LEMMA MutatedRows ==
    ASSUME NEW op \in Op, NEW tb \in Tables, op.key \notin DOMAIN tb, NEW t \in Tenants
    PROVE  /\ t # op.tenant => Rows(Mutated(op, tb), t) = Rows(tb, t)
           /\ \A k \in KeysOf(Mutated(op, tb), t) :
                 k \in KeysOf(tb, t) \/ (k = op.key /\ t = op.tenant)
<1> DEFINE new == Mutated(op, tb)
<1>0. /\ IsTable(tb) /\ op.kind \in Kinds /\ op.tenant \in Tenants
      /\ \A k \in DOMAIN tb : tb[k] \in Entry
  BY TablesAre DEF Op, IsTable
<1>1. ASSUME op.kind \in {"suspended", "contract", "allow"}
      PROVE  /\ DOMAIN new = DOMAIN tb
             /\ \A k \in DOMAIN tb : new[k].tenant = tb[k].tenant
             /\ \A k \in DOMAIN tb : tb[k].tenant # op.tenant => new[k] = tb[k]
  <2>1. CASE op.kind = "suspended"
    <3>1. new = [k \in DOMAIN tb |-> IF tb[k].tenant = op.tenant
                                     THEN [tb[k] EXCEPT !.suspended = op.on] ELSE tb[k]]
      BY <2>1 DEF Mutated, SetSuspended
    <3> HIDE DEF new
    <3> QED
      BY <1>0, <3>1 DEF Entry
  <2>2. CASE op.kind = "contract"
    <3>1. new = [k \in DOMAIN tb |-> IF tb[k].tenant = op.tenant
                                     THEN [tb[k] EXCEPT !.contract_inactive = ~op.on] ELSE tb[k]]
      BY <2>2 DEF Mutated, SetContractActive
    <3> HIDE DEF new
    <3> QED
      BY <1>0, <3>1 DEF Entry
  <2>3. CASE op.kind = "allow"
    <3>1. new = [k \in DOMAIN tb |-> IF tb[k].tenant = op.tenant
                                     THEN [tb[k] EXCEPT !.ip_allowlist = op.cidrs] ELSE tb[k]]
      BY <2>3 DEF Mutated, SetIpAllowlist
    <3> HIDE DEF new
    <3> QED
      BY <1>0, <3>1 DEF Entry
  <2> QED
    BY <1>1, <2>1, <2>2, <2>3
<1>2. CASE op.kind = "create"
  <2>1. PICK e : /\ e.tenant = op.tenant
                 /\ new = [h \in DOMAIN tb \cup {op.key} |-> IF h = op.key THEN e ELSE tb[h]]
    <3> DEFINE e == [tenant |-> op.tenant, created |-> op.stamp, suspended |-> FALSE,
                     contract_inactive |-> FALSE,
                     ip_allowlist |-> TenantAllowlist(tb, op.tenant)]
    <3>1. new = [h \in DOMAIN tb \cup {op.key} |-> IF h = op.key THEN e ELSE tb[h]]
      BY <1>2 DEF Mutated, CreateKey
    <3>2. e.tenant = op.tenant
      OBVIOUS
    <3> HIDE DEF e, new
    <3> QED
      BY <3>1, <3>2
  <2> HIDE DEF new
  <2>2. KeysOf(new, t) = IF t = op.tenant THEN KeysOf(tb, t) \cup {op.key} ELSE KeysOf(tb, t)
    BY <2>1 DEF KeysOf
  <2>3. \A k \in KeysOf(tb, t) : new[k] = tb[k]
    BY <2>1 DEF KeysOf
  <2>4. t # op.tenant => Rows(new, t) = Rows(tb, t)
    BY <2>2, <2>3, SameRows
  <2> QED
    BY <2>2, <2>4 DEF new
<1>3. CASE op.kind = "rotate"
  <2>1. PICK e : /\ e.tenant = op.tenant
                 /\ new = [h \in (DOMAIN tb \ KeysOf(tb, op.tenant)) \cup {op.key} |->
                              IF h = op.key THEN e ELSE tb[h]]
    <3> DEFINE old == KeysOf(tb, op.tenant)
               e == [tenant |-> op.tenant, created |-> op.stamp,
                     suspended |-> \E o \in old : tb[o].suspended,
                     contract_inactive |-> tb[Newest(tb, old)].contract_inactive,
                     ip_allowlist |-> TenantAllowlist(tb, op.tenant)]
    <3>1. new = [h \in (DOMAIN tb \ old) \cup {op.key} |-> IF h = op.key THEN e ELSE tb[h]]
      BY <1>3 DEF Mutated, RotateTenantKeys
    <3>2. e.tenant = op.tenant
      OBVIOUS
    <3> HIDE DEF e, new
    <3> QED
      BY <3>1, <3>2
  <2> HIDE DEF new
  <2>2. KeysOf(new, t) = IF t = op.tenant THEN {op.key} ELSE KeysOf(tb, t)
    BY <2>1 DEF KeysOf
  <2>3. t # op.tenant => \A k \in KeysOf(tb, t) : new[k] = tb[k]
    BY <2>1 DEF KeysOf
  <2>4. t # op.tenant => Rows(new, t) = Rows(tb, t)
    BY <2>2, <2>3, SameRows
  <2> QED
    BY <2>2, <2>4 DEF new
<1>4. CASE op.kind = "delete"
  <2>1. new = [k \in DOMAIN tb \ KeysOf(tb, op.tenant) |-> tb[k]]
    BY <1>4 DEF Mutated, DeleteTenantKeys
  <2> HIDE DEF new
  <2>2. KeysOf(new, t) = IF t = op.tenant THEN {} ELSE KeysOf(tb, t)
    BY <2>1 DEF KeysOf
  <2>3. t # op.tenant => \A k \in KeysOf(tb, t) : new[k] = tb[k]
    BY <2>1 DEF KeysOf
  <2>4. t # op.tenant => Rows(new, t) = Rows(tb, t)
    BY <2>2, <2>3, SameRows
  <2> QED
    BY <2>2, <2>4 DEF new
<1>5. CASE op.kind \in {"suspended", "contract", "allow"}
  <2>1. KeysOf(new, t) = KeysOf(tb, t)
    BY <1>1, <1>5 DEF KeysOf
  <2>2. t # op.tenant => \A k \in KeysOf(tb, t) : new[k] = tb[k]
    BY <1>1, <1>5 DEF KeysOf
  <2>3. t # op.tenant => Rows(new, t) = Rows(tb, t)
    BY <2>1, <2>2, SameRows
  <2> QED
    BY <2>1, <2>3
<1> QED
  BY <1>0, <1>2, <1>3, <1>4, <1>5 DEF Kinds

\* replace_tenants_in_cache: the tenants' rows become those read, the others' stay.
LEMMA ReplacedRows ==
    ASSUME NEW c, NEW ts, NEW data, NEW t,
           \A k \in DOMAIN data : data[k].tenant \in ts,
           \A k \in DOMAIN c \cap DOMAIN data : c[k].tenant = data[k].tenant
    PROVE  /\ t \in ts => Rows(TenantsReplaced(c, ts, data), t) = Rows(data, t)
           /\ t \notin ts => Rows(TenantsReplaced(c, ts, data), t) = Rows(c, t)
           /\ \A k \in KeysOf(TenantsReplaced(c, ts, data), t) :
                 k \in KeysOf(c, t) \cup KeysOf(data, t)
<1> DEFINE new == TenantsReplaced(c, ts, data)
           kept == {k \in DOMAIN c : c[k].tenant \notin ts}
<1>1. new = [k \in kept \cup DOMAIN data |-> IF k \in DOMAIN data THEN data[k] ELSE c[k]]
  BY DEF TenantsReplaced
<1>2. kept \cap DOMAIN data = {}
  OBVIOUS
<1>3. \A k \in kept : k \in DOMAIN c /\ c[k].tenant \notin ts
  OBVIOUS
<1>4. \A k \in DOMAIN c : c[k].tenant \notin ts => k \in kept
  OBVIOUS
<1> HIDE DEF new, kept
<1>5. CASE t \in ts
  <2>1. KeysOf(new, t) = KeysOf(data, t)
    BY <1>1, <1>2, <1>3, <1>5 DEF KeysOf
  <2>2. \A k \in KeysOf(data, t) : new[k] = data[k]
    BY <1>1 DEF KeysOf
  <2>3. Rows(new, t) = Rows(data, t)
    BY <2>1, <2>2, SameRows
  <2> QED
    BY <1>5, <2>1, <2>3 DEF new
<1>6. CASE t \notin ts
  <2>1. KeysOf(new, t) = KeysOf(c, t)
    BY <1>1, <1>2, <1>3, <1>4, <1>6 DEF KeysOf
  <2>2. \A k \in KeysOf(c, t) : new[k] = c[k]
    BY <1>1, <1>2, <1>4, <1>6 DEF KeysOf
  <2>3. Rows(new, t) = Rows(c, t)
    BY <2>1, <2>2, SameRows
  <2> QED
    BY <1>6, <2>1, <2>3 DEF new
<1> QED
  BY <1>5, <1>6
\* What a writer's step does to the caches and the announcements.
Caches(w) ==
    /\ wr[w].pc = "assign" /\ UNCHANGED mail
    /\ cache' = [cache EXCEPT ![wr[w].home] = wr[w].data]
    /\ overtaken' = [overtaken EXCEPT ![wr[w].home] = Older(w)]

Announces(w) ==
    /\ wr[w].pc = "announce" /\ UNCHANGED <<cache, overtaken>>
    /\ mail' = [i \in Instances |-> mail[i] \cup {wr[w].op.tenant}]

LEMMA WriteTells ==
    ASSUME TypeInv, NEW w \in Writers, Write(w)
    PROVE  /\ UNCHANGED refresher
           /\ \/ /\ UNCHANGED <<cache, overtaken, mail>>
                 /\ wr[w].pc \in {"assign", "announce"} => faults' # faults
              \/ Caches(w) \/ Announces(w)
<1>0. faults \in Nat
  BY DEF TypeInv, ClockTypes
<1>1. CASE LoadFullStore(w)
  BY <1>1 DEF LoadFullStore, cacheVars
<1>2. CASE Commit(w)
  BY <1>2 DEF Commit, cacheVars
<1>3. CASE Persist(w)
  BY <1>3 DEF Persist, cacheVars
<1>4. CASE TransactTimeout(w)
  BY <1>0, <1>4 DEF TransactTimeout, cacheVars, Fault
<1>5. CASE Announce(w)
  BY <1>0, <1>5 DEF Announce, cacheVars, Fault, Announces
<1>6. CASE Assign(w)
  BY <1>6 DEF Assign, WHome, Caches
<1> QED
  BY <1>1, <1>2, <1>3, <1>4, <1>5, <1>6
     DEF Write, WriteBegin, TakeWriteLock, BeginTransaction, cacheVars

\* The steps of a refresher, by what they do to it.
Collects(i) ==
    \E t \in mail[i] :
        /\ mail' = [mail EXCEPT ![i] = @ \ {t}]
        /\ refresher'[i] = [refresher[i] EXCEPT !.tenants = @ \cup {t}]
        /\ UNCHANGED <<cache, overtaken>>

Begins(i) ==
    /\ refresher[i].pc = "idle" /\ UNCHANGED <<mail, cache, overtaken>>
    /\ refresher'[i] = [refresher[i] EXCEPT !.pc = "read", !.full = FALSE, !.tenants = {},
                            !.servesFull = ~Asked(i) \/ refresher[i].full,
                            !.serves = refresher[i].tenants]

Reads(i) ==
    /\ refresher[i].pc = "read" /\ UNCHANGED <<mail, cache, overtaken>>
    /\ refresher'[i] = [refresher[i] EXCEPT !.pc = "apply", !.data =
          [k \in {h \in DOMAIN store :
                    refresher[i].servesFull \/ store[h].tenant \in refresher[i].serves}
              |-> store[k]]]

Serves(i) ==
    /\ refresher[i].pc = "apply" /\ UNCHANGED mail
    /\ IF refresher[i].servesFull
       THEN /\ cache' = [cache EXCEPT ![i] = refresher[i].data]
            /\ overtaken' = [overtaken EXCEPT ![i] = {}]
       ELSE /\ cache' = [cache EXCEPT ![i] =
                           TenantsReplaced(@, refresher[i].serves, refresher[i].data)]
            /\ overtaken' = [overtaken EXCEPT ![i] = @ \ refresher[i].serves]
    /\ refresher'[i] = [refresher[i] EXCEPT !.pc = "idle", !.servesFull = FALSE,
                            !.serves = {}, !.data = NoKeys]

LEMMA RefreshIs ==
    ASSUME TypeInv, NEW i \in Instances, Refresh(i), UNCHANGED faults
    PROVE  /\ \A j \in Instances \ {i} : refresher'[j] = refresher[j]
           /\ Collects(i) \/ Begins(i) \/ Reads(i) \/ Serves(i)
<1>0. faults \in Nat /\ refresher \in [Instances -> RefresherRecs]
  BY DEF TypeInv, ClockTypes, RefreshTypes
<1>1. CASE Request(i)
  BY <1>0, <1>1 DEF Request, Collects, cacheVars
<1>2. CASE RefreshBegin(i)
  BY <1>0, <1>2 DEF RefreshBegin, Begins, cacheVars
<1>3. CASE RefreshRead(i)
  <2>1. refresher' = [refresher EXCEPT ![i].pc = "apply", ![i].data =
                    [k \in {h \in DOMAIN store : refresher[i].servesFull
                                \/ store[h].tenant \in refresher[i].serves} |-> store[k]]]
    BY <1>0, <1>3 DEF RefreshRead, Fault
  <2>2. refresher[i].pc = "read" /\ UNCHANGED <<mail, cache, overtaken>>
    BY <1>3 DEF RefreshRead, cacheVars
  <2> QED
    BY <1>0, <2>1, <2>2 DEF Reads
<1>4. CASE RefreshApply(i)
  <2>1. refresher' = [refresher EXCEPT ![i] =
              [@ EXCEPT !.pc = "idle", !.servesFull = FALSE, !.serves = {}, !.data = NoKeys]]
    BY <1>4 DEF RefreshApply
  <2>2. /\ refresher[i].pc = "apply" /\ UNCHANGED mail
        /\ IF refresher[i].servesFull
           THEN /\ cache' = [cache EXCEPT ![i] = refresher[i].data]
                /\ overtaken' = [overtaken EXCEPT ![i] = {}]
           ELSE /\ cache' = [cache EXCEPT ![i] =
                               TenantsReplaced(@, refresher[i].serves, refresher[i].data)]
                /\ overtaken' = [overtaken EXCEPT ![i] = @ \ refresher[i].serves]
    BY <1>4 DEF RefreshApply
  <2> QED
    BY <1>0, <2>1, <2>2 DEF Serves
<1> QED
  BY <1>1, <1>2, <1>3, <1>4 DEF Refresh
\* A key a table, a cache or a copy has for a tenant.
Owns(k, t) ==
    \/ k \in KeysOf(store, t)
    \/ \E i \in Instances : k \in KeysOf(cache[i], t) \/ k \in KeysOf(refresher[i].data, t)
    \/ \E w \in Writers : k \in KeysOf(wr[w].data, t)

\* No key changes hands, and nobody has the key a writer has yet to issue.
OwnInv ==
    backend = "postgres" /\ faults = 0 =>
        /\ \A s, t \in Tenants : \A k : Owns(k, s) /\ Owns(k, t) => s = t
        /\ \A w \in Writers : wr[w].pc \in Unissued => \A t \in Tenants : ~Owns(FreshKey[w], t)

\* A tenant has the keys it had, and the one just issued to it.
LEMMA OwnsStep ==
    ASSUME AllStamps, TypeInv, LockInv, FreshInv, RestInv, backend = "postgres",
           UNCHANGED faults, [Next]_vars, NEW t \in Tenants, NEW k, Owns(k, t)'
    PROVE  \/ Owns(k, t)
           \/ \E w \in Writers : Commits(w) /\ k = FreshKey[w] /\ t = wr[w].op.tenant
<1>0. /\ cache \in [Instances -> Tables] /\ refresher \in [Instances -> RefresherRecs]
      /\ store \in Tables
  BY DEF TypeInv, CacheTypes, RefreshTypes, StoreTypes
<1>1. KeysOf(NoKeys, t) = {}
  BY DEF KeysOf, NoKeys
<1>2. CASE Tick \/ UNCHANGED vars
  BY <1>2 DEF Tick, vars, storeVars, cacheVars, Owns
<1>3. ASSUME NEW l \in Lookups, Look(l) PROVE FALSE
  BY <1>3 DEF RestInv, Look, LookBegin, EnterReload, LockTimeout, LoadVersion, LoadData,
     LoadApply, LoadedUnder, EnterVersionCheck, AskVersion
<1>4. ASSUME NEW i \in Instances, Refresh(i) PROVE Owns(k, t)
  <2>1. UNCHANGED <<store, wr>>
    BY <1>4, OthersLeave DEF StoreSide
  <2>2. \A j \in Instances \ {i} : refresher'[j] = refresher[j]
    BY <1>4, RefreshIs
  <2>3. refresher[i] \in RefresherRecs
    BY <1>0
  <2>4. CASE Collects(i) \/ Begins(i)
    <3>1. UNCHANGED cache /\ refresher'[i].data = refresher[i].data
      BY <2>3, <2>4 DEF Collects, Begins, RefresherRecs
    <3> QED
      BY <2>1, <2>2, <3>1 DEF Owns
  <2>5. CASE Reads(i)
    <3>1. UNCHANGED cache
          /\ refresher'[i].data = [h \in {g \in DOMAIN store : refresher[i].servesFull
                                \/ store[g].tenant \in refresher[i].serves} |-> store[h]]
      BY <2>3, <2>5 DEF Reads, RefresherRecs
    <3>2. k \in KeysOf(refresher'[i].data, t) => k \in KeysOf(store, t)
      BY <3>1 DEF KeysOf
    <3> QED
      BY <2>1, <2>2, <3>1, <3>2 DEF Owns
  <2>6. CASE Serves(i)
    <3>1. refresher'[i].data = NoKeys
      BY <2>3, <2>6 DEF Serves, RefresherRecs
    <3>2. /\ \A j \in Instances \ {i} : cache'[j] = cache[j]
          /\ \/ cache'[i] = refresher[i].data
             \/ cache'[i] = TenantsReplaced(cache[i], refresher[i].serves, refresher[i].data)
      BY <1>0, <2>6 DEF Serves
    <3>3. k \in KeysOf(cache'[i], t) => k \in KeysOf(cache[i], t) \cup KeysOf(refresher[i].data, t)
      <4>1. CASE cache'[i] = refresher[i].data
        BY <4>1
      <4>2. CASE cache'[i] = TenantsReplaced(cache[i], refresher[i].serves, refresher[i].data)
        BY <4>2 DEF TenantsReplaced, KeysOf
      <4> QED
        BY <3>2, <4>1, <4>2
    <3> QED
      BY <1>1, <2>1, <2>2, <3>1, <3>2, <3>3 DEF Owns
  <2> QED
    BY <1>4, <2>4, <2>5, <2>6, RefreshIs
<1>5. ASSUME NEW w \in Writers, Write(w)
      PROVE  Owns(k, t) \/ (Commits(w) /\ k = FreshKey[w] /\ t = wr[w].op.tenant)
  <2>1. UNCHANGED refresher
    BY <1>5, WriteTells
  <2>2. \A i \in Instances : k \in KeysOf(cache'[i], t) => Owns(k, t)
    <3>1. CASE UNCHANGED cache
      BY <3>1 DEF Owns
    <3>2. CASE Caches(w)
      <4>1. \A i \in Instances : cache'[i] = cache[i] \/ cache'[i] = wr[w].data
        BY <1>0, <3>2 DEF Caches
      <4> QED
        BY <4>1 DEF Owns
    <3> QED
      BY <1>5, <3>1, <3>2, WriteTells DEF Announces
  <2>3. CASE Commits(w)
    <3>1. /\ Applied(w) \in Op /\ Applied(w).key = FreshKey[w] /\ FreshKey[w] \notin DOMAIN store
          /\ store' = Mutated(Applied(w), store) /\ Further(w, "assign", store')
      BY <2>3, CommitsIs
    <3>2. Applied(w).tenant = wr[w].op.tenant
      <4>1. wr[w].op \in Op
        BY <2>3 DEF Commits, TypeInv, WriteTypes, Idle
      <4> QED
        BY <4>1 DEF Applied, Op
    <3>3. k \in KeysOf(store', t) =>
              k \in KeysOf(store, t) \/ (k = FreshKey[w] /\ t = wr[w].op.tenant)
      BY <1>0, <3>1, <3>2, MutatedRows
    <3>4. \A v \in Writers : wr'[v].data = wr[v].data \/ wr'[v].data = store'
      BY <3>1 DEF Further, Goes
    <3> QED
      BY <2>1, <2>2, <2>3, <3>3, <3>4 DEF Owns
  <2>4. CASE ~Commits(w)
    <3>1. ~Loads(w) /\ ~Persists(w)
      BY DEF LockInv, PathInv, Loads, Persists
    <3>2. /\ UNCHANGED store
          /\ \A v \in Writers : wr'[v].data \in {wr[v].data, store, NoKeys}
      BY <1>5, <2>4, <3>1, WriteIs
         DEF Starts, Locks, Quits, Assigns, Opens, Tells, Stays, Goes, Further
    <3> QED
      BY <1>1, <2>1, <2>2, <3>2 DEF Owns
  <2> QED
    BY <2>3, <2>4
<1> QED
  BY <1>2, <1>3, <1>4, <1>5 DEF Next

LEMMA OwnStep ==
    ASSUME AllStamps, TypeInv, LockInv, FreshInv, RestInv, OwnInv, [Next]_vars PROVE OwnInv'
<1> SUFFICES ASSUME backend' = "postgres", faults' = 0
             PROVE  /\ \A s, t \in Tenants : \A k : Owns(k, s)' /\ Owns(k, t)' => s = t
                    /\ \A w \in Writers : wr'[w].pc \in Unissued =>
                           \A t \in Tenants : ~Owns(FreshKey[w], t)'
  BY DEF OwnInv
<1>1. UNCHANGED <<backend, faults>>
  BY NoFault, OthersLeave, WriteIs DEF Next, StoreSide
<1>2. /\ \A s, t \in Tenants : \A k : Owns(k, s) /\ Owns(k, t) => s = t
      /\ \A w \in Writers : wr[w].pc \in Unissued => \A t \in Tenants : ~Owns(FreshKey[w], t)
  BY <1>1 DEF OwnInv
<1> DEFINE Issued(k, t) == \E w \in Writers : Commits(w) /\ k = FreshKey[w] /\ t = wr[w].op.tenant
<1>3. \A t \in Tenants : \A k : Owns(k, t)' => Owns(k, t) \/ Issued(k, t)
  BY <1>1, OwnsStep
<1>4. ASSUME NEW k, NEW t, Issued(k, t)
      PROVE  /\ \A s \in Tenants : ~Owns(k, s) /\ (Issued(k, s) => s = t)
             /\ \A w \in Writers : FreshKey[w] = k => wr'[w].pc \notin Unissued
  <2>1. PICK w \in Writers : Commits(w) /\ k = FreshKey[w] /\ t = wr[w].op.tenant
    BY <1>4
  <2>2. wr[w].pc = "commit" /\ wr'[w].pc = "assign"
    BY <2>1 DEF Commits, Further, Goes
  <2>3. \A v \in Writers : FreshKey[v] = k => v = w
    BY <2>1, FreshAssumption
  <2> QED
    BY <1>2, <2>1, <2>2, <2>3 DEF Unissued
<1> HIDE DEF Issued
<1>5. ASSUME NEW s \in Tenants, NEW t \in Tenants, NEW k, Owns(k, s)', Owns(k, t)' PROVE s = t
  BY <1>2, <1>3, <1>4, <1>5
<1>6. ASSUME NEW w \in Writers, wr'[w].pc \in Unissued PROVE wr[w].pc \in Unissued
  <2>1. CASE UNCHANGED wr
    BY <1>6, <2>1
  <2>2. ASSUME NEW v \in Writers, Write(v) PROVE wr[w].pc \in Unissued
    BY <1>6, <2>2, WriteIs
       DEF Starts, Locks, Quits, Loads, Persists, Assigns, Opens, Commits, Tells, Goes,
           Further, Unissued
  <2> QED
    BY <2>1, <2>2, OthersLeave DEF Next, StoreSide
<1>7. ASSUME NEW w \in Writers, wr'[w].pc \in Unissued, NEW t \in Tenants PROVE ~Owns(FreshKey[w], t)'
  BY <1>2, <1>3, <1>4, <1>6, <1>7
<1> QED
  BY <1>5, <1>7
\* A change of the tenant's keys that instance i has yet to hear of or to ask about.
Pending(i, t) ==
    \/ t \in mail[i] \/ t \in refresher[i].tenants
    \/ \E w \in Writers : wr[w].pc \in {"assign", "announce"} /\ wr[w].op.tenant = t

Serving(i, t) == refresher[i].servesFull \/ t \in refresher[i].serves

\* Without a change on its way, an instance has the tenant's rows, or is about to: the
\* refresher read them after the last change.
Asking(i) ==
    /\ ~refresher[i].full
    /\ refresher[i].pc = "idle" => ~refresher[i].servesFull /\ refresher[i].serves = {}
    /\ refresher[i].pc = "apply" =>
          \A k \in DOMAIN refresher[i].data : Serving(i, refresher[i].data[k].tenant)

Current(i, t) ==
    ~Pending(i, t) =>
        /\ t \notin overtaken[i] /\ ~Serving(i, t) => Rows(cache[i], t) = Rows(store, t)
        /\ refresher[i].pc = "apply" /\ Serving(i, t) => Rows(refresher[i].data, t) = Rows(store, t)

QuietInv ==
    backend = "postgres" /\ faults = 0 =>
        \A i \in Instances : Asking(i) /\ \A t \in Tenants : Current(i, t)

\* A refresher's step keeps what it is at.
LEMMA AskingStep ==
    ASSUME TypeInv, NEW i \in Instances, UNCHANGED faults, Asking(i),
           UNCHANGED refresher \/ \E j \in Instances : Refresh(j)
    PROVE  Asking(i)'
<1>0. refresher[i] \in RefresherRecs
  BY DEF TypeInv, RefreshTypes
<1>1. CASE refresher'[i] = refresher[i]
  BY <1>1 DEF Asking, Serving
<1>2. CASE Collects(i)
  <2>1. PICK u : refresher'[i] = [refresher[i] EXCEPT !.tenants = @ \cup {u}]
    BY <1>2 DEF Collects
  <2> QED
    BY <1>0, <2>1 DEF Asking, Serving, RefresherRecs
<1>3. CASE Begins(i)
  BY <1>0, <1>3 DEF Begins, Asking, RefresherRecs
<1>4. CASE Reads(i)
  <2>1. /\ refresher'[i].pc = "apply" /\ refresher'[i].full = refresher[i].full
        /\ refresher'[i].servesFull = refresher[i].servesFull
        /\ refresher'[i].serves = refresher[i].serves
        /\ refresher'[i].data = [k \in {h \in DOMAIN store : refresher[i].servesFull
                                    \/ store[h].tenant \in refresher[i].serves} |-> store[k]]
    BY <1>0, <1>4 DEF Reads, RefresherRecs
  <2> QED
    BY <2>1 DEF Asking, Serving
<1>5. CASE Serves(i)
  BY <1>0, <1>5 DEF Serves, Asking, RefresherRecs
<1>6. ASSUME NEW j \in Instances, Refresh(j), j # i PROVE refresher'[i] = refresher[i]
  BY <1>6, RefreshIs
<1> QED
  BY <1>1, <1>2, <1>3, <1>4, <1>5, <1>6, RefreshIs

\* A step of one refresher.
LEMMA QuietRefresh ==
    ASSUME TypeInv, OwnInv, backend = "postgres", faults = 0, UNCHANGED faults,
           NEW i \in Instances, Refresh(i), NEW t \in Tenants, Asking(i), Current(i, t)
    PROVE  Current(i, t)'
<1>0. /\ cache \in [Instances -> Tables] /\ refresher[i] \in RefresherRecs
      /\ mail \in [Instances -> SUBSET Tenants] /\ overtaken \in [Instances -> SUBSET Tenants]
      /\ UNCHANGED <<store, wr>>
  BY OthersLeave DEF TypeInv, CacheTypes, RefreshTypes, StoreSide
<1>1. CASE Collects(i)
  <2>1. PICK u : /\ u \in mail[i] /\ mail' = [mail EXCEPT ![i] = @ \ {u}]
                 /\ refresher'[i] = [refresher[i] EXCEPT !.tenants = @ \cup {u}]
                 /\ UNCHANGED <<cache, overtaken>>
    BY <1>1 DEF Collects
  <2>2. /\ mail'[i] = mail[i] \ {u} /\ refresher'[i].tenants = refresher[i].tenants \cup {u}
        /\ refresher'[i].pc = refresher[i].pc /\ refresher'[i].full = refresher[i].full
        /\ refresher'[i].serves = refresher[i].serves /\ refresher'[i].data = refresher[i].data
        /\ refresher'[i].servesFull = refresher[i].servesFull
    BY <1>0, <2>1 DEF RefresherRecs
  <2>3. Pending(i, t)' <=> Pending(i, t)
    BY <1>0, <2>1, <2>2 DEF Pending
  <2> QED
    BY <1>0, <2>1, <2>2, <2>3 DEF Current, Serving
<1>2. CASE Begins(i)
  <2>1. /\ refresher'[i].pc = "read" /\ ~refresher'[i].full /\ refresher'[i].tenants = {}
        /\ refresher'[i].servesFull = (~Asked(i) \/ refresher[i].full)
        /\ refresher'[i].serves = refresher[i].tenants
        /\ refresher[i].pc = "idle" /\ UNCHANGED <<mail, cache, overtaken>>
    BY <1>0, <1>2 DEF Begins, RefresherRecs
  <2>2. ~Pending(i, t)' /\ ~Serving(i, t)' => ~Pending(i, t) /\ ~Serving(i, t)
    BY <1>0, <2>1 DEF Pending, Serving, Asking
  <2> QED
    BY <1>0, <2>1, <2>2 DEF Current
<1>3. CASE Reads(i)
  <2> DEFINE d == [h \in {g \in DOMAIN store : Serving(i, store[g].tenant)} |-> store[h]]
  <2>1. /\ refresher'[i].pc = "apply" /\ refresher'[i].full = refresher[i].full
        /\ refresher'[i].tenants = refresher[i].tenants
        /\ refresher'[i].servesFull = refresher[i].servesFull
        /\ refresher'[i].serves = refresher[i].serves /\ refresher'[i].data = d
        /\ refresher[i].pc = "read" /\ UNCHANGED <<mail, cache, overtaken>>
    BY <1>0, <1>3 DEF Reads, RefresherRecs, Serving
  <2>2. Serving(i, t) => Rows(d, t) = Rows(store, t)
    <3>1. ASSUME Serving(i, t) PROVE KeysOf(d, t) = KeysOf(store, t)
      BY <3>1 DEF KeysOf
    <3>2. \A k \in KeysOf(store, t) : Serving(i, t) => d[k] = store[k]
      BY DEF KeysOf
    <3> HIDE DEF d
    <3> QED
      BY <3>1, <3>2, SameRows
  <2> HIDE DEF d
  <2>3. (Pending(i, t)' <=> Pending(i, t)) /\ (Serving(i, t)' <=> Serving(i, t))
    BY <1>0, <2>1 DEF Pending, Serving
  <2> QED
    BY <1>0, <2>1, <2>2, <2>3 DEF Current
<1>4. CASE Serves(i)
  <2> DEFINE r == refresher[i]
  <2>1. /\ refresher'[i].pc = "idle" /\ refresher'[i].full = r.full
        /\ refresher'[i].tenants = r.tenants /\ ~refresher'[i].servesFull
        /\ refresher'[i].serves = {} /\ r.pc = "apply" /\ UNCHANGED mail
    BY <1>0, <1>4 DEF Serves, RefresherRecs
  <2>2. IF r.servesFull
        THEN cache'[i] = r.data /\ overtaken'[i] = {}
        ELSE /\ cache'[i] = TenantsReplaced(cache[i], r.serves, r.data)
             /\ overtaken'[i] = overtaken[i] \ r.serves
    BY <1>0, <1>4 DEF Serves
  <2>3. Pending(i, t)' <=> Pending(i, t)
    BY <1>0, <2>1 DEF Pending
  <2>4. Serving(i, t) /\ ~Pending(i, t) => Rows(r.data, t) = Rows(store, t)
    BY <2>1 DEF Current
  <2>5. ~Serving(i, t) /\ ~Pending(i, t) /\ t \notin overtaken[i] =>
            Rows(cache[i], t) = Rows(store, t)
    BY DEF Current
  <2>6. ASSUME ~r.servesFull, ~Pending(i, t), t \notin overtaken'[i]
        PROVE  Rows(cache'[i], t) = Rows(store, t)
    <3>1. \A k \in DOMAIN r.data : r.data[k].tenant \in r.serves
      BY <2>1, <2>6 DEF Asking, Serving
    <3>2. \A k \in DOMAIN cache[i] \cap DOMAIN r.data : cache[i][k].tenant = r.data[k].tenant
      <4>1. ASSUME NEW k \in DOMAIN cache[i] \cap DOMAIN r.data
            PROVE  cache[i][k].tenant = r.data[k].tenant
        <5>1. k \in KeysOf(cache[i], cache[i][k].tenant) /\ k \in KeysOf(r.data, r.data[k].tenant)
          BY DEF KeysOf
        <5>2. Owns(k, cache[i][k].tenant) /\ Owns(k, r.data[k].tenant)
          BY <5>1 DEF Owns
        <5>3. cache[i] \in Tables /\ r.data \in Tables
          BY <1>0 DEF RefresherRecs
        <5>4. cache[i][k].tenant \in Tenants /\ r.data[k].tenant \in Tenants
          BY <5>3, TablesAre DEF IsTable, Entry
        <5> QED
          BY <5>2, <5>4 DEF OwnInv
      <4> QED
        BY <4>1
    <3> DEFINE c == cache[i]
               ts == r.serves
               d == r.data
    <3>3. /\ \A k \in DOMAIN d : d[k].tenant \in ts
          /\ \A k \in DOMAIN c \cap DOMAIN d : c[k].tenant = d[k].tenant
      BY <3>1, <3>2
    <3>4. cache'[i] = TenantsReplaced(c, ts, d) /\ overtaken'[i] = overtaken[i] \ ts
      BY <2>2, <2>6
    <3>5. /\ t \in ts => Rows(d, t) = Rows(store, t)
          /\ t \notin ts /\ t \notin overtaken[i] => Rows(c, t) = Rows(store, t)
      BY <2>4, <2>5, <2>6 DEF Serving
    <3> HIDE DEF c, ts, d
    <3>6. /\ t \in ts => Rows(TenantsReplaced(c, ts, d), t) = Rows(d, t)
          /\ t \notin ts => Rows(TenantsReplaced(c, ts, d), t) = Rows(c, t)
      BY <3>3, ReplacedRows
    <3> QED
      BY <2>6, <3>4, <3>5, <3>6
  <2>7. ~Pending(i, t) /\ t \notin overtaken'[i] => Rows(cache'[i], t) = Rows(store, t)
    <3>1. CASE r.servesFull
      BY <2>2, <2>4, <3>1 DEF Serving
    <3>2. CASE ~r.servesFull
      BY <2>6, <3>2
    <3> QED
      BY <3>1, <3>2
  <2>8. ~Serving(i, t)' /\ refresher'[i].pc # "apply"
    BY <2>1 DEF Serving
  <2>9. store' = store
    BY <1>0
  <2>10. ~Pending(i, t)' /\ t \notin overtaken'[i] => Rows(cache'[i], t) = Rows(store', t)
    BY <2>3, <2>7, <2>9
  <2> QED
    BY <2>8, <2>10 DEF Current
<1> QED
  BY <1>1, <1>2, <1>3, <1>4, RefreshIs
\* A step of one writer.
LEMMA QuietWrite ==
    ASSUME AllStamps, TypeInv, LockInv, FreshInv, backend = "postgres", faults = 0,
           UNCHANGED faults, NEW w \in Writers, Write(w),
           NEW i \in Instances, NEW t \in Tenants, Current(i, t)
    PROVE  Current(i, t)'
<1>0. /\ cache \in [Instances -> Tables] /\ store \in Tables
      /\ mail \in [Instances -> SUBSET Tenants] /\ overtaken \in [Instances -> SUBSET Tenants]
  BY DEF TypeInv, CacheTypes, RefreshTypes, StoreTypes
<1>1. UNCHANGED refresher
  BY WriteTells
<1>2. Serving(i, t)' <=> Serving(i, t)
  BY <1>1 DEF Serving
<1>3. ~Loads(w) /\ ~Persists(w)
  BY DEF LockInv, PathInv, Loads, Persists
<1>4. CASE Commits(w)
  <2>1. /\ Applied(w) \in Op /\ Applied(w).key = FreshKey[w] /\ FreshKey[w] \notin DOMAIN store
        /\ store' = Mutated(Applied(w), store) /\ Further(w, "assign", store')
        /\ wr[w].pc = "commit"
    BY <1>4, CommitsIs DEF Commits
  <2>2. Applied(w).tenant = wr[w].op.tenant
    <3>1. wr[w].op \in Op
      BY <2>1 DEF TypeInv, WriteTypes, Idle
    <3> QED
      BY <3>1 DEF Applied, Op
  <2>3. t # wr[w].op.tenant => Rows(store', t) = Rows(store, t)
    BY <1>0, <2>1, <2>2, MutatedRows
  <2>4. UNCHANGED <<cache, overtaken, mail>>
    BY <2>1, WriteTells DEF Caches, Announces
  <2>5. ~Pending(i, t)' => ~Pending(i, t) /\ t # wr[w].op.tenant
    <3>1. wr'[w].pc = "assign" /\ wr'[w].op = wr[w].op /\ \A v \in Writers : v # w => wr'[v] = wr[v]
      BY <2>1 DEF Further, Goes
    <3> QED
      BY <1>1, <2>1, <2>4, <3>1 DEF Pending
  <2> QED
    BY <1>1, <1>2, <2>3, <2>4, <2>5 DEF Current
<1>5. CASE Assigns(w)
  <2>1. /\ UNCHANGED <<store, mail>> /\ wr'[w].pc = "announce" /\ wr'[w].op = wr[w].op
        /\ wr[w].pc = "assign"
        /\ \A v \in Writers : v # w => wr'[v] = wr[v]
    BY <1>5, WriteTells DEF Assigns, Stays, Further, Goes, Caches, Announces
  <2>2. Caches(w)
    BY <2>1, WriteTells DEF Announces
  <2>3. Pending(i, t)' <=> Pending(i, t)
    BY <1>1, <2>1 DEF Pending
  <2>4. wr[w].op.tenant = t => Pending(i, t)
    BY <2>1 DEF Pending
  <2>5. \/ cache'[i] = cache[i] /\ overtaken'[i] = overtaken[i]
        \/ cache'[i] = wr[w].data /\ overtaken'[i] = Older(w)
    BY <1>0, <2>2 DEF Caches
  <2>6. t \notin Older(w) /\ t # wr[w].op.tenant => Rows(wr[w].data, t) = Rows(store, t)
    BY DEF Older
  <2> QED
    BY <1>1, <1>2, <2>1, <2>3, <2>4, <2>5, <2>6 DEF Current
<1>6. CASE Tells(w)
  <2>1. /\ UNCHANGED store /\ wr[w].pc = "announce"
        /\ \A v \in Writers : v # w => wr'[v] = wr[v]
    BY <1>6 DEF Tells, Stays, Goes
  <2>2. Announces(w)
    BY <2>1, WriteTells DEF Caches
  <2>3. UNCHANGED <<cache, overtaken>> /\ mail'[i] = mail[i] \cup {wr[w].op.tenant}
    BY <1>0, <2>2 DEF Announces
  <2>4. ~Pending(i, t)' => ~Pending(i, t)
    BY <1>1, <2>1, <2>3 DEF Pending
  <2> QED
    BY <1>1, <1>2, <2>1, <2>3, <2>4 DEF Current
<1>7. CASE Starts(w) \/ Locks(w) \/ Quits(w) \/ Opens(w)
  <2>1. /\ UNCHANGED store /\ wr[w].pc # "announce"
        /\ wr'[w].pc \notin {"assign", "announce"}
        /\ \A v \in Writers : v # w => wr'[v] = wr[v]
    BY <1>7 DEF Starts, Locks, Quits, Opens, Stays, Goes, Further, Holding
  <2>2. wr[w].pc # "assign"
    <3>1. ASSUME wr[w].pc = "assign" PROVE FALSE
      <4>1. Assign(w)
        <5>1. ~TransactTimeout(w)
          <6>1. ~Fault("timeout")
            BY DEF Fault
          <6> QED
            BY <6>1 DEF TransactTimeout
        <5> QED
          BY <3>1, <5>1 DEF Write, WriteBegin, TakeWriteLock, LoadFullStore, Persist,
             BeginTransaction, Commit, Announce
      <4>2. wr'[w].pc = "announce"
        <5>1. wr' = [wr EXCEPT ![w].pc = "announce", ![w].data = NoKeys]
          BY <4>1 DEF Assign
        <5>2. wr \in [Writers -> WriterRecs]
          BY DEF TypeInv, WriteTypes
        <5> QED
          BY <5>1, <5>2 DEF WriterRecs
      <4> QED
        BY <2>1, <4>2
    <3> QED
      BY <3>1
  <2>3. UNCHANGED <<cache, overtaken, mail>>
    BY <2>1, <2>2, WriteTells DEF Caches, Announces
  <2>4. Pending(i, t)' <=> Pending(i, t)
    BY <1>1, <2>1, <2>2, <2>3 DEF Pending
  <2> QED
    BY <1>1, <1>2, <2>1, <2>3, <2>4 DEF Current
<1> QED
  BY <1>3, <1>4, <1>5, <1>6, <1>7, WriteIs

LEMMA QuietStep ==
    ASSUME AllStamps, TypeInv, LockInv, FreshInv, RestInv, OwnInv, QuietInv, [Next]_vars
    PROVE  QuietInv'
<1> SUFFICES ASSUME backend' = "postgres", faults' = 0, NEW i \in Instances
             PROVE  Asking(i)' /\ \A t \in Tenants : Current(i, t)'
  BY DEF QuietInv
<1>1. UNCHANGED <<backend, faults>>
  BY NoFault, OthersLeave, WriteIs DEF Next, StoreSide
<1>2. /\ backend = "postgres" /\ faults = 0 /\ UNCHANGED faults
      /\ Asking(i) /\ \A t \in Tenants : Current(i, t)
  BY <1>1 DEF QuietInv
<1>3. CASE Tick \/ UNCHANGED vars
  <2>1. UNCHANGED <<store, wr, cache, overtaken, refresher, mail>>
    BY <1>3 DEF Tick, vars, storeVars, cacheVars
  <2> QED
    BY <1>2, <2>1 DEF Asking, Current, Pending, Serving
<1>4. ASSUME NEW l \in Lookups, Look(l) PROVE FALSE
  BY <1>2, <1>4 DEF RestInv, Look, LookBegin, EnterReload, LockTimeout, LoadVersion, LoadData,
     LoadApply, LoadedUnder, EnterVersionCheck, AskVersion
<1>5. ASSUME NEW w \in Writers, Write(w), NEW t \in Tenants PROVE Current(i, t)'
  BY <1>2, <1>5, QuietWrite
<1>6. ASSUME NEW j \in Instances, Refresh(j), NEW t \in Tenants PROVE Current(i, t)'
  <2>1. CASE j = i
    BY <1>2, <1>6, <2>1, QuietRefresh
  <2>2. CASE j # i
    <3>1. UNCHANGED <<store, wr>>
      BY <1>6, OthersLeave DEF StoreSide
    <3>2. refresher'[i] = refresher[i]
      BY <1>2, <1>6, <2>2, RefreshIs
    <3>3. cache'[i] = cache[i] /\ overtaken'[i] = overtaken[i] /\ mail'[i] = mail[i]
      <4>1. /\ cache \in [Instances -> Tables] /\ mail \in [Instances -> SUBSET Tenants]
            /\ overtaken \in [Instances -> SUBSET Tenants]
        BY DEF TypeInv, CacheTypes, RefreshTypes
      <4>2. CASE Collects(j)
        BY <2>2, <4>1, <4>2 DEF Collects
      <4>3. CASE Begins(j) \/ Reads(j)
        BY <4>3 DEF Begins, Reads
      <4>4. CASE Serves(j)
        <5>1. /\ UNCHANGED mail
              /\ \E c : cache' = [cache EXCEPT ![j] = c]
              /\ \E o : overtaken' = [overtaken EXCEPT ![j] = o]
          BY <4>4 DEF Serves
        <5> QED
          BY <2>2, <4>1, <5>1
      <4> QED
        BY <1>2, <1>6, <4>2, <4>3, <4>4, RefreshIs
    <3> QED
      BY <1>2, <3>1, <3>2, <3>3 DEF Asking, Current, Pending, Serving
  <2> QED
    BY <2>1, <2>2
<1>7. Asking(i)'
  <2>1. UNCHANGED refresher \/ \E j \in Instances : Refresh(j)
    BY <1>4, WriteTells DEF Next, Tick, vars
  <2> QED
    BY <1>2, <2>1, AskingStep
<1> QED
  BY <1>3, <1>4, <1>5, <1>6, <1>7 DEF Next

\* Once every announcement was heard and served, the cache is the table's, but for what
\* a write for another tenant put back (CacheRefresher, replace_tenants_in_cache).
THEOREM QuietAlwaysCurrent ==
    ASSUME AllStamps PROVE Spec => []QuietIsCurrent
<1> DEFINE Inv == StoreInv /\ RestInv /\ OwnInv /\ QuietInv
<1>1. Init => Inv
  <2> SUFFICES ASSUME Init PROVE Inv
    OBVIOUS
  <2>1. /\ look = [l \in Lookups |-> NewLookup] /\ wr = [w \in Writers |-> Over("start")]
        /\ refresher = [i \in Instances |-> IdleRefresher] /\ mail = [i \in Instances |-> {}]
        /\ store = FirstStore
    BY DEF Init
  <2>2. RestInv
    BY <2>1 DEF RestInv, NewLookup
  <2>3. backend = "postgres" => \A i \in Instances : cache[i] = store
    BY DEF Init, Loaded
  <2>4. QuietInv
    BY <2>1, <2>3 DEF QuietInv, Asking, Current, Serving, IdleRefresher
  <2>5. ASSUME backend = "postgres", NEW k, NEW t, Owns(k, t) PROVE k \in KeysOf(FirstStore, t)
    BY <2>1, <2>3, <2>5 DEF Owns, IdleRefresher, Over, KeysOf, NoKeys
  <2>6. \A w \in Writers : FreshKey[w] \notin DOMAIN FirstStore
    BY FreshAssumption
  <2>7. OwnInv
    BY <2>5, <2>6 DEF OwnInv, KeysOf
  <2> QED
    BY <2>2, <2>4, <2>7, StoreInvInit
<1>2. Inv /\ [Next]_vars => Inv'
  <2> SUFFICES ASSUME Inv, [Next]_vars PROVE Inv'
    OBVIOUS
  <2>1. StoreInv' /\ TypeInv /\ LockInv /\ FreshInv
    BY StoreInvStep DEF StoreInv
  <2> QED
    BY <2>1, RestStep, OwnStep, QuietStep
<1>3. Inv => QuietIsCurrent
  <2> SUFFICES ASSUME Inv, backend = "postgres", faults = 0, NEW i \in Instances, Quiet(i),
                      NEW t \in Tenants \ overtaken[i]
               PROVE  Rows(cache[i], t) = Rows(store, t)
    BY DEF QuietIsCurrent
  <2>1. ~Pending(i, t)
    BY DEF Quiet, Pending, Asked
  <2>2. Asking(i) /\ Current(i, t)
    BY DEF QuietInv
  <2>3. ~Serving(i, t)
    BY <2>2 DEF Quiet, Asking, Serving
  <2> QED
    BY <2>1, <2>2, <2>3 DEF Current
<1> QED
  BY <1>1, <1>2, <1>3, PTL DEF Spec
=============================================================================
