------------------------------ MODULE Settings ------------------------------
(***************************************************************************)
(* The configuration a request runs by: config_loader's file, its params    *)
(* directory and hot reload, and TenantConfigLoader's cached overrides from *)
(* Postgres.                                                                *)
(*                                                                          *)
(* A configuration is a function from a section to where its settings come  *)
(* from: "base" and "params"; a section from nowhere is not there.  The     *)
(* overrides of the one tenant are the number of their version.             *)
(***************************************************************************)
EXTENDS Integers, Sequences

CONSTANTS
    Sections,        \* top-level sections of the config file
    Readers,         \* requests
    CacheTtl,        \* cache_ttl
    BootAttempts,    \* _REQUIRED_LOAD_ATTEMPTS
    MaxMoment,       \* bound: ticks of the clock
    MaxVersions,     \* bound: writes of the tenant's overrides
    MaxWrites        \* bound: changes of the config source

ASSUME SettingsAssumption == CacheTtl \in Nat \ {0} /\ MaxMoment \in Nat

VARIABLES
    source,     \* the config source: base and params, each the sections it parses to
    writes,     \* changes made to it
    reload,     \* load_config in flight: the base it has read
    boots,      \* attempts of the required load; 0 when the process runs
    running,    \* _config
    opened,     \* sections the process started with
    moment,     \* time.monotonic()
    replaced,   \* replaced[v]: when version v of the overrides gave way to the next
    cached,     \* _cache: version and expiry
    reader      \* each request: what it asked, read and runs by

fileVars == <<source, writes, reload, boots, running, opened>>
rowVars == <<replaced, cached>>
settingsVars == <<fileVars, rowVars, moment, reader>>

Unreadable == {"unreadable"}          \* no file, or one that parses to no mapping
NotReading == {"not reading"}
NotCached == [version |-> 0, expires |-> 0]
Idle == [phase |-> "idle", asked |-> 0, version |-> 0, config |-> [s \in Sections |-> {}]]
Version == Len(replaced) + 1          \* of the row in tenant_configs

Present(config) == {s \in Sections : config[s] # {}}

SettingsInit ==
    /\ source = [base |-> Sections, params |-> {}] /\ writes \in 0..MaxWrites
    /\ reload = NotReading /\ boots = 1
    /\ running = [s \in Sections |-> {}] /\ opened = {}
    /\ moment \in 0..MaxMoment /\ replaced = << >> /\ cached = NotCached
    /\ reader = [q \in Readers |-> Idle]

-----------------------------------------------------------------------------
(* The platform's configuration. *)

(* The operator writes the file or the params directory, in the middle of it too. *)
ChangeSource ==
    /\ writes < MaxWrites
    /\ writes' = writes + 1
    /\ \/ \E b \in (SUBSET Sections) \cup {Unreadable} : source' = [source EXCEPT !.base = b]
       \/ \E p \in SUBSET Sections : source' = [source EXCEPT !.params = p]
    /\ UNCHANGED <<reload, boots, running, opened, rowVars, moment, reader>>

(* merge_params_dir: each section key by key; a file that does not load is skipped. *)
Merge(base, params) ==
    [s \in Sections |-> (IF s \in base THEN {"base"} ELSE {}) \cup (IF s \in params THEN {"params"} ELSE {})]

BugSwapsAnyway(new) == FALSE
(* _refuse_a_shrunken_reload *)
Shrunken(new) == ~(Present(running) \subseteq Present(new))

(* load_config(required=True): an unreadable base is tried again, then the process ends;
   what is read is not compared with anything. *)
Boot ==
    /\ boots \in 1..BootAttempts
    /\ IF source.base = Unreadable
         THEN boots' = boots + 1 /\ UNCHANGED <<running, opened>>
         ELSE /\ boots' = 0
              /\ running' = Merge(source.base, source.params)
              /\ opened' = Present(running')
    /\ UNCHANGED <<source, writes, reload, rowVars, moment, reader>>

(* start_hot_reload's thread: _load_once reads the base, then the params directory, and
   swaps the result in; any failure keeps the running configuration. *)
ReloadReads ==
    /\ boots = 0 /\ reload = NotReading
    /\ source.base # Unreadable
    /\ reload' = source.base
    /\ UNCHANGED <<source, writes, boots, running, opened, rowVars, moment, reader>>

ReloadSwaps ==
    /\ reload # NotReading
    /\ reload' = NotReading
    /\ LET new == Merge(reload, source.params)
       IN  running' = IF Shrunken(new) THEN running ELSE new
    /\ UNCHANGED <<source, writes, boots, opened, rowVars, moment, reader>>

(* The process ends (nothing of it is kept), and another one starts. *)
Restart ==
    /\ boots # 1
    /\ boots' = 1 /\ reload' = NotReading
    /\ running' = [s \in Sections |-> {}] /\ opened' = {}
    /\ cached' = NotCached /\ reader' = [q \in Readers |-> Idle]
    /\ UNCHANGED <<source, writes, replaced, moment>>

-----------------------------------------------------------------------------
(* A tenant's overrides. *)

(* A write in the portal, in this process or in another. *)
WriteOverrides ==
    /\ Version < MaxVersions
    /\ replaced' = Append(replaced, moment)
    /\ UNCHANGED <<fileVars, cached, moment, reader>>

Invalidate ==
    /\ cached' = NotCached
    /\ UNCHANGED <<fileVars, replaced, moment, reader>>

(* What the request goes on with: the overrides over the configuration it started with. *)
GoesOn(q, version) == reader' = [reader EXCEPT ![q].phase = "served", ![q].version = version]

(* _get_overrides: the clock is read, then the cache. *)
AskOverrides(q) ==
    /\ boots = 0 /\ reader[q].phase \in {"idle", "served"}
    /\ LET hit == moment < cached.expires
       IN  reader' = [reader EXCEPT ![q] =
              [phase |-> IF hit THEN "served" ELSE "asking", asked |-> moment,
               version |-> IF hit THEN cached.version ELSE 0, config |-> running]]
    /\ UNCHANGED <<fileVars, rowVars, moment>>

(* No pool, or per_tenant_config_enabled is off. *)
AskNothing(q) ==
    /\ boots = 0 /\ reader[q].phase \in {"idle", "served"}
    /\ reader' = [reader EXCEPT ![q] = [phase |-> "served", asked |-> moment, version |-> 0, config |-> running]]
    /\ UNCHANGED <<fileVars, rowVars, moment>>

ReadRow(q) ==
    /\ reader[q].phase = "asking"
    /\ reader' = [reader EXCEPT ![q].phase = "read", ![q].version = Version]
    /\ UNCHANGED <<fileVars, rowVars, moment>>

BugExpiresFromNow(q) == moment + CacheTtl
Expiry(q) == reader[q].asked + CacheTtl

StoreOverrides(q) ==
    /\ reader[q].phase = "read"
    /\ cached' = [version |-> reader[q].version, expires |-> Expiry(q)]
    /\ GoesOn(q, reader[q].version)
    /\ UNCHANGED <<fileVars, replaced, moment>>

(* The database fails: nothing is cached, the platform's configuration serves. *)
ReadFails(q) ==
    /\ reader[q].phase = "asking"
    /\ GoesOn(q, 0)
    /\ UNCHANGED <<fileVars, rowVars, moment>>

Elapse ==
    /\ moment < MaxMoment
    /\ moment' = moment + 1
    /\ UNCHANGED <<fileVars, rowVars, reader>>

SettingsNext ==
    \/ ChangeSource \/ Boot \/ ReloadReads \/ ReloadSwaps \/ Restart
    \/ WriteOverrides \/ Invalidate \/ Elapse
    \/ \E q \in Readers : AskOverrides(q) \/ AskNothing(q) \/ ReadRow(q) \/ StoreOverrides(q) \/ ReadFails(q)

SettingsSpec == SettingsInit /\ [][SettingsNext]_settingsVars

-----------------------------------------------------------------------------
(* What a request runs by is neither torn nor older than promised, whatever is written
   while it, another request or the reload thread is between two of its steps: it has
   every section the process started with, and overrides it did get were in Postgres at
   some time after it asked, or less than cache_ttl before (config_loader's refusal of
   a shrunken file, TenantConfigLoader's expiry counted from before the query). *)
SettingsHold ==
    \A q \in Readers :
        reader[q].phase = "served" =>
            /\ opened \subseteq Present(reader[q].config)
            /\ reader[q].version \in DOMAIN replaced =>
                  replaced[reader[q].version] > reader[q].asked - CacheTtl
=============================================================================
