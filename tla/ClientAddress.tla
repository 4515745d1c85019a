---------------------------- MODULE ClientAddress ----------------------------
(***************************************************************************)
(* Who is calling and from where: ClientIPMiddleware's address, the         *)
(* forwarder whose vouch it takes and the certificates that prove it, then  *)
(* _authenticate's gates and the identity the pipeline stamps.              *)
(*                                                                          *)
(* A connection starts at "origin" and passes the proxies in front of       *)
(* TokenLean, each of which appends the address it was called from; the     *)
(* last one is the socket's "peer".  What the key store answers to a key is *)
(* in KeyStore; here it is part of the call.                                *)
(***************************************************************************)
EXTENDS Integers, Sequences

CONSTANTS
    Visits,          \* requests in flight
    Deployments,     \* settings that decide an address
    Connections,     \* Connections[v]: what a caller may send, and what its key stands for
    CertsLast,       \* max-age of Google's certificates
    RefetchAfter,    \* _REFETCH_CERTS_SECONDS
    RetryAfter,      \* _RETRY_NO_CERTS_SECONDS
    MaxSigner,       \* bound: Google's newest key
    MaxInstant,      \* bound: ticks of the clock
    MaxVisits        \* bound: requests

ASSUME AddressAssumption ==
    /\ RefetchAfter \in Nat \ {0} /\ {RetryAfter, CertsLast} \subseteq Nat /\ RetryAfter <= RefetchAfter
    /\ \A d \in Deployments : d.hops \in {"unset", "two", "auto"}
    /\ \A v \in Visits : \A c \in Connections[v] :
          /\ c.lines \in Seq(Seq(STRING))
          /\ c.vouch.sent \in BOOLEAN /\ c.vouch.genuine \in BOOLEAN

VARIABLES
    deployed,    \* the deployment
    instant,     \* the clock
    signer,      \* Google's newest key
    held,        \* the verifier's certificates by key; {} before the first fetch
    expires,     \* when they do
    fetchedAt,   \* the last attempt
    fetching,    \* whether the verifier's lock is held
    visit,       \* each request: its call, and what was made of it
    visits       \* requests so far

certVars == <<held, expires, fetchedAt, fetching>>
addressVars == <<deployed, instant, signer, certVars, visit, visits>>

Published == {signer - 1, signer} \ {0}
NoVisit == [phase |-> "idle"]

AddressInit ==
    /\ deployed \in Deployments /\ instant = 0 /\ signer = 1
    /\ held = {} /\ expires = 0 /\ fetchedAt = 0 - RefetchAfter /\ fetching = FALSE
    /\ visit = [v \in Visits |-> NoVisit] /\ visits = 0

-----------------------------------------------------------------------------
(* The address. *)

(* trusted_proxy_hops: a number, or auto for anything else; unset, the older flag. *)
AutoHops == IF deployed.cloudRun THEN 1 ELSE 0
Hops ==
    CASE deployed.hops = "unset" -> IF deployed.legacy = "unset" THEN AutoHops
                                    ELSE IF deployed.legacy = "true" THEN 1 ELSE 0
      [] deployed.hops = "two" -> 2
      [] deployed.hops = "auto" -> AutoHops

(* The header once the proxies have passed the call on: each appends to its last line
   where it was called from. *)
Passed == [n \in 1..Hops |-> IF n = 1 THEN "origin" ELSE "proxy"]
Arriving(lines) ==
    IF Hops = 0 THEN lines
    ELSE IF lines = << >> THEN <<Passed>>
    ELSE [lines EXCEPT ![Len(lines)] = @ \o Passed]
Peer == IF Hops = 0 THEN "origin" ELSE "peer"

(* normalise_ip *)
Normalised(a) == IF a = "no address" THEN "invalid" ELSE a

BugFromTheLeft(line) == line[Hops]
Trusted(line) == line[Len(line) - Hops + 1]

(* _resolve *)
Forwarded(lines) ==
    IF Hops = 0 \/ Len(lines) # 1 \/ Len(lines[1]) < Hops THEN Peer ELSE Normalised(Trusted(lines[1]))

(* _first_entry, what observe mode keeps. *)
FirstEntry(lines) == IF Hops = 0 \/ lines = << >> THEN Peer ELSE lines[1][1]

(* _resolve_request, after the verifier's answer. *)
Address(call, vouched) ==
    IF deployed.observe THEN FirstEntry(Arriving(call.lines))
    ELSE IF vouched THEN Normalised(call.vouch.address)
    ELSE Forwarded(Arriving(call.lines))

-----------------------------------------------------------------------------
(* The verifier. *)

BugWaitsForExpiry(key) ==
    LET since == instant - fetchedAt
    IN  IF held = {} THEN since >= RetryAfter ELSE since >= RefetchAfter /\ instant >= expires
NeedsFetch(key) ==
    LET since == instant - fetchedAt
    IN  IF held = {} THEN since >= RetryAfter
        ELSE since >= RefetchAfter /\ (instant >= expires \/ key \notin held)

(* verify: Google's signature by a key that is held, and the forwarder's account. *)
Verifies(vouch, key, certs) == key \in certs /\ vouch.genuine

Settle(v, certs) ==
    LET call == visit[v].call
        vouched == call.vouch.sent /\ deployed.verifier /\ Verifies(call.vouch, visit[v].signedBy, certs)
    IN  visit' = [visit EXCEPT ![v] =
                    [@ EXCEPT !.phase = "addressed", !.vouched = vouched, !.ip = Address(call, vouched)]]

(* ClientIPMiddleware takes the forwarding headers off the call; a genuine vouch is signed
   by a key Google publishes. *)
Enter(v) ==
    /\ visit[v].phase \in {"idle", "refused", "in"} /\ visits < MaxVisits
    /\ visits' = visits + 1
    /\ \E c \in Connections[v] : \E key \in IF c.vouch.genuine THEN Published ELSE {0} :
          visit' = [visit EXCEPT ![v] =
              [phase |-> "middleware", call |-> c, signedBy |-> key, asked |-> instant,
               knew |-> key \in held, vouched |-> FALSE, ip |-> "unknown", who |-> << >>]]
    /\ UNCHANGED <<deployed, instant, signer, certVars>>

(* _certs_for: without the lock when nothing is to be fetched. *)
Resolve(v) ==
    /\ visit[v].phase = "middleware"
    /\ IF visit[v].call.vouch.sent /\ deployed.verifier /\ NeedsFetch(visit[v].signedBy)
         THEN visit' = [visit EXCEPT ![v].phase = "waits"]
         ELSE Settle(v, held)
    /\ UNCHANGED <<deployed, instant, signer, certVars, visits>>

TakeLock(v) ==
    /\ visit[v].phase = "waits" /\ ~fetching
    /\ IF NeedsFetch(visit[v].signedBy)
         THEN /\ fetching' = TRUE /\ fetchedAt' = instant
              /\ visit' = [visit EXCEPT ![v].phase = "fetches"]
         ELSE Settle(v, held) /\ UNCHANGED <<fetching, fetchedAt>>
    /\ UNCHANGED <<deployed, instant, signer, held, expires, visits>>

Fetched(v) ==
    /\ visit[v].phase = "fetches"
    /\ held' = Published /\ expires' = instant + CertsLast /\ fetching' = FALSE
    /\ Settle(v, Published)
    /\ UNCHANGED <<deployed, instant, signer, fetchedAt, visits>>

FetchFails(v) ==
    /\ visit[v].phase = "fetches"
    /\ fetching' = FALSE
    /\ Settle(v, held)
    /\ UNCHANGED <<deployed, instant, signer, held, expires, fetchedAt, visits>>

RotateKeys ==
    /\ signer < MaxSigner
    /\ signer' = signer + 1
    /\ UNCHANGED <<deployed, instant, certVars, visit, visits>>

InstantPasses ==
    /\ instant < MaxInstant
    /\ instant' = instant + 1
    /\ UNCHANGED <<deployed, signer, certVars, visit, visits>>

-----------------------------------------------------------------------------
(* The key. *)

(* ip_allowed; "invalid" and "unknown" are in no list. *)
IpAllowed(ip, lists) == lists = {} \/ ip \in lists

(* The gates of _authenticate. *)
Refused(call, ip) ==
    LET key == call.key
    IN  \/ ~key.valid \/ key.tenant = "" \/ key.suspended \/ ~key.contract
        \/ ~IpAllowed(ip, deployed.cidrs \cup key.cidrs)

(* resolve_tenant, resolve_team, apply_caller_identity, the X-User-ID override. *)
Identity(call) ==
    LET key == call.key  says == call.headers
        tenant == IF key.admin /\ says.tenant # "" THEN says.tenant ELSE key.tenant
    IN  [tenant |-> tenant,
         impersonator |-> IF tenant # key.tenant THEN key.tenant ELSE "",
         team |-> IF key.gateway /\ says.team # "" THEN says.team ELSE "default",
         principal |-> key.tenant,
         user |-> IF deployed.override /\ says.user \in deployed.users \cup key.users
                    THEN says.user ELSE key.tenant]

Authenticate(v) ==
    /\ visit[v].phase = "addressed"
    /\ LET call == visit[v].call
       IN  visit' = [visit EXCEPT ![v] =
              IF Refused(call, @.ip)
                THEN [@ EXCEPT !.phase = "refused"]
                ELSE [@ EXCEPT !.phase = "in", !.who = Identity(call)]]
    /\ UNCHANGED <<deployed, instant, signer, certVars, visits>>

AddressNext ==
    \/ RotateKeys \/ InstantPasses
    \/ \E v \in Visits : \/ Enter(v) \/ Resolve(v) \/ TakeLock(v) \/ Fetched(v) \/ FetchFails(v)
                         \/ Authenticate(v)

AddressSpec == AddressInit /\ [][AddressNext]_addressVars

-----------------------------------------------------------------------------
(* In enforce mode the address that is compared with the allowlist is one a trusted
   party saw, whatever the caller wrote into the header: the caller's own, the last
   proxy's when the header came on several lines, or the one a proven forwarder vouched
   for.  And over key rotations, failed fetches and overlapping requests a genuine vouch is
   refused only if its key was not held when it came and the last attempt to fetch
   certificates is less than a minute older than it. *)
AddressIsSound ==
    \A v \in Visits :
        (visit[v].phase \in {"in", "refused"} /\ ~deployed.observe) =>
            LET r == visit[v]  vouch == r.call.vouch
            IN  /\ r.ip = IF r.vouched THEN Normalised(vouch.address)
                          ELSE IF Len(r.call.lines) <= 1 THEN "origin" ELSE Peer
                /\ r.vouched => vouch.genuine
                /\ (vouch.sent /\ vouch.genuine /\ deployed.verifier /\ ~r.vouched) =>
                      /\ fetchedAt > r.asked - RefetchAfter
                      /\ r.knew => r.signedBy \notin Published
=============================================================================
