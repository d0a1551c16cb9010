-------------------------- MODULE CapacityAdmission --------------------------
(***************************************************************************)
(* CapacityAdmissionController of packages/core-resource: reservations are *)
(* granted while every quota that covers the command has room, and count   *)
(* until they are released or found expired.  Nothing expires by itself:   *)
(* reserve looks first.                                                    *)
(*                                                                         *)
(* The methods are synchronous, so each is one step; the time they are     *)
(* given never runs backwards and is never 0.                              *)
(***************************************************************************)
EXTENDS Integers, Sequences, FiniteSets

CONSTANTS
  Commands,        \* commands that ask for capacity
  Request,         \* command -> [tenant, user, workspace, resourceClass]
  Quotas,          \* the configured limits: [scope, id, maxConcurrent, maxByClass]
  Ttl,             \* how long a reservation lasts
  MaxReservations, \* bound: reservations granted
  MaxTime,         \* bound: the clock
  NotReleased

HEAVY_RESOURCE_CLASSES == {"test", "build", "long_running", "high_mem"}
ResourceClass == {"light", "interactive"} \cup HEAVY_RESOURCE_CLASSES
isHeavyResourceClass(class) == class \in HEAVY_RESOURCE_CLASSES

ASSUME RequestsHaveClasses == \A c \in Commands : Request[c].resourceClass \in ResourceClass
ASSUME LimitsAreNumbers ==
  \A quota \in Quotas : quota.maxConcurrent \in Nat /\ \A class \in DOMAIN quota.maxByClass : quota.maxByClass[class] \in Nat
ASSUME TimesAreNumbers == Ttl \in Nat /\ MaxTime \in Nat /\ MaxReservations \in Nat /\ NotReleased \notin Nat

VARIABLES
  reservations,   \* in the order they were granted: [command, expiresAt, releasedAt]
  overloadUntil,  \* the last expiry of a critical signal that asks to drain
  now

capacityVars == <<reservations, overloadUntil, now>>

Reservation == [command : Commands, expiresAt : Nat, releasedAt : Nat \cup {NotReleased}]

-----------------------------------------------------------------------------
activeReservations(rs) == {i \in DOMAIN rs : rs[i].releasedAt = NotReleased}

\* Whom a quota counts.
Covers(quota, c) ==
  CASE quota.scope = "global"    -> TRUE
    [] quota.scope = "tenant"    -> Request[c].tenant = quota.id
    [] quota.scope = "user"      -> Request[c].user = quota.id
    [] quota.scope = "workspace" -> Request[c].workspace = quota.id

Counted(rs, quota) == {i \in activeReservations(rs) : Covers(quota, rs[i].command)}
CountedOfClass(rs, quota, class) == {i \in Counted(rs, quota) : Request[rs[i].command].resourceClass = class}

Limit(quota, class) ==
  IF class \in DOMAIN quota.maxByClass THEN quota.maxByClass[class] ELSE quota.maxConcurrent

\* Mutant: only the class is compared.
ClassHasRoom(rs, quota, c) ==
  Covers(quota, c) =>
    Cardinality(CountedOfClass(rs, quota, Request[c].resourceClass)) < Limit(quota, Request[c].resourceClass)

checkQuota(rs, quota, c) ==
  Covers(quota, c) =>
    /\ Cardinality(Counted(rs, quota)) < quota.maxConcurrent
    /\ Cardinality(CountedOfClass(rs, quota, Request[c].resourceClass)) < Limit(quota, Request[c].resourceClass)

Expired(rs) ==
  [i \in DOMAIN rs |-> IF rs[i].releasedAt = NotReleased /\ rs[i].expiresAt <= now
                       THEN [rs[i] EXCEPT !.releasedAt = now]
                       ELSE rs[i]]

Granted(c) == [command |-> c, expiresAt |-> now + Ttl, releasedAt |-> NotReleased]

\* The answer to a request, given what is left after the expired ones are gone.
Admits(rs, c) ==
  /\ ~ (overloadUntil > now /\ isHeavyResourceClass(Request[c].resourceClass))
  /\ \A quota \in Quotas : checkQuota(rs, quota, c)

reserve(c) ==
  LET rs == Expired(reservations)
  IN  /\ Len(reservations) < MaxReservations
      /\ reservations' = IF Admits(rs, c) THEN Append(rs, Granted(c)) ELSE rs
      /\ UNCHANGED <<overloadUntil, now>>

\* Also of one that was released before: its time is overwritten.
release(i) ==
  /\ reservations' = [reservations EXCEPT ![i].releasedAt = now]
  /\ UNCHANGED <<overloadUntil, now>>

expireReservations ==
  /\ reservations' = Expired(reservations)
  /\ UNCHANGED <<overloadUntil, now>>

addOverloadSignal(t) ==
  /\ t > overloadUntil
  /\ overloadUntil' = t
  /\ UNCHANGED <<reservations, now>>

Tick ==
  /\ now < MaxTime
  /\ now' = now + 1
  /\ UNCHANGED <<reservations, overloadUntil>>

-----------------------------------------------------------------------------
CapacityInit ==
  /\ reservations = <<>>
  /\ overloadUntil = 0
  /\ now = 1

CapacityNext ==
  \/ \E c \in Commands : reserve(c)
  \/ \E i \in DOMAIN reservations : release(i)
  \/ expireReservations
  \/ \E t \in 1..MaxTime : addOverloadSignal(t)

CapacitySpec == CapacityInit /\ [][CapacityNext \/ Tick]_capacityVars

-----------------------------------------------------------------------------
(* Properties *)

\* The reservations that count never exceed a limit, whichever of the nested quotas (all, the tenant's,
\* the user's, the workspace's) is the narrow one, and for every class although a request only looks at its
\* own (checkQuota, reserve).
WithinQuota ==
  \A quota \in Quotas :
    /\ Cardinality(Counted(reservations, quota)) <= quota.maxConcurrent
    /\ \A class \in ResourceClass : Cardinality(CountedOfClass(reservations, quota, class)) <= Limit(quota, class)
=============================================================================
