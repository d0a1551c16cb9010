------------------------ MODULE ExecutionPlaneProofs ------------------------
(***************************************************************************)
(* What the execution plane keeps, proved for all values of the constants: *)
(* capacity admission (CapacitySpec), the workspace runtime over Docker    *)
(* (RuntimeSpec), the app-server adapter (AppServerSpec) and the fair      *)
(* queue (QueueSpec).  Each property has an inductive invariant of its     *)
(* own, stated before its steps.                                           *)
(***************************************************************************)
EXTENDS CapacityAdmission, WorkspaceRuntime, AppServer, TenantFairQueue, FiniteSetTheorems, SequenceTheorems, TLAPS

-----------------------------------------------------------------------------
(* No quota is ever exceeded.  The invariant is inductive once the         *)
(* reservations are known to be a finite sequence: expiring and releasing  *)
(* shrink every set that a quota counts, and a grant adds one member to    *)
(* the sets of the quotas that cover it, each of which was found to have   *)
(* room, and, of the sets by class, only to those of its own class.        *)

CapacityTypeOK ==
  /\ reservations \in Seq(Reservation)
  /\ now \in Nat

Within(rs) ==
  \A quota \in Quotas :
    /\ Cardinality(Counted(rs, quota)) <= quota.maxConcurrent
    /\ \A class \in ResourceClass : Cardinality(CountedOfClass(rs, quota, class)) <= Limit(quota, class)

-----------------------------------------------------------------------------
LEMMA LimitIsNumber ==
  ASSUME NEW quota \in Quotas, NEW class \in ResourceClass
  PROVE  quota.maxConcurrent \in Nat /\ Limit(quota, class) \in Nat
BY LimitsAreNumbers DEF Limit

\* What has to be shown of a quota and a class.
LEMMA WithinByQuotaAndClass ==
  ASSUME NEW ss,
         \A quota \in Quotas, class \in ResourceClass :
           /\ Cardinality(Counted(ss, quota)) <= quota.maxConcurrent
           /\ Cardinality(CountedOfClass(ss, quota, class)) <= Limit(quota, class)
  PROVE  Within(ss)
<1>1. "light" \in ResourceClass
  BY DEF ResourceClass
<1>2. ASSUME NEW quota \in Quotas
      PROVE  Cardinality(Counted(ss, quota)) <= quota.maxConcurrent
  BY <1>1
<1>3. ASSUME NEW quota \in Quotas, NEW class \in ResourceClass
      PROVE  Cardinality(CountedOfClass(ss, quota, class)) <= Limit(quota, class)
  OBVIOUS
<1> QED
  BY <1>2, <1>3, Zenon DEF Within

LEMMA CountedIsFinite ==
  ASSUME NEW rs \in Seq(Reservation), NEW quota, NEW class
  PROVE  /\ IsFiniteSet(Counted(rs, quota))
         /\ IsFiniteSet(CountedOfClass(rs, quota, class))
         /\ Cardinality(Counted(rs, quota)) \in Nat
         /\ Cardinality(CountedOfClass(rs, quota, class)) \in Nat
<1>1. Counted(rs, quota) \subseteq 1..Len(rs) /\ CountedOfClass(rs, quota, class) \subseteq 1..Len(rs)
  BY DEF Counted, CountedOfClass, activeReservations
<1>2. IsFiniteSet(1..Len(rs))
  BY FS_Interval
<1>3. IsFiniteSet(Counted(rs, quota)) /\ IsFiniteSet(CountedOfClass(rs, quota, class))
  BY <1>1, <1>2, FS_Subset
<1> QED
  BY <1>3, FS_CardinalityType

\* Fewer reservations that count, and the same commands: still within every quota.
LEMMA FewerIsWithin ==
  ASSUME NEW rs \in Seq(Reservation), NEW ss \in Seq(Reservation), Within(rs),
         DOMAIN ss = DOMAIN rs,
         \A i \in DOMAIN rs : ss[i].command = rs[i].command,
         activeReservations(ss) \subseteq activeReservations(rs)
  PROVE  Within(ss)
<1> SUFFICES ASSUME NEW quota \in Quotas, NEW class \in ResourceClass
             PROVE  /\ Cardinality(Counted(ss, quota)) <= quota.maxConcurrent
                    /\ Cardinality(CountedOfClass(ss, quota, class)) <= Limit(quota, class)
  BY WithinByQuotaAndClass, Zenon
<1>1. Counted(ss, quota) \subseteq Counted(rs, quota)
  BY DEF Counted, activeReservations
<1>2. CountedOfClass(ss, quota, class) \subseteq CountedOfClass(rs, quota, class)
  BY <1>1 DEF CountedOfClass, Counted, activeReservations
<1>3. Cardinality(Counted(ss, quota)) <= Cardinality(Counted(rs, quota))
  BY <1>1, CountedIsFinite, FS_Subset
<1>4. Cardinality(CountedOfClass(ss, quota, class)) <= Cardinality(CountedOfClass(rs, quota, class))
  BY <1>2, CountedIsFinite, FS_Subset
<1>5. /\ Cardinality(Counted(rs, quota)) <= quota.maxConcurrent
      /\ Cardinality(CountedOfClass(rs, quota, class)) <= Limit(quota, class)
  BY DEF Within
<1> QED
  BY <1>3, <1>4, <1>5, CountedIsFinite, LimitIsNumber

LEMMA ExpiredIsWithin ==
  ASSUME CapacityTypeOK, Within(reservations)
  PROVE  Expired(reservations) \in Seq(Reservation) /\ Within(Expired(reservations))
<1> DEFINE ss == Expired(reservations)
<1>1. ss \in Seq(Reservation) /\ DOMAIN ss = DOMAIN reservations
  <2>1. Len(reservations) \in Nat /\ DOMAIN reservations = 1..Len(reservations)
    BY LenProperties DEF CapacityTypeOK
  <2>2. ASSUME NEW i \in DOMAIN reservations
        PROVE  ss[i] \in Reservation
    <3>1. reservations[i] \in Reservation
      BY <2>1, ElementOfSeq DEF CapacityTypeOK
    <3>2. [reservations[i] EXCEPT !.releasedAt = now] \in Reservation
      BY <3>1 DEF CapacityTypeOK, Reservation
    <3> QED
      BY <3>1, <3>2 DEF Expired
  <2>3. ss \in [1..Len(reservations) -> Reservation]
    BY <2>1, <2>2 DEF Expired
  <2>4. DOMAIN ss = DOMAIN reservations
    BY DEF Expired
  <2> QED
    BY <2>1, <2>3, <2>4, SeqDef
<1>2. \A i \in DOMAIN reservations : ss[i].command = reservations[i].command
  BY DEF CapacityTypeOK, Expired, Reservation
<1>3. activeReservations(ss) \subseteq activeReservations(reservations)
  BY TimesAreNumbers DEF CapacityTypeOK, Expired, Reservation, activeReservations
<1> HIDE DEF ss
<1>4. Within(ss)
  BY <1>1, <1>2, <1>3, FewerIsWithin DEF CapacityTypeOK
<1> QED
  BY <1>1, <1>4 DEF ss

\* What a grant adds to the sets that are counted.
LEMMA GrantCounts ==
  ASSUME NEW rs \in Seq(Reservation), NEW c \in Commands, NEW quota, NEW class, now \in Nat
  PROVE  LET n == Len(rs) + 1
             counted == IF Covers(quota, c) THEN {n} ELSE {}
             ofClass == IF Covers(quota, c) /\ Request[c].resourceClass = class THEN {n} ELSE {}
         IN  /\ Append(rs, Granted(c)) \in Seq(Reservation)
             /\ Counted(Append(rs, Granted(c)), quota) = Counted(rs, quota) \cup counted
             /\ CountedOfClass(Append(rs, Granted(c)), quota, class) = CountedOfClass(rs, quota, class) \cup ofClass
<1> DEFINE ss == Append(rs, Granted(c))
           n == Len(rs) + 1
<1>1. Granted(c) \in Reservation /\ Granted(c).command = c /\ Granted(c).releasedAt = NotReleased
  BY TimesAreNumbers DEF Granted, Reservation
<1>2. /\ ss \in Seq(Reservation)
      /\ DOMAIN ss = DOMAIN rs \cup {n}
      /\ \A i \in DOMAIN rs : ss[i] = rs[i]
      /\ ss[n] = Granted(c)
      /\ n \notin DOMAIN rs
  BY <1>1
<1> HIDE DEF ss, n
<1>3. activeReservations(ss) = activeReservations(rs) \cup {n} /\ activeReservations(rs) \subseteq DOMAIN rs
  BY <1>1, <1>2 DEF activeReservations
<1>4. Counted(ss, quota) = Counted(rs, quota) \cup (IF Covers(quota, c) THEN {n} ELSE {})
  BY <1>1, <1>2, <1>3 DEF Counted
<1>5. CountedOfClass(ss, quota, class)
        = CountedOfClass(rs, quota, class) \cup (IF Covers(quota, c) /\ Request[c].resourceClass = class THEN {n} ELSE {})
  <2>1. Counted(rs, quota) \subseteq DOMAIN rs
    BY <1>3 DEF Counted
  <2> QED
    BY <1>1, <1>2, <1>4, <2>1 DEF CountedOfClass
<1> QED
  BY <1>2, <1>4, <1>5 DEF ss, n

LEMMA AtMostOneMore ==
  ASSUME NEW S, NEW x, IsFiniteSet(S)
  PROVE  Cardinality(S \cup {x}) <= Cardinality(S) + 1
<1>1. Cardinality(S \cup {x}) = IF x \in S THEN Cardinality(S) ELSE Cardinality(S) + 1
  BY FS_AddElement
<1>2. Cardinality(S) \in Nat
  BY FS_CardinalityType
<1> QED
  BY <1>1, <1>2

LEMMA GrantIsWithin ==
  ASSUME NEW rs \in Seq(Reservation), NEW c \in Commands, now \in Nat, Within(rs), Admits(rs, c)
  PROVE  Append(rs, Granted(c)) \in Seq(Reservation) /\ Within(Append(rs, Granted(c)))
<1> DEFINE ss == Append(rs, Granted(c))
<1>1. ss \in Seq(Reservation)
  BY GrantCounts
<1>2. ASSUME NEW quota \in Quotas, NEW class \in ResourceClass
      PROVE  /\ Cardinality(Counted(ss, quota)) <= quota.maxConcurrent
             /\ Cardinality(CountedOfClass(ss, quota, class)) <= Limit(quota, class)
  <2> DEFINE n == Len(rs) + 1
             all == Counted(rs, quota)
             own == CountedOfClass(rs, quota, class)
  <2>1. /\ Counted(ss, quota) = all \cup (IF Covers(quota, c) THEN {n} ELSE {})
        /\ CountedOfClass(ss, quota, class)
             = own \cup (IF Covers(quota, c) /\ Request[c].resourceClass = class THEN {n} ELSE {})
    BY GrantCounts
  <2>2. /\ IsFiniteSet(all) /\ Cardinality(all) \in Nat
        /\ IsFiniteSet(own) /\ Cardinality(own) \in Nat
    BY CountedIsFinite
  <2>3. quota.maxConcurrent \in Nat /\ Limit(quota, class) \in Nat
    BY LimitIsNumber
  <2>4. Cardinality(all) <= quota.maxConcurrent /\ Cardinality(own) <= Limit(quota, class)
    BY DEF Within
  <2>5. Covers(quota, c) =>
          /\ Cardinality(all) < quota.maxConcurrent
          /\ Request[c].resourceClass = class => Cardinality(own) < Limit(quota, class)
    BY DEF Admits, checkQuota
  <2> HIDE DEF ss, all, own
  <2>6. Cardinality(all \cup {n}) <= Cardinality(all) + 1 /\ Cardinality(own \cup {n}) <= Cardinality(own) + 1
    BY <2>2, AtMostOneMore
  <2>7. Cardinality(all \cup {n}) \in Nat /\ Cardinality(own \cup {n}) \in Nat
    BY <2>2, FS_AddElement, FS_CardinalityType
  <2> HIDE DEF n
  <2>8. Cardinality(Counted(ss, quota)) <= quota.maxConcurrent
    <3>1. CASE Covers(quota, c)
      BY <2>1, <2>2, <2>3, <2>5, <2>6, <2>7, <3>1
    <3>2. CASE ~ Covers(quota, c)
      <4>1. Counted(ss, quota) = all
        BY <2>1, <3>2
      <4> QED
        BY <2>4, <4>1
    <3> QED
      BY <3>1, <3>2
  <2>9. Cardinality(CountedOfClass(ss, quota, class)) <= Limit(quota, class)
    <3>1. CASE Covers(quota, c) /\ Request[c].resourceClass = class
      BY <2>1, <2>2, <2>3, <2>5, <2>6, <2>7, <3>1
    <3>2. CASE ~ (Covers(quota, c) /\ Request[c].resourceClass = class)
      <4>1. CountedOfClass(ss, quota, class) = own
        BY <2>1, <3>2
      <4> QED
        BY <2>4, <4>1
    <3> QED
      BY <3>1, <3>2
  <2> QED
    BY <2>8, <2>9
<1> HIDE DEF ss
<1>3. Within(ss)
  BY <1>2, WithinByQuotaAndClass, Zenon
<1> QED
  BY <1>1, <1>3 DEF ss

-----------------------------------------------------------------------------
LEMMA WithinIsQuota == Within(reservations) <=> WithinQuota
BY DEF Within, WithinQuota

LEMMA CapacityInitially == CapacityInit => CapacityTypeOK /\ WithinQuota
<1> SUFFICES ASSUME CapacityInit PROVE CapacityTypeOK /\ Within(reservations)
  BY WithinIsQuota
<1>1. CapacityTypeOK
  BY DEF CapacityInit, CapacityTypeOK
<1>2. \A quota, class : Counted(reservations, quota) = {} /\ CountedOfClass(reservations, quota, class) = {}
  BY DEF CapacityInit, Counted, CountedOfClass, activeReservations
<1>3. Cardinality({}) = 0
  BY FS_EmptySet
<1>4. Within(reservations)
  <2> SUFFICES ASSUME NEW quota \in Quotas, NEW class \in ResourceClass
               PROVE  /\ Cardinality(Counted(reservations, quota)) <= quota.maxConcurrent
                      /\ Cardinality(CountedOfClass(reservations, quota, class)) <= Limit(quota, class)
    BY WithinByQuotaAndClass, Zenon
  <2>1. 0 <= quota.maxConcurrent /\ 0 <= Limit(quota, class)
    BY LimitIsNumber
  <2> QED
    BY <1>2, <1>3, <2>1
<1> QED
  BY <1>1, <1>4

LEMMA CapacityStep ==
  CapacityTypeOK /\ WithinQuota /\ [CapacityNext \/ Tick]_capacityVars => CapacityTypeOK' /\ WithinQuota'
<1> SUFFICES ASSUME CapacityTypeOK, WithinQuota, [CapacityNext \/ Tick]_capacityVars
             PROVE  CapacityTypeOK' /\ WithinQuota'
  OBVIOUS
<1>0. /\ Within(reservations)
      /\ WithinQuota' <=> Within(reservations')
  BY WithinIsQuota DEF Within, WithinQuota, Counted, CountedOfClass, activeReservations
<1>1. Expired(reservations) \in Seq(Reservation) /\ Within(Expired(reservations))
  BY <1>0, ExpiredIsWithin
<1>2. ASSUME NEW c \in Commands, reserve(c)
      PROVE  reservations' \in Seq(Reservation) /\ Within(reservations') /\ now' \in Nat
  <2> DEFINE rs == Expired(reservations)
  <2>1. now' = now /\ reservations' = IF Admits(rs, c) THEN Append(rs, Granted(c)) ELSE rs
    BY <1>2 DEF reserve
  <2>2. now \in Nat /\ rs \in Seq(Reservation) /\ Within(rs)
    BY <1>1 DEF CapacityTypeOK
  <2> HIDE DEF rs
  <2>3. CASE Admits(rs, c)
    <3>1. Append(rs, Granted(c)) \in Seq(Reservation) /\ Within(Append(rs, Granted(c)))
      BY <2>2, <2>3, GrantIsWithin
    <3> QED
      BY <2>1, <2>2, <2>3, <3>1
  <2>4. CASE ~ Admits(rs, c)
    BY <2>1, <2>2, <2>4
  <2> QED
    BY <2>3, <2>4
<1>3. ASSUME NEW i \in DOMAIN reservations, release(i)
      PROVE  reservations' \in Seq(Reservation) /\ Within(reservations') /\ now' \in Nat
  <2>1. now' = now /\ reservations' = [reservations EXCEPT ![i].releasedAt = now]
    BY <1>3 DEF release
  <2>2. i \in 1..Len(reservations) /\ reservations[i] \in Reservation
    BY LenProperties, ElementOfSeq DEF CapacityTypeOK
  <2>3. [reservations[i] EXCEPT !.releasedAt = now] \in Reservation
    BY <2>2 DEF CapacityTypeOK, Reservation
  <2>4. reservations' = [reservations EXCEPT ![i] = [reservations[i] EXCEPT !.releasedAt = now]]
    BY <2>1, <2>2
  <2>5. /\ reservations' \in Seq(Reservation)
        /\ DOMAIN reservations' = DOMAIN reservations
        /\ \A j \in DOMAIN reservations : reservations'[j].command = reservations[j].command
    <3>1. reservations' \in Seq(Reservation)
      BY <2>2, <2>3, <2>4, ExceptSeq DEF CapacityTypeOK
    <3>2. DOMAIN reservations' = DOMAIN reservations
      BY <2>1
    <3>3. \A j \in DOMAIN reservations : reservations'[j].command = reservations[j].command
      BY <2>2, <2>4 DEF Reservation
    <3> QED
      BY <3>1, <3>2, <3>3
  <2>6. activeReservations(reservations') \subseteq activeReservations(reservations)
    BY <2>1, TimesAreNumbers DEF CapacityTypeOK, Reservation, activeReservations
  <2> QED
    BY <1>0, <2>1, <2>5, <2>6, FewerIsWithin DEF CapacityTypeOK
<1>4. CASE expireReservations
  BY <1>0, <1>1, <1>4 DEF expireReservations, CapacityTypeOK
<1>5. ASSUME NEW t \in 1..MaxTime, addOverloadSignal(t)
      PROVE  reservations' = reservations /\ now' = now
  BY <1>5 DEF addOverloadSignal
<1>6. CASE Tick
  BY <1>0, <1>6 DEF Tick, CapacityTypeOK
<1>7. CASE UNCHANGED capacityVars
  BY <1>0, <1>7 DEF capacityVars, CapacityTypeOK
<1> QED
  BY <1>0, <1>2, <1>3, <1>4, <1>5, <1>6, <1>7 DEF CapacityNext, CapacityTypeOK

\* The reservations that count stay within every quota, whatever the commands, the quotas and the order in
\* which they are asked for, given back and found expired.
THEOREM QuotasHold == CapacitySpec => []WithinQuota
<1> QED
  BY CapacityInitially, CapacityStep, PTL DEF CapacitySpec

-----------------------------------------------------------------------------
\* Where a request for a sandbox can stand, as far as the answer is concerned.
StartedInv ==
  /\ provision \in [Provisions -> {"asked", "list_networks", "create_network", "find", "create", "locate", "start",
                                   "answered", "failed"}]
  /\ StartedSandboxes

LEMMA StartedStep == StartedInv /\ [RuntimeNext]_<<capacityVars, runtimeVars>> => StartedInv'
<1> SUFFICES ASSUME StartedInv, [RuntimeNext]_<<capacityVars, runtimeVars>> PROVE StartedInv'
  OBVIOUS
<1> USE DEF StartedInv, StartedSandboxes, Exists, StateOf, OnlyGoes, Goes, dockerVars
<1>1. ASSUME UNCHANGED <<containers, provision>> PROVE StartedInv'
  BY <1>1
<1>2. ASSUME NEW p \in Provisions, Provision(p) PROVE StartedInv'
  BY <1>2 DEF Provision
<1>3. ASSUME NEW p \in Provisions, ListNetworks(p) PROVE StartedInv'
  BY <1>3 DEF ListNetworks
<1>4. ASSUME NEW p \in Provisions, CreateNetwork(p) PROVE StartedInv'
  BY <1>4 DEF CreateNetwork
<1>5. ASSUME NEW p \in Provisions, Find(p) PROVE StartedInv'
  BY <1>5 DEF Find
<1>6. ASSUME NEW p \in Provisions, Create(p) PROVE StartedInv'
  BY <1>6 DEF Create, Put
<1>7. ASSUME NEW p \in Provisions, Locate(p) PROVE StartedInv'
  BY <1>7 DEF Locate
<1>8. ASSUME NEW p \in Provisions, Start(p) PROVE StartedInv'
  BY <1>8 DEF Start
<1>9. ASSUME NEW p \in Provisions, CallFails(p) PROVE StartedInv'
  BY <1>9 DEF CallFails
<1>10. ASSUME NEW p \in Provisions, AnswerLost(p) PROVE StartedInv'
  BY <1>10 DEF AnswerLost, Put
<1>11. ASSUME NEW name \in DOMAIN containers, Stop(name) PROVE StartedInv'
  BY <1>11 DEF Stop
<1>12. ASSUME RuntimeRestarts PROVE StartedInv'
  BY <1>12 DEF RuntimeRestarts, Calling
<1> QED
  BY <1>1, <1>2, <1>3, <1>4, <1>5, <1>6, <1>7, <1>8, <1>9, <1>10, <1>11, <1>12
  DEF RuntimeNext, SandboxStep, FileStep, CommandStep, planRuntimeCommand, runtimeVars, capacityVars, Read, Write

\* A sandbox that was answered for was started, however the provisions of it interleave and fail.
THEOREM SandboxesAreStarted == RuntimeSpec => []StartedSandboxes
<1>1. RuntimeInit => StartedInv
  BY DEF RuntimeInit, StartedInv, StartedSandboxes
<1>2. StartedInv => StartedSandboxes
  BY DEF StartedInv
<1> QED  BY <1>1, <1>2, StartedStep, PTL DEF RuntimeSpec

-----------------------------------------------------------------------------
(* Leases. *)

ReadRecord == [id : Nat \X Nat, path : Paths, at : Nat, written : Seq(Nat)]

\* A lease names its reader by the time and the sequence number it was given; while it is held, nothing
\* was written with it.
LeaseOf(r, leases, next, time) ==
  /\ r.id[1] = r.at /\ r.at <= time
  /\ r.at = time => r.id[2] < next
  /\ Len(r.written) <= 1
  /\ \A j \in DOMAIN r.written : r.written[j] < r.at + LeaseTtl
  /\ r.id \in DOMAIN leases => r.written = <<>> /\ leases[r.id].expiresAt = r.at + LeaseTtl

LeaseInv ==
  /\ now \in Nat /\ nextFileLeaseSequence \in Nat
  /\ reads \in Seq(ReadRecord)
  /\ \A k \in DOMAIN reads : LeaseOf(reads[k], fileLeases, nextFileLeaseSequence, now)
  /\ \A i, k \in DOMAIN reads : reads[i].id = reads[k].id => i = k

\* What is known of a reader stays, as long as no lease of its id is given and the sequence goes on.
LEMMA LeaseStays ==
  ASSUME NEW r \in ReadRecord, NEW leases, NEW after, NEW n \in Nat, NEW m \in Nat, NEW time \in Nat,
         LeaseOf(r, leases, n, time), n <= m,
         r.id \in DOMAIN after => r.id \in DOMAIN leases /\ after[r.id] = leases[r.id]
  PROVE  LeaseOf(r, after, m, time)
BY DEF LeaseOf, ReadRecord

LEMMA ReadKeepsLeases ==
  ASSUME LeaseInv, NEW path \in Paths, Read(path), UNCHANGED now
  PROVE  LeaseInv'
<1> DEFINE n   == nextFileLeaseSequence
           id  == LeaseId(now, n)
           new == [id |-> id, path |-> path, at |-> now, written |-> <<>>]
<1>1. /\ fileLeases' = Put(pruneExpiredFileLeases(fileLeases), id, [path |-> path, expiresAt |-> now + LeaseTtl])
      /\ nextFileLeaseSequence' = n + 1
      /\ reads' = Append(reads, new)
      /\ now' = now
  BY DEF Read
<1>2. id = <<now, n>> /\ id \in Nat \X Nat /\ new \in ReadRecord /\ now \in Nat /\ n \in Nat
  BY DEF LeaseId, LeaseInv, ReadRecord
<1>3. ASSUME NEW k \in DOMAIN reads
      PROVE  /\ LeaseOf(reads[k], fileLeases, n, now)
             /\ reads[k] \in ReadRecord /\ reads[k].id # id
  <2>1. reads[k] \in ReadRecord /\ LeaseOf(reads[k], fileLeases, n, now)
    BY DEF LeaseInv
  <2> QED  BY <2>1, <1>2 DEF LeaseOf, ReadRecord
<1>4. /\ id \in DOMAIN fileLeases' /\ fileLeases'[id].expiresAt = now + LeaseTtl
      /\ \A other : other # id /\ other \in DOMAIN fileLeases' =>
           other \in DOMAIN fileLeases /\ fileLeases'[other] = fileLeases[other]
  BY <1>1 DEF Put, pruneExpiredFileLeases
<1>5. /\ reads' \in Seq(ReadRecord) /\ DOMAIN reads' = DOMAIN reads \cup {Len(reads) + 1}
      /\ \A k \in DOMAIN reads : reads'[k] = reads[k]
      /\ reads'[Len(reads) + 1] = new
      /\ Len(reads) + 1 \notin DOMAIN reads
  BY <1>1, <1>2 DEF LeaseInv
<1>6. new.id = id /\ new.at = now /\ new.written = <<>>
  OBVIOUS
<1>7. LeaseOf(new, fileLeases', n + 1, now)
  <2>1. id[1] = now /\ id[2] = n  BY <1>2
  <2> HIDE DEF id, new
  <2> QED  BY <1>2, <1>4, <1>6, <2>1, LeaseTtlIsNumber DEF LeaseOf
<1> HIDE DEF id, new
<1>8. ASSUME NEW k \in DOMAIN reads  PROVE LeaseOf(reads[k], fileLeases', n + 1, now)
  BY <1>2, <1>3, <1>4, LeaseStays
<1>9. \A i, k \in DOMAIN reads' : reads'[i].id = reads'[k].id => i = k
  BY <1>3, <1>5, <1>6 DEF LeaseInv
<1>10. \A k \in DOMAIN reads' : LeaseOf(reads'[k], fileLeases', n + 1, now)
  BY <1>5, <1>7, <1>8
<1>11. n + 1 \in Nat  BY <1>2
<1> HIDE DEF n
<1> QED  BY <1>1, <1>2, <1>5, <1>9, <1>10, <1>11 DEF LeaseInv

LEMMA WriteKeepsLeases ==
  ASSUME LeaseInv, NEW k \in DOMAIN reads, Write(k), UNCHANGED now
  PROVE  LeaseInv'
<1> DEFINE r    == reads[k]
           then == Append(r.written, now)
           n    == nextFileLeaseSequence
<1>1. /\ r.id \in DOMAIN fileLeases /\ fileLeases[r.id].expiresAt > now
      /\ fileLeases' = [id \in DOMAIN fileLeases \ {r.id} |-> fileLeases[id]]
      /\ reads' = [reads EXCEPT ![k].written = then]
      /\ nextFileLeaseSequence' = n /\ now' = now
  BY DEF Write, assertWriteFileAllowed
<1>2. r \in ReadRecord /\ LeaseOf(r, fileLeases, n, now) /\ now \in Nat /\ n \in Nat
  BY DEF LeaseInv
<1>3. r.written = <<>> /\ now < r.at + LeaseTtl
  BY <1>1, <1>2, LeaseTtlIsNumber DEF LeaseOf, ReadRecord
<1>4. then \in Seq(Nat) /\ Len(then) = 1 /\ \A j \in DOMAIN then : then[j] = now
  BY <1>2, <1>3
<1> DEFINE new == [r EXCEPT !.written = then]
<1>5. new \in ReadRecord /\ new.id = r.id /\ new.at = r.at /\ new.written = then
  <2> HIDE DEF r, then
  <2> QED  BY <1>2, <1>4 DEF ReadRecord
<1>6. reads' = [reads EXCEPT ![k] = new]
  BY <1>1
<1> HIDE DEF r, then, new
<1>7. /\ reads' \in Seq(ReadRecord) /\ DOMAIN reads' = DOMAIN reads /\ reads'[k] = new
      /\ \A i \in DOMAIN reads : i # k => reads'[i] = reads[i]
  BY <1>5, <1>6 DEF LeaseInv
<1>8. \A i \in DOMAIN reads : i # k => reads[i].id # r.id
  BY DEF LeaseInv, r
<1>9. r.id \notin DOMAIN fileLeases'
      /\ \A id \in DOMAIN fileLeases' : id \in DOMAIN fileLeases /\ fileLeases'[id] = fileLeases[id]
  BY <1>1
<1>10. LeaseOf(new, fileLeases', n, now)
  <2>1. r.id[1] = r.at /\ r.at <= now /\ (r.at = now => r.id[2] < n)
    BY <1>2 DEF LeaseOf
  <2>2. Len(new.written) <= 1 /\ \A j \in DOMAIN new.written : new.written[j] < new.at + LeaseTtl
    <3>1. Len(new.written) = 1  BY <1>4, <1>5
    <3>2. ASSUME NEW j \in DOMAIN then PROVE then[j] < r.at + LeaseTtl
      BY <1>3, <1>4
    <3> QED  BY <1>5, <3>1, <3>2, 1 <= 1
  <2>3. new.id \notin DOMAIN fileLeases'
    BY <1>5, <1>9
  <2> QED  BY <1>5, <2>1, <2>2, <2>3 DEF LeaseOf
<1>11. ASSUME NEW i \in DOMAIN reads, i # k PROVE LeaseOf(reads[i], fileLeases', n, now)
  <2>1. reads[i] \in ReadRecord /\ LeaseOf(reads[i], fileLeases, n, now)
    BY DEF LeaseInv
  <2> QED  BY <1>2, <1>9, <2>1, LeaseStays
<1>12. \A i, j \in DOMAIN reads' : reads'[i].id = reads'[j].id => i = j
  <2>1. \A i \in DOMAIN reads : reads'[i].id = reads[i].id
    BY <1>5, <1>7 DEF r
  <2> QED  BY <1>7, <2>1 DEF LeaseInv
<1> QED  BY <1>1, <1>2, <1>7, <1>10, <1>11, <1>12 DEF LeaseInv

LEMMA LeaseStep == LeaseInv /\ [RuntimeNext]_<<capacityVars, runtimeVars>> => LeaseInv'
<1> SUFFICES ASSUME LeaseInv, [RuntimeNext]_<<capacityVars, runtimeVars>> PROVE LeaseInv'
  OBVIOUS
<1>1. ASSUME NEW k \in DOMAIN reads, NEW m \in Nat
      PROVE  /\ LeaseOf(reads[k], fileLeases, nextFileLeaseSequence, now + 1)
             /\ LeaseOf(reads[k], <<>>, m, now + 1)
  <2>1. /\ reads[k] \in ReadRecord /\ LeaseOf(reads[k], fileLeases, nextFileLeaseSequence, now)
        /\ now \in Nat
    BY DEF LeaseInv
  <2> QED  BY <2>1 DEF LeaseOf, ReadRecord
<1>2. ASSUME UNCHANGED leaseVars, now' \in {now, now + 1} PROVE LeaseInv'
  BY <1>1, <1>2 DEF LeaseInv, leaseVars
<1>3. ASSUME FileStep, UNCHANGED now PROVE LeaseInv'
  BY <1>3, ReadKeepsLeases, WriteKeepsLeases DEF FileStep
<1>4. ASSUME RuntimeRestarts PROVE LeaseInv'
  BY <1>1, <1>4 DEF RuntimeRestarts, LeaseInv
<1>5. ASSUME CapacityNext \/ Tick PROVE now' \in {now, now + 1}
  BY <1>5 DEF CapacityNext, Tick, reserve, release, expireReservations, addOverloadSignal
<1> QED
  BY <1>2, <1>3, <1>4, <1>5
  DEF RuntimeNext, SandboxStep, CommandStep, planRuntimeCommand, runtimeVars, capacityVars

LEMMA LeasesStart == RuntimeInit /\ CapacityInit => LeaseInv
BY DEF RuntimeInit, CapacityInit, LeaseInv

LEMMA LeasesAreUsedOnce == LeaseInv => LeaseWritesOnce
<1> SUFFICES ASSUME LeaseInv, NEW k \in DOMAIN reads
             PROVE  /\ Len(reads[k].written) <= 1
                    /\ \A j \in DOMAIN reads[k].written : reads[k].written[j] < reads[k].at + LeaseTtl
  BY DEF LeaseWritesOnce
<1> QED  BY DEF LeaseInv, LeaseOf

\* A reader writes at most once, and only while the lease it was given lasts.
THEOREM LeasesWriteOnce == RuntimeSpec => []LeaseWritesOnce
<1> QED  BY LeasesStart, LeaseStep, LeasesAreUsedOnce, PTL DEF RuntimeSpec

-----------------------------------------------------------------------------
(* Plans. *)

\* A plan shows the command's own reservation, which stays where it is, released or not.
PlannedInv ==
  /\ CapacityTypeOK
  /\ WithinQuota
  /\ \A plan \in planned :
       /\ plan.reservation \in DOMAIN reservations
       /\ reservations[plan.reservation].command = plan.command

\* No step of the controller takes a reservation out, or gives it to another command.
LEMMA ReservationsStay ==
  ASSUME CapacityTypeOK, [CapacityNext \/ Tick]_capacityVars
  PROVE  \A i \in DOMAIN reservations : i \in DOMAIN reservations' /\ reservations'[i].command = reservations[i].command
<1> DEFINE rs == Expired(reservations)
<1>1. \A i \in DOMAIN reservations : reservations[i] \in Reservation
  BY DEF CapacityTypeOK
<1>2. rs \in Seq(Reservation) /\ DOMAIN rs = DOMAIN reservations /\ \A i \in DOMAIN reservations : rs[i].command = reservations[i].command
  <2>1. DOMAIN rs = DOMAIN reservations /\ \A i \in DOMAIN reservations : rs[i].command = reservations[i].command
    BY <1>1 DEF Expired, Reservation
  <2>2. \A i \in DOMAIN reservations : rs[i] \in Reservation
    BY <1>1 DEF Expired, Reservation, CapacityTypeOK
  <2>3. DOMAIN reservations = 1..Len(reservations) /\ Len(reservations) \in Nat
    BY DEF CapacityTypeOK
  <2> QED  BY <2>1, <2>2, <2>3, IsASeq DEF Expired
<1>3. ASSUME NEW c \in Commands, reserve(c)
      PROVE  \A i \in DOMAIN reservations : i \in DOMAIN reservations' /\ reservations'[i].command = reservations[i].command
  <2>1. reservations' = rs \/ reservations' = Append(rs, Granted(c))
    BY <1>3 DEF reserve
  <2> HIDE DEF rs
  <2> QED  BY <1>2, <2>1
<1>4. ASSUME NEW i \in DOMAIN reservations, release(i)
      PROVE  \A j \in DOMAIN reservations : j \in DOMAIN reservations' /\ reservations'[j].command = reservations[j].command
  <2>1. reservations' = [reservations EXCEPT ![i].releasedAt = now]
    BY <1>4 DEF release
  <2> QED  BY <1>1, <2>1 DEF Reservation
<1>5. ASSUME expireReservations PROVE reservations' = rs
  BY <1>5 DEF expireReservations
<1>6. ASSUME Tick \/ UNCHANGED capacityVars \/ \E t \in 1..MaxTime : addOverloadSignal(t)
      PROVE  reservations' = reservations
  BY <1>6 DEF Tick, capacityVars, addOverloadSignal
<1> HIDE DEF rs
<1> QED  BY <1>2, <1>3, <1>4, <1>5, <1>6 DEF CapacityNext

LEMMA PlansStart == CapacityInit /\ RuntimeInit => PlannedInv
BY CapacityInitially DEF RuntimeInit, PlannedInv

LEMMA PlannedStep == PlannedInv /\ [RuntimeNext]_<<capacityVars, runtimeVars>> => PlannedInv'
<1> SUFFICES ASSUME PlannedInv, [RuntimeNext]_<<capacityVars, runtimeVars>> PROVE PlannedInv'
  OBVIOUS
<1>1. ASSUME [CapacityNext \/ Tick]_capacityVars, UNCHANGED planned PROVE PlannedInv'
  <2>1. CapacityTypeOK' /\ WithinQuota'
    BY <1>1, CapacityStep DEF PlannedInv
  <2>2. \A i \in DOMAIN reservations : i \in DOMAIN reservations' /\ reservations'[i].command = reservations[i].command
    BY <1>1, ReservationsStay DEF PlannedInv
  <2> QED  BY <1>1, <2>1, <2>2 DEF PlannedInv
<1>2. ASSUME CommandStep, UNCHANGED capacityVars PROVE PlannedInv'
  <2>1. PICK c \in Commands, i \in DOMAIN reservations : planRuntimeCommand(c, i)
    BY <1>2 DEF CommandStep
  <2>2. /\ planned' = planned \cup {[command |-> c, reservation |-> i]}
        /\ reservations[i].command = c
    BY <2>1 DEF planRuntimeCommand, Matches
  <2>3. CapacityTypeOK' /\ WithinQuota'
    BY <1>2, CapacityStep DEF PlannedInv
  <2>4. reservations' = reservations
    BY <1>2 DEF capacityVars
  <2> QED  BY <2>2, <2>3, <2>4 DEF PlannedInv
<1>3. ASSUME RuntimeRestarts PROVE PlannedInv'
  <2>1. now' = now + 1 /\ reservations' = reservations /\ planned' = planned
    BY <1>3 DEF RuntimeRestarts
  <2>2. WithinQuota'
    BY <2>1 DEF PlannedInv, WithinQuota, Counted, CountedOfClass, activeReservations
  <2> QED  BY <2>1, <2>2 DEF PlannedInv, CapacityTypeOK
<1> QED
  BY <1>1, <1>2, <1>3 DEF RuntimeNext, SandboxStep, FileStep, runtimeVars

\* What was planned on one reservation is one command: the commands are no more than the reservations.
LEMMA PlansAreWithinQuota == PlannedInv => PlannedWithinQuota
<1> SUFFICES ASSUME PlannedInv, NEW quota \in Quotas, NEW class \in HEAVY_RESOURCE_CLASSES
             PROVE  Cardinality({c \in Occupying : Covers(quota, c) /\ Request[c].resourceClass = class}) <= Limit(quota, class)
  BY DEF PlannedWithinQuota
<1> DEFINE C == {c \in Occupying : Covers(quota, c) /\ Request[c].resourceClass = class}
           S == CountedOfClass(reservations, quota, class)
           f == [i \in S |-> reservations[i].command]
           T == {f[i] : i \in S}
<1>1. C \subseteq T
  <2> SUFFICES ASSUME NEW c \in C PROVE c \in T
    OBVIOUS
  <2>1. PICK plan \in planned : plan.command = c /\ reservations[plan.reservation].releasedAt = NotReleased
    BY DEF Occupying
  <2>2. plan.reservation \in DOMAIN reservations /\ reservations[plan.reservation].command = c
    BY <2>1 DEF PlannedInv
  <2>3. plan.reservation \in S
    BY <2>1, <2>2 DEF CountedOfClass, Counted, activeReservations
  <2> QED  BY <2>2, <2>3
<1>2. IsFiniteSet(S) /\ Cardinality(S) \in Nat /\ Cardinality(S) <= Limit(quota, class) /\ Limit(quota, class) \in Nat
  <2>1. class \in ResourceClass  BY DEF ResourceClass
  <2> QED  BY <2>1, CountedIsFinite, LimitIsNumber DEF PlannedInv, CapacityTypeOK, WithinQuota
<1>3. f \in Surjection(S, T)
  BY DEF Surjection
<1> HIDE DEF C, S, f, T
<1>4. IsFiniteSet(T) /\ Cardinality(T) <= Cardinality(S)
  BY <1>2, <1>3, FS_Surjection
<1>5. IsFiniteSet(C) /\ Cardinality(C) <= Cardinality(T)
  BY <1>1, <1>4, FS_Subset
<1>6. Cardinality(C) \in Nat /\ Cardinality(T) \in Nat
  BY <1>4, <1>5, FS_CardinalityType
<1>7. Cardinality(C) <= Limit(quota, class)
  BY <1>2, <1>4, <1>5, <1>6
<1> QED  BY <1>7 DEF C

\* The heavy commands planned on capacity that nobody gave back are within every quota.
THEOREM PlansStayWithinQuota == RuntimeSpec => []PlannedWithinQuota
<1> QED  BY PlansStart, PlannedStep, PlansAreWithinQuota, PTL DEF RuntimeSpec

-----------------------------------------------------------------------------
(* Method policies. *)

Policy == [method : STRING, action : MethodPolicyAction]

\* A registration changes no action that is there, the one that conflicts half way included.
LEMMA PoliciesExtend ==
  ASSUME NEW exact, NEW policies \in Seq(Policy)
  PROVE  /\ DOMAIN exact \subseteq DOMAIN Policies(exact, policies)
         /\ \A method \in DOMAIN exact : Policies(exact, policies)[method] = exact[method]
         /\ \A method \in DOMAIN Policies(exact, policies) \ DOMAIN exact :
              Policies(exact, policies)[method] \in MethodPolicyAction
<1> DEFINE taken == Entered(exact, policies)
           after == With(exact, policies, taken)
<1>1. taken \subseteq DOMAIN policies
  BY DEF Entered
<1>2. ASSUME NEW i \in taken, policies[i].method \in DOMAIN exact
      PROVE  exact[policies[i].method] = policies[i].action
  <2>1. i \in 1..i  BY <1>1
  <2> QED  BY <1>2, <2>1 DEF Entered, Agrees
<1>3. \A i \in taken : policies[i].action \in MethodPolicyAction
  <2> HIDE DEF taken
  <2>1. \A i \in DOMAIN policies : policies[i] \in Policy
    OBVIOUS
  <2> QED  BY <1>1, <2>1 DEF Policy
<1> HIDE DEF taken
<1>4. DOMAIN after = DOMAIN exact \cup {policies[i].method : i \in taken}
  BY DEF With
<1>5. ASSUME NEW method \in DOMAIN after, NEW i \in taken, policies[i].method = method
      PROVE  \E j \in taken : policies[j].method = method /\ after[method] = policies[j].action
  BY <1>5 DEF With
<1>6. ASSUME NEW method \in DOMAIN exact, ~ \E i \in taken : policies[i].method = method
      PROVE  after[method] = exact[method]
  BY <1>4, <1>6 DEF With
<1> HIDE DEF after
<1>7. \A method \in DOMAIN exact : after[method] = exact[method]
  BY <1>2, <1>4, <1>5, <1>6
<1>8. \A method \in DOMAIN after \ DOMAIN exact : after[method] \in MethodPolicyAction
  BY <1>3, <1>4, <1>5
<1> QED  BY <1>4, <1>7, <1>8 DEF Policies, after, taken

\* What the platform denies is denied by name, and what the schema names has a policy.
PolicyInv ==
  /\ \A method \in DeniedMethods : method \in DOMAIN exactPolicies /\ exactPolicies[method] = "deny"
  /\ SchemaStaysCovered

LEMMA ClassifiedStays ==
  ASSUME NEW exact, NEW policies \in Seq(Policy), NEW method, PolicyOf(exact, method) # Unclassified
  PROVE  PolicyOf(Policies(exact, policies), method) # Unclassified
<1>1. \A action \in MethodPolicyAction : action # Unclassified
  BY DEF MethodPolicyAction, Unclassified
<1> QED  BY <1>1, PoliciesExtend DEF PolicyOf

\* The baseline names a policy, or has a matcher, for every official method.
LEMMA BaselineIsCovered ==
  /\ \A method \in DeniedMethods : method \in DOMAIN EXACT_POLICIES /\ EXACT_POLICIES[method] = "deny"
  /\ \A method \in OFFICIAL_DOC_METHODS : PolicyOf(EXACT_POLICIES, method) # Unclassified
<1>1. \A method \in DeniedMethods : method \in DOMAIN EXACT_POLICIES /\ EXACT_POLICIES[method] = "deny"
  BY DEF EXACT_POLICIES
<1>2. \A method \in DOMAIN EXACT_POLICIES : EXACT_POLICIES[method] # Unclassified
  BY DEF EXACT_POLICIES, Unclassified
<1>3. \A method \in workspaceSideEffect \cup approvalRelay \cup turnControl \cup threadControl \cup stableRead
         \cup notification \cup interactiveExternalAccess : Matched(method) # Unclassified
  BY DEF Matched, Unclassified
<1> QED  BY <1>1, <1>2, <1>3 DEF OFFICIAL_DOC_METHODS, PolicyOf

LEMMA PolicyStart ==
  ASSUME exactPolicies = Baseline.policies, artifact = Baseline.schema
  PROVE  PolicyInv
BY BaselineIsCovered DEF Baseline, officialDocsSchema, PolicyInv, SchemaStaysCovered, classify

LEMMA PolicyStep == PolicyInv /\ [AppServerNext]_appServerVars => PolicyInv'
<1> SUFFICES ASSUME PolicyInv, [AppServerNext]_appServerVars PROVE PolicyInv'
  OBVIOUS
<1>1. ASSUME NEW module \in Modules, registerModule(module) PROVE PolicyInv'
  <2>1. module.policies \in Seq(Policy)
    BY ModulesGivePolicies DEF Policy
  <2>2. exactPolicies' = Policies(exactPolicies, module.policies) /\ artifact' = artifact
    BY <1>1 DEF registerModule
  <2>3. \A method \in DeniedMethods : method \in DOMAIN exactPolicies' /\ exactPolicies'[method] = "deny"
    BY <2>1, <2>2, PoliciesExtend DEF PolicyInv
  <2>4. SchemaStaysCovered'
    BY <2>1, <2>2, ClassifiedStays DEF PolicyInv, SchemaStaysCovered, classify
  <2> QED  BY <2>3, <2>4 DEF PolicyInv
<1>2. ASSUME NEW schema \in Schemas, register(schema) PROVE PolicyInv'
  BY <1>2 DEF register, PolicyInv, SchemaStaysCovered, classify
<1>3. ASSUME AdapterRestarts PROVE PolicyInv'
  <2>1. exactPolicies' = EXACT_POLICIES /\ artifact'.methods = OFFICIAL_DOC_METHODS
    BY <1>3 DEF AdapterRestarts, Baseline, officialDocsSchema
  <2> QED  BY <2>1, BaselineIsCovered DEF PolicyInv, SchemaStaysCovered, classify
<1>4. ASSUME UNCHANGED registryVars PROVE PolicyInv'
  BY <1>4 DEF registryVars, PolicyInv, SchemaStaysCovered, classify
<1> QED
  BY <1>1, <1>2, <1>3, <1>4 DEF AppServerNext, ClientStep, appServerVars

LEMMA PolicyInvariant == AppServerSpec => []PolicyInv
<1>1. AppServerInit => PolicyInv
  BY PolicyStart DEF AppServerInit
<1> QED  BY <1>1, PolicyStep, PTL DEF AppServerSpec

\* A method the platform denies is denied by every adapter, whatever modules are registered.
THEOREM DenialsHold == AppServerSpec => []DenialsStay
<1>1. PolicyInv => DenialsStay
  BY DEF PolicyInv, DenialsStay, classify, PolicyOf
<1> QED  BY <1>1, PolicyInvariant, PTL

\* Every method of the current schema has a policy, whatever modules and schemas come after it.
THEOREM SchemaIsCovered == AppServerSpec => []SchemaStaysCovered
<1>1. PolicyInv => SchemaStaysCovered
  BY DEF PolicyInv
<1> QED  BY <1>1, PolicyInvariant, PTL

-----------------------------------------------------------------------------
(* The handshake. *)

Message == [method : Methods \cup {"initialize", "initialized"}, kind : {"request", "notification"}]

GivenIn(method, w, n) == \E k \in 1..n : w[k].method = method

OrderedAt(w, i) ==
  /\ w[i].method = "initialized" => GivenIn("initialize", w, i - 1)
  /\ w[i].method \notin {"initialize", "initialized"} => GivenIn("initialized", w, i - 1)

\* What the gate has accepted is on the wire.
HandshakeInv ==
  /\ wire \in Seq(Message)
  /\ initializing \in [Callers -> {"no", "requested", "notified", "done", "failed"}]
  /\ \A c \in Callers : initializing[c] = "requested" => initializeAccepted
  /\ initializeAccepted => GivenIn("initialize", wire, Len(wire))
  /\ initializedAccepted => GivenIn("initialized", wire, Len(wire))
  /\ \A i \in DOMAIN wire : OrderedAt(wire, i)

\* A method that passed the gate may be given to the transport.
LEMMA GivenAfterGate ==
  ASSUME HandshakeInv, NEW message \in Message, observe(message.method), Gives(message)
  PROVE  /\ wire' \in Seq(Message)
         /\ initializeAccepted' => GivenIn("initialize", wire', Len(wire'))
         /\ initializedAccepted' => GivenIn("initialized", wire', Len(wire'))
         /\ \A i \in DOMAIN wire' : OrderedAt(wire', i)
<1> DEFINE n == Len(wire)
<1>1. /\ wire' \in Seq(Message)
      /\ Len(wire') = n + 1 /\ n \in Nat /\ wire'[n + 1] = message
      /\ \A i \in 1..n : wire'[i] = wire[i]
      /\ DOMAIN wire = 1..n /\ DOMAIN wire' = 1..(n + 1)
  BY DEF Gives, HandshakeInv
<1> HIDE DEF n
<1>2. ASSUME NEW m \in 0..n, NEW k \in 0..(n + 1), m <= k, NEW method, GivenIn(method, wire, m)
      PROVE  GivenIn(method, wire', k)
  <2>1. \A i \in 1..m : i \in 1..k /\ wire'[i] = wire[i]
    BY <1>1, <1>2
  <2> QED  BY <1>2, <2>1 DEF GivenIn
<1>3. /\ initializeAccepted => GivenIn("initialize", wire, n)
      /\ initializedAccepted => GivenIn("initialized", wire, n)
      /\ \A i \in 1..n : OrderedAt(wire, i)
  BY <1>1 DEF HandshakeInv, n
<1>4. GivenIn(message.method, wire', n + 1)
  BY <1>1 DEF GivenIn
<1>5. /\ initializeAccepted' => initializeAccepted \/ message.method = "initialize"
      /\ initializedAccepted' => initializedAccepted \/ message.method = "initialized"
      /\ message.method = "initialized" => initializeAccepted
      /\ message.method \notin {"initialize", "initialized"} => initializedAccepted
  BY DEF observe, GateOpens
<1>6. /\ initializeAccepted' => GivenIn("initialize", wire', n + 1)
      /\ initializedAccepted' => GivenIn("initialized", wire', n + 1)
  BY <1>1, <1>2, <1>3, <1>4, <1>5
<1>7. ASSUME NEW i \in 1..n PROVE OrderedAt(wire', i)
  <2>1. OrderedAt(wire, i) /\ wire'[i] = wire[i]
    BY <1>1, <1>3
  <2>2. \A method : GivenIn(method, wire, i - 1) => GivenIn(method, wire', i - 1)
    BY <1>1, <1>2
  <2> QED  BY <2>1, <2>2 DEF OrderedAt
<1>8. OrderedAt(wire', n + 1)
  <2>1. \A method : GivenIn(method, wire, n) => GivenIn(method, wire', (n + 1) - 1)
    BY <1>1, <1>2
  <2> QED  BY <1>1, <1>3, <1>5, <2>1 DEF OrderedAt
<1> QED  BY <1>1, <1>6, <1>7, <1>8

LEMMA HandshakeStep == HandshakeInv /\ [AppServerNext]_appServerVars => HandshakeInv'
<1> SUFFICES ASSUME HandshakeInv, [AppServerNext]_appServerVars PROVE HandshakeInv'
  OBVIOUS
<1> USE DEF Stands
<1>1. ASSUME UNCHANGED clientVars PROVE HandshakeInv'
  BY <1>1 DEF clientVars, HandshakeInv, OrderedAt, GivenIn
<1>2. ASSUME NEW c \in Callers, Initialize(c) PROVE HandshakeInv'
  <2> DEFINE message == [method |-> "initialize", kind |-> "request"]
  <2>1. message \in Message /\ observe(message.method) /\ Gives(message)
    BY <1>2 DEF Message, Initialize
  <2>2. initializing' = [initializing EXCEPT ![c] = "requested"] /\ initializeAccepted'
    BY <1>2 DEF Initialize, observe
  <2> HIDE DEF message
  <2> QED  BY <2>1, <2>2, GivenAfterGate DEF HandshakeInv
<1>3. ASSUME NEW c \in Callers, Notify(c) PROVE HandshakeInv'
  <2> DEFINE message == [method |-> "initialized", kind |-> "notification"]
  <2>1. message \in Message /\ observe(message.method) /\ Gives(message)
    BY <1>3 DEF Message, Notify
  <2>2. initializing' = [initializing EXCEPT ![c] = "notified"] /\ (initializeAccepted => initializeAccepted')
    BY <1>3 DEF Notify, observe
  <2> HIDE DEF message
  <2> QED  BY <2>1, <2>2, GivenAfterGate DEF HandshakeInv
<1>4. ASSUME NEW c \in Callers, Initialized(c) \/ InitializeFails(c) PROVE HandshakeInv'
  BY <1>4 DEF Initialized, InitializeFails, HandshakeInv, OrderedAt, GivenIn
<1>5. ASSUME NEW method \in Methods, NEW coreAuthorized, request(method, coreAuthorized) PROVE HandshakeInv'
  <2> DEFINE message == [method |-> method, kind |-> "request"]
  <2>1. message \in Message /\ observe(message.method) /\ Gives(message)
    BY <1>5 DEF Message, request
  <2>2. initializing' = initializing /\ (initializeAccepted => initializeAccepted')
    BY <1>5 DEF request, observe
  <2> HIDE DEF message
  <2> QED  BY <2>1, <2>2, GivenAfterGate DEF HandshakeInv
<1> QED
  BY <1>1, <1>2, <1>3, <1>4, <1>5 DEF AppServerNext, ClientStep, appServerVars, registerModule, register, AdapterRestarts

\* Whoever initializes and whoever asks, for these two methods or another, the app server is given
\* `initialize`, then `initialized`, then the rest (AppServerHandshakeGate, TypedAppServerClient).
THEOREM HandshakeComesFirst == AppServerSpec => []HandshakeFirst
<1>1. AppServerInit => HandshakeInv
  BY DEF AppServerInit, HandshakeInv
<1>2. HandshakeInv => HandshakeFirst
  BY DEF HandshakeInv, HandshakeFirst, OrderedAt, GivenIn
<1> QED  BY <1>1, <1>2, HandshakeStep, PTL DEF AppServerSpec

-----------------------------------------------------------------------------
(* The fair queue. *)

QueuedSlot == [priority : Priorities, retryAfter : Nat]
QueueEntry == [tenant : Tenants, slots : Seq(QueuedSlot) \ {<<>>}]

N == Cardinality(Tenants)

\* How many dequeues are left until the cursor is at p's place, and what is allowed to p meanwhile: a cycle
\* of the cursor for each place it has come forward, and one more.
ToGo(p, cursor) == IF cursor <= p - 1 THEN p - 1 - cursor ELSE p - 1 + CursorCycle - cursor
Allowed(p) == CursorCycle * (N - p + 1)

QueueTypeOK ==
  /\ slotsByTenant \in Seq(QueueEntry)
  /\ \A i, j \in DOMAIN slotsByTenant : slotsByTenant[i].tenant = slotsByTenant[j].tenant => i = j
  /\ tenantCursor \in 0..(CursorCycle - 1)
  /\ passedOver \in Nat

QueueInv ==
  /\ QueueTypeOK
  /\ Entry(Watched) = {} => passedOver = 0
  /\ \A p \in Entry(Watched) : passedOver + ToGo(p, tenantCursor) < Allowed(p)

LEMMA QueueNumbers == N \in Nat \ {0} /\ CursorCycle \in Nat \ {0} /\ N <= CursorCycle
<1>1. N \in Nat \ {0}
  BY TenantsAreKnown, FS_CardinalityType, FS_EmptySet DEF N
<1>2. CursorCycle \in Nat \ {0} /\ CursorCycle % N = 0
  BY <1>1, CursorCycleIsWhole DEF N
<1>3. ASSUME CursorCycle < N PROVE CursorCycle % N = CursorCycle
  BY <1>1, <1>2, <1>3
<1> QED  BY <1>1, <1>2, <1>3

LEMMA AllowedByPlace ==
  ASSUME NEW p \in 1..N
  PROVE  /\ Allowed(p) \in Nat /\ CursorCycle <= Allowed(p)
         /\ Allowed(p) <= CursorCycle * N
         /\ p > 1 => Allowed(p - 1) = Allowed(p) + CursorCycle
<1>1. ASSUME NEW c \in Nat, NEW m \in Nat PROVE c * m \in Nat /\ c * (m + 1) = c * m + c
  BY <1>1
<1>2. /\ N - p \in Nat /\ p - 1 \in Nat /\ N - p + 1 \in Nat /\ CursorCycle \in Nat
      /\ p > 1 => N - (p - 1) + 1 = (N - p + 1) + 1
      /\ N = (N - p + 1) + (p - 1)
  BY QueueNumbers
<1>3. Allowed(p) = CursorCycle * (N - p) + CursorCycle /\ CursorCycle * (N - p) \in Nat
  BY <1>1, <1>2 DEF Allowed
<1>4. p > 1 => Allowed(p - 1) = Allowed(p) + CursorCycle
  BY <1>1, <1>2 DEF Allowed
<1>5. ASSUME NEW c \in Nat, NEW a \in Nat, NEW b \in Nat PROVE c * (a + b) = c * a + c * b /\ c * b \in Nat
  BY <1>5
<1>6. CursorCycle * N = Allowed(p) + CursorCycle * (p - 1) /\ CursorCycle * (p - 1) \in Nat
  BY <1>2, <1>5 DEF Allowed
<1> QED  BY <1>2, <1>3, <1>4, <1>6

\* The tenants in line are different ones.
LEMMA LineIsShort ==
  ASSUME NEW s \in Seq(QueueEntry), \A i, j \in DOMAIN s : s[i].tenant = s[j].tenant => i = j
  PROVE  Len(s) \in Nat /\ Len(s) <= N /\ DOMAIN s = 1..Len(s)
<1> DEFINE f == [i \in 1..Len(s) |-> s[i].tenant]
<1>1. Len(s) \in Nat /\ DOMAIN s = 1..Len(s) /\ \A i \in 1..Len(s) : s[i].tenant \in Tenants
  <2>1. \A e \in QueueEntry : e.tenant \in Tenants
    BY DEF QueueEntry
  <2> QED  BY <2>1, LenProperties, ElementOfSeq
<1>2. f \in Injection(1..Len(s), Tenants)
  BY <1>1 DEF Injection, IsInjective
<1>3. Cardinality(1..Len(s)) = Len(s)
  BY <1>1, FS_Interval
<1> QED  BY <1>1, <1>2, <1>3, FS_Injection, TenantsAreKnown DEF N

LEMMA ToGoIsShort ==
  ASSUME NEW p \in 1..N, NEW cursor \in 0..(CursorCycle - 1)
  PROVE  ToGo(p, cursor) \in 0..(CursorCycle - 1)
BY QueueNumbers DEF ToGo

LEMMA InsertType ==
  ASSUME NEW slots \in Seq(QueuedSlot), NEW slot \in QueuedSlot
  PROVE  Insert(slots, slot) \in Seq(QueuedSlot) \ {<<>>}
<1> DEFINE n == Cardinality({i \in DOMAIN slots : slots[i].priority >= slot.priority})
           a == SubSeq(slots, 1, n)
           b == SubSeq(slots, n + 1, Len(slots))
<1>1. n \in 0..Len(slots)
  <2>1. IsFiniteSet(1..Len(slots)) /\ Cardinality(1..Len(slots)) = Len(slots)
    <3> HIDE DEF n, a, b
    <3>1. Len(slots) \in Nat  OBVIOUS
    <3> QED  BY <3>1, FS_Interval
  <2>2. {i \in DOMAIN slots : slots[i].priority >= slot.priority} \subseteq 1..Len(slots)
    OBVIOUS
  <2> QED  BY <2>1, <2>2, FS_Subset, FS_CardinalityType
<1>2. Insert(slots, slot) = (a \o <<slot>>) \o b
  <2>1. (1 + n) - 1 = n /\ 1 + n = n + 1
    BY <1>1
  <2> QED  BY <2>1 DEF Insert, InsertAt
<1> HIDE DEF n
<1>3. a \in Seq(QueuedSlot) /\ b \in Seq(QueuedSlot) /\ Len(a) \in Nat /\ Len(b) \in Nat
  BY <1>1, SubSeqProperties
<1> HIDE DEF a, b
<1>4. a \o <<slot>> \in Seq(QueuedSlot) /\ Len(a \o <<slot>>) = Len(a) + 1
  BY <1>3, ConcatProperties
<1>5. (a \o <<slot>>) \o b \in Seq(QueuedSlot) /\ Len((a \o <<slot>>) \o b) = Len(a) + 1 + Len(b)
  BY <1>3, <1>4, ConcatProperties
<1> QED  BY <1>2, <1>3, <1>5

LEMMA RemovedAt ==
  ASSUME NEW S, NEW s \in Seq(S), NEW i \in 1..Len(s)
  PROVE  /\ RemoveAt(s, i) \in Seq(S)
         /\ Len(RemoveAt(s, i)) = Len(s) - 1
         /\ \A k \in 1..(Len(s) - 1) : RemoveAt(s, i)[k] = IF k < i THEN s[k] ELSE s[k + 1]
<1> DEFINE a == SubSeq(s, 1, i - 1)
           b == SubSeq(s, i + 1, Len(s))
<1>1. a \in Seq(S) /\ Len(a) = i - 1 /\ \A k \in 1..(i - 1) : a[k] = s[k]
  BY SubSeqProperties
<1>2. b \in Seq(S) /\ Len(b) = Len(s) - i /\ \A k \in 1..(Len(s) - i) : b[k] = s[i + k]
  BY SubSeqProperties
<1>3. RemoveAt(s, i) = a \o b
  BY DEF RemoveAt
<1> HIDE DEF a, b
<1>4. a \o b \in Seq(S) /\ Len(a \o b) = Len(s) - 1
      /\ \A k \in 1..(Len(s) - 1) : (a \o b)[k] = IF k <= i - 1 THEN a[k] ELSE b[k - (i - 1)]
  <2>1. Len(a) + Len(b) = Len(s) - 1
    BY <1>1, <1>2
  <2>2. /\ a \o b \in Seq(S) /\ Len(a \o b) = Len(a) + Len(b)
        /\ \A k \in 1..(Len(a) + Len(b)) : (a \o b)[k] = IF k <= Len(a) THEN a[k] ELSE b[k - Len(a)]
    BY <1>1, <1>2, ConcatProperties
  <2> QED  BY <1>1, <2>1, <2>2
<1>5. ASSUME NEW k \in 1..(Len(s) - 1)
      PROVE  /\ k < i => a[k] = s[k] /\ k <= i - 1
             /\ ~(k < i) => b[k - (i - 1)] = s[k + 1] /\ ~(k <= i - 1)
  <2>1. CASE k < i
    BY <1>1, <2>1
  <2>2. CASE ~(k < i)
    <3>1. k - (i - 1) \in 1..(Len(s) - i) /\ i + (k - (i - 1)) = k + 1
      BY <2>2
    <3> QED  BY <1>2, <2>2, <3>1
  <2> QED  BY <2>1, <2>2
<1> QED  BY <1>3, <1>4, <1>5

\* Whoever was in line before an enqueue has the place it had.
LEMMA EnqueueKeeps ==
  ASSUME QueueInv, NEW t \in Tenants, NEW slot \in QueuedSlot, enqueue(t, slot)
  PROVE  QueueInv'
<1> DEFINE s == slotsByTenant
           n == Len(slotsByTenant)
<1>1. /\ s \in Seq(QueueEntry) /\ n \in Nat /\ DOMAIN s = 1..n
      /\ \A i, j \in DOMAIN s : s[i].tenant = s[j].tenant => i = j
      /\ \A i \in DOMAIN s : s[i] \in QueueEntry
  BY DEF QueueInv, QueueTypeOK
<1>2. tenantCursor' = tenantCursor /\ passedOver' = passedOver
  BY DEF enqueue
<1>3. CASE Entry(t) = {}
  <2> DEFINE e == [tenant |-> t, slots |-> <<slot>>]
  <2>1. s' = Append(s, e)
    BY <1>3 DEF enqueue
  <2>2. e \in QueueEntry /\ e.tenant = t
    BY DEF QueueEntry
  <2>3. \A i \in 1..n : s[i].tenant # t
    BY <1>1, <1>3 DEF Entry
  <2> HIDE DEF e
  <2>4. /\ s' \in Seq(QueueEntry) /\ DOMAIN s' = 1..(n + 1) /\ s'[n + 1] = e
        /\ \A i \in 1..n : s'[i] = s[i]
    BY <1>1, <2>1, <2>2
  <2> HIDE DEF s
  <2>5. \A i, j \in DOMAIN s' : s'[i].tenant = s'[j].tenant => i = j
    BY <1>1, <2>2, <2>3, <2>4
  <2>6. QueueTypeOK'
    BY <1>2, <2>4, <2>5 DEF QueueInv, QueueTypeOK, s
  <2>7. CASE t = Watched
    <3>1. Entry(Watched)' = {n + 1} /\ passedOver' = 0 /\ passedOver' = passedOver
      BY <1>1, <1>2, <1>3, <2>2, <2>3, <2>4, <2>7 DEF Entry, QueueInv, s
    <3>2. n + 1 \in 1..N
      <4>1. Len(s') = n + 1  BY <1>1, <2>4
      <4> QED  BY <1>1, <2>4, <2>5, <4>1, LineIsShort
    <3>3. 0 + ToGo(n + 1, tenantCursor) < Allowed(n + 1)
      <4>1. tenantCursor \in 0..(CursorCycle - 1)  BY DEF QueueInv, QueueTypeOK
      <4> QED  BY <3>2, <4>1, ToGoIsShort, AllowedByPlace, QueueNumbers
    <3> QED  BY <1>2, <2>6, <3>1, <3>3 DEF QueueInv
  <2>8. CASE t # Watched
    <3>1. Entry(Watched)' = Entry(Watched)
      BY <1>1, <2>2, <2>4, <2>8 DEF Entry, s
    <3> QED  BY <1>2, <2>6, <3>1 DEF QueueInv
  <2> QED  BY <2>7, <2>8
<1>4. CASE Entry(t) # {}
  <2>1. s' = [i \in DOMAIN s |-> IF i \in Entry(t) THEN [s[i] EXCEPT !.slots = Insert(@, slot)] ELSE s[i]]
    BY <1>4 DEF enqueue
  <2>2. ASSUME NEW i \in DOMAIN s PROVE s'[i] \in QueueEntry /\ s'[i].tenant = s[i].tenant
    <3>1. s[i].slots \in Seq(QueuedSlot) /\ s[i] \in QueueEntry
      BY <1>1 DEF QueueEntry
    <3>2. Insert(s[i].slots, slot) \in Seq(QueuedSlot) \ {<<>>}
      BY <3>1, InsertType
    <3>3. s'[i] = s[i] \/ s'[i] = [s[i] EXCEPT !.slots = Insert(s[i].slots, slot)]
      BY <2>1
    <3> HIDE DEF s
    <3> QED  BY <3>1, <3>2, <3>3 DEF QueueEntry
  <2>3. s' \in Seq(QueueEntry) /\ DOMAIN s' = DOMAIN s
    <3>1. DOMAIN s' = 1..n /\ s' = [i \in 1..n |-> s'[i]]
      BY <1>1, <2>1
    <3>2. \A i \in 1..n : s'[i] \in QueueEntry
      BY <1>1, <2>2
    <3> HIDE DEF s
    <3>3. [i \in 1..n |-> s'[i]] \in Seq(QueueEntry)
      BY <1>1, <3>2, IsASeq
    <3> QED  BY <1>1, <3>1, <3>3
  <2> HIDE DEF s
  <2>4. QueueTypeOK'
    BY <1>1, <1>2, <2>2, <2>3 DEF QueueInv, QueueTypeOK, s
  <2>5. Entry(Watched)' = Entry(Watched)
    BY <2>2, <2>3 DEF Entry, s
  <2> QED  BY <1>2, <2>4, <2>5 DEF QueueInv
<1> QED  BY <1>3, <1>4

\* When everybody is ready, and the cursor is at p's place, it is p's turn.
LEMMA TurnComes ==
  ASSUME NEW n \in Nat, NEW p \in 1..n, NEW i \in 1..n, HasTurn(1..n, i), tenantCursor = p - 1
  PROVE  i = p
<1>1. {j \in 1..n : j < i} = 1..(i - 1)
  OBVIOUS
<1>2. Cardinality(1..(i - 1)) = i - 1 /\ Cardinality(1..n) = n
  BY FS_Interval
<1>3. i - 1 = (p - 1) % n
  BY <1>1, <1>2 DEF HasTurn
<1>4. (p - 1) % n = p - 1
  OBVIOUS
<1> QED  BY <1>3, <1>4

\* The cursor goes on by one: unless it was at p's place, it is one step closer.
LEMMA CursorComesCloser ==
  ASSUME NEW p \in 1..N, NEW cursor \in 0..(CursorCycle - 1)
  PROVE  /\ (cursor + 1) % CursorCycle \in 0..(CursorCycle - 1)
         /\ cursor # p - 1 => ToGo(p, (cursor + 1) % CursorCycle) = ToGo(p, cursor) - 1
<1>1. N \in Nat /\ CursorCycle \in Nat \ {0} /\ p - 1 < CursorCycle /\ p - 1 \in Nat
  BY QueueNumbers
<1>2. CASE cursor + 1 < CursorCycle
  <2>1. (cursor + 1) % CursorCycle = cursor + 1
    BY <1>1, <1>2
  <2> QED  BY <1>1, <1>2, <2>1 DEF ToGo
<1>3. CASE cursor + 1 = CursorCycle
  <2>1. (cursor + 1) % CursorCycle = 0
    BY <1>1, <1>3
  <2> QED  BY <1>1, <1>3, <2>1 DEF ToGo
<1> QED  BY <1>1, <1>2, <1>3

PlacesOf(line, t) == {i \in DOMAIN line : line[i].tenant = t}

Distinct(line) == \A j, k \in DOMAIN line : line[j].tenant = line[k].tenant => j = k

\* Without its i-th, the line is one place shorter behind it.
LEMMA ShorterLine ==
  ASSUME NEW s \in Seq(QueueEntry), NEW i \in 1..Len(s), NEW after \in Seq(QueueEntry),
         Distinct(s), Len(after) = Len(s) - 1,
         \A k \in 1..(Len(s) - 1) : after[k] = IF k < i THEN s[k] ELSE s[k + 1]
  PROVE  /\ Distinct(after)
         /\ \A t : t # s[i].tenant => \A q \in PlacesOf(after, t) : \E p \in PlacesOf(s, t) : q = p \/ q = p - 1
         /\ \A t : t # s[i].tenant /\ PlacesOf(s, t) # {} => PlacesOf(after, t) # {}
         /\ \A t : PlacesOf(s, t) = {} => PlacesOf(after, t) = {}
<1> DEFINE n == Len(s)
           was(k) == IF k < i THEN k ELSE k + 1
<1>1. n \in Nat /\ DOMAIN s = 1..n /\ DOMAIN after = 1..(n - 1) /\ i \in 1..n
  OBVIOUS
<1>2. ASSUME NEW k \in 1..(n - 1)
      PROVE  /\ was(k) \in 1..n /\ was(k) # i /\ after[k] = s[was(k)]
             /\ k = was(k) \/ k = was(k) - 1
  BY <1>1
<1>3. ASSUME NEW p \in 1..n, p # i PROVE \E k \in 1..(n - 1) : was(k) = p
  <2>1. CASE p < i
    <3>1. p \in 1..(n - 1) /\ was(p) = p  BY <1>1, <2>1
    <3> QED  BY <3>1
  <2>2. CASE p > i
    <3>1. p - 1 \in 1..(n - 1) /\ was(p - 1) = p  BY <1>1, <2>2
    <3> QED  BY <3>1
  <2> QED  BY <1>1, <1>3, <2>1, <2>2
<1>4. ASSUME NEW j \in 1..(n - 1), NEW k \in 1..(n - 1), was(j) = was(k) PROVE j = k
  BY <1>1, <1>4
<1> HIDE DEF n, was
<1>5. Distinct(after)
  BY <1>1, <1>2, <1>4 DEF Distinct
<1>6. ASSUME NEW t, NEW q \in PlacesOf(after, t)
      PROVE  \E p \in PlacesOf(s, t) : q = p \/ q = p - 1
  <2>1. q \in 1..(n - 1) /\ after[q].tenant = t
    BY <1>1 DEF PlacesOf
  <2>2. was(q) \in PlacesOf(s, t)
    BY <1>1, <1>2, <2>1 DEF PlacesOf
  <2> QED  BY <1>2, <2>1, <2>2
<1>7. ASSUME NEW t, t # s[i].tenant, NEW p \in PlacesOf(s, t) PROVE PlacesOf(after, t) # {}
  <2>1. p \in 1..n /\ p # i /\ s[p].tenant = t
    BY <1>1, <1>7 DEF PlacesOf
  <2>2. PICK k \in 1..(n - 1) : was(k) = p
    BY <1>3, <2>1
  <2> QED  BY <1>1, <1>2, <2>1, <2>2 DEF PlacesOf
<1>8. \A t : PlacesOf(s, t) = {} => PlacesOf(after, t) = {}
  BY <1>6
<1> QED  BY <1>5, <1>6, <1>7, <1>8

LEMMA ExceptEntry ==
  ASSUME NEW s \in Seq(QueueEntry), NEW i \in 1..Len(s), Tail(s[i].slots) # <<>>
  PROVE  LET after == [s EXCEPT ![i].slots = Tail(@)]
         IN  /\ after \in Seq(QueueEntry) /\ DOMAIN after = DOMAIN s
             /\ \A j \in DOMAIN s : after[j].tenant = s[j].tenant
<1> DEFINE d == s[i]
           e == [d EXCEPT !.slots = Tail(d.slots)]
<1>1. d \in QueueEntry
  BY ElementOfSeq
<1>2. Tail(d.slots) # <<>>
  OBVIOUS
<1>3. [s EXCEPT ![i].slots = Tail(@)] = [s EXCEPT ![i] = e] /\ i \in DOMAIN s
  OBVIOUS
<1>4. e \in QueueEntry /\ e.tenant = d.tenant
  <2> HIDE DEF d
  <2>1. d.slots \in Seq(QueuedSlot) /\ d.slots # <<>>
    BY <1>1 DEF QueueEntry
  <2>2. Tail(d.slots) \in Seq(QueuedSlot)
    BY <2>1, HeadTailProperties
  <2> QED  BY <1>1, <1>2, <2>2 DEF QueueEntry
<1> HIDE DEF e
<1>5. /\ [s EXCEPT ![i] = e] \in Seq(QueueEntry) /\ DOMAIN [s EXCEPT ![i] = e] = DOMAIN s
      /\ \A j \in DOMAIN s : [s EXCEPT ![i] = e][j] = IF j = i THEN e ELSE s[j]
  BY <1>4, ExceptSeq
<1> QED  BY <1>3, <1>4, <1>5

\* What the next lines keep of a line: its tenants are distinct, and whoever was not served is still
\* there, at its place or the one before.
ComesForward(s, after, served) ==
  /\ after \in Seq(QueueEntry)
  /\ Distinct(after)
  /\ \A t : t # served => \A q \in PlacesOf(after, t) : \E p \in PlacesOf(s, t) : q = p \/ q = p - 1
  /\ \A t : t # served /\ PlacesOf(s, t) # {} => PlacesOf(after, t) # {}
  /\ \A t : PlacesOf(s, t) = {} => PlacesOf(after, t) = {}

LEMMA RemovedLine ==
  ASSUME NEW s \in Seq(QueueEntry), NEW i \in 1..Len(s), Distinct(s)
  PROVE  ComesForward(s, RemoveAt(s, i), s[i].tenant)
<1> DEFINE after == RemoveAt(s, i)
<1>1. /\ after \in Seq(QueueEntry) /\ Len(after) = Len(s) - 1
      /\ \A k \in 1..(Len(s) - 1) : after[k] = IF k < i THEN s[k] ELSE s[k + 1]
  BY RemovedAt
<1> HIDE DEF after
<1>2. /\ Distinct(after)
      /\ \A t : t # s[i].tenant => \A q \in PlacesOf(after, t) : \E p \in PlacesOf(s, t) : q = p \/ q = p - 1
      /\ \A t : t # s[i].tenant /\ PlacesOf(s, t) # {} => PlacesOf(after, t) # {}
      /\ \A t : PlacesOf(s, t) = {} => PlacesOf(after, t) = {}
  BY <1>1, ShorterLine
<1>3. ComesForward(s, after, s[i].tenant)
  BY <1>1, <1>2, Zenon DEF ComesForward
<1> QED  BY <1>3 DEF after

LEMMA SameTenantsLine ==
  ASSUME NEW s \in Seq(QueueEntry), NEW i \in 1..Len(s), NEW after \in Seq(QueueEntry), Distinct(s),
         DOMAIN after = DOMAIN s, \A j \in DOMAIN s : after[j].tenant = s[j].tenant
  PROVE  ComesForward(s, after, s[i].tenant)
<1>1. \A t : PlacesOf(after, t) = PlacesOf(s, t)
  BY Zenon DEF PlacesOf
<1>2. ASSUME NEW j \in DOMAIN after, NEW k \in DOMAIN after, after[j].tenant = after[k].tenant PROVE j = k
  <2>1. j \in DOMAIN s /\ k \in DOMAIN s /\ s[j].tenant = s[k].tenant
    BY <1>2, Zenon
  <2> QED  BY <2>1, Zenon DEF Distinct
<1>3. Distinct(after)
  BY <1>2, Zenon DEF Distinct
<1>4. ASSUME NEW t PROVE \A q \in PlacesOf(after, t) : \E p \in PlacesOf(s, t) : q = p \/ q = p - 1
  BY <1>1, Zenon
<1> QED  BY <1>1, <1>3, <1>4, Zenon DEF ComesForward

\* Who was served loses a slot, or its place, and then those behind it come forward by one.
LEMMA ServedLine ==
  ASSUME NEW s \in Seq(QueueEntry), NEW i \in 1..Len(s), Distinct(s)
  PROVE  /\ ComesForward(s, RemoveAt(s, i), s[i].tenant)
         /\ Tail(s[i].slots) # <<>> => ComesForward(s, [s EXCEPT ![i].slots = Tail(@)], s[i].tenant)
<1>1. ComesForward(s, RemoveAt(s, i), s[i].tenant)
  BY RemovedLine
<1>2. ASSUME Tail(s[i].slots) # <<>>
      PROVE  ComesForward(s, [s EXCEPT ![i].slots = Tail(@)], s[i].tenant)
  <2> DEFINE after == [s EXCEPT ![i].slots = Tail(@)]
  <2>1. after \in Seq(QueueEntry) /\ DOMAIN after = DOMAIN s /\ \A j \in DOMAIN s : after[j].tenant = s[j].tenant
    BY <1>2, ExceptEntry
  <2> HIDE DEF after
  <2>2. ComesForward(s, after, s[i].tenant)
    BY <2>1, SameTenantsLine
  <2> QED  BY <2>2 DEF after
<1> QED  BY <1>1, <1>2

LEMMA DequeueKeeps ==
  ASSUME QueueInv, NEW time \in Nat, dequeue(time)
  PROVE  QueueInv'
<1> DEFINE n == Len(slotsByTenant)
<1>1. PICK i \in Ready(time) :
        /\ HasTurn(Ready(time), i)
        /\ tenantCursor' = (tenantCursor + 1) % CursorCycle
        /\ slotsByTenant' = IF Tail(slotsByTenant[i].slots) = <<>>
                            THEN RemoveAt(slotsByTenant, i)
                            ELSE [slotsByTenant EXCEPT ![i].slots = Tail(@)]
        /\ passedOver' = IF Watched \in Waiting \ {slotsByTenant[i].tenant} /\ Ready(time) = DOMAIN slotsByTenant
                         THEN passedOver + 1
                         ELSE 0
  BY DEF dequeue
<1>2. /\ QueueTypeOK /\ i \in DOMAIN slotsByTenant /\ DOMAIN slotsByTenant = 1..n /\ n \in Nat /\ n <= N
      /\ passedOver \in Nat /\ tenantCursor \in 0..(CursorCycle - 1)
  <2>1. i \in DOMAIN slotsByTenant
    BY DEF Ready
  <2> QED  BY <2>1, LineIsShort DEF QueueInv, QueueTypeOK
<1>3. /\ slotsByTenant' \in Seq(QueueEntry)
      /\ \A j, k \in DOMAIN slotsByTenant' : slotsByTenant'[j].tenant = slotsByTenant'[k].tenant => j = k
      /\ Watched # slotsByTenant[i].tenant => \A q \in Entry(Watched)' : \E p \in Entry(Watched) : q = p \/ q = p - 1
      /\ Entry(Watched) = {} => Entry(Watched)' = {}
      /\ Watched # slotsByTenant[i].tenant /\ Entry(Watched) # {} => Entry(Watched)' # {}
  <2>1. slotsByTenant \in Seq(QueueEntry) /\ i \in 1..Len(slotsByTenant) /\ Distinct(slotsByTenant)
    BY <1>2 DEF QueueTypeOK, Distinct
  <2>2. Entry(Watched) = PlacesOf(slotsByTenant, Watched) /\ Entry(Watched)' = PlacesOf(slotsByTenant', Watched)
    BY DEF Entry, PlacesOf
  <2>3. slotsByTenant' = RemoveAt(slotsByTenant, i)
        \/ /\ Tail(slotsByTenant[i].slots) # <<>>
           /\ slotsByTenant' = [slotsByTenant EXCEPT ![i].slots = Tail(@)]
    BY <1>1
  <2>4. ComesForward(slotsByTenant, slotsByTenant', slotsByTenant[i].tenant)
    BY <2>1, <2>3, ServedLine
  <2> QED  BY <2>2, <2>4, Zenon DEF ComesForward, Distinct
<1>4. Entry(Watched)' \subseteq 1..N
  <2>1. DOMAIN slotsByTenant' = 1..Len(slotsByTenant') /\ Len(slotsByTenant') \in Nat /\ Len(slotsByTenant') <= N
    BY <1>3, LineIsShort
  <2> QED  BY <2>1, QueueNumbers DEF Entry
<1>5. tenantCursor' \in 0..(CursorCycle - 1)
  <2>1. 1 \in 1..N  BY QueueNumbers
  <2> QED  BY <1>1, <1>2, <2>1, CursorComesCloser
<1>6. passedOver' \in Nat
  BY <1>1, <1>2
<1>7. QueueTypeOK'
  BY <1>3, <1>5, <1>6 DEF QueueTypeOK
<1>8. ASSUME passedOver' = 0, NEW q \in Entry(Watched)' PROVE passedOver' + ToGo(q, tenantCursor') < Allowed(q)
  BY <1>4, <1>5, <1>8, ToGoIsShort, AllowedByPlace, QueueNumbers
<1>9. CASE passedOver' = 0
  BY <1>7, <1>8, <1>9 DEF QueueInv
<1>10. CASE passedOver' # 0
  <2>1. /\ Watched \in Waiting /\ Watched # slotsByTenant[i].tenant /\ Ready(time) = 1..n
        /\ passedOver' = passedOver + 1
    BY <1>1, <1>2, <1>10
  <2>2. Entry(Watched) # {}
    BY <2>1 DEF Waiting, Entry
  <2>3. ASSUME NEW p \in Entry(Watched)
        PROVE  /\ p \in 1..n /\ p \in 1..N /\ i # p
               /\ passedOver + ToGo(p, tenantCursor) < Allowed(p)
    BY <1>2, <2>1, QueueNumbers DEF Entry, QueueInv
  <2>4. ASSUME NEW q \in Entry(Watched)' PROVE passedOver' + ToGo(q, tenantCursor') < Allowed(q)
    <3>1. PICK p \in Entry(Watched) : q = p \/ q = p - 1
      BY <1>3, <2>1
    <3>2. tenantCursor # p - 1
      BY <1>1, <1>2, <2>1, <2>3, TurnComes
    <3>3. /\ ToGo(p, tenantCursor') = ToGo(p, tenantCursor) - 1
          /\ ToGo(p, tenantCursor) \in 0..(CursorCycle - 1)
          /\ Allowed(p) \in Nat
      BY <1>1, <1>2, <2>3, <3>2, CursorComesCloser, ToGoIsShort, AllowedByPlace
    <3>4. CASE q = p
      BY <1>2, <2>1, <2>3, <3>3, <3>4, QueueNumbers
    <3>5. CASE q = p - 1
      <4>1. q \in 1..N /\ p > 1
        BY <1>4, <2>3, <3>5
      <4>2. Allowed(q) = Allowed(p) + CursorCycle /\ ToGo(q, tenantCursor') \in 0..(CursorCycle - 1)
        BY <1>5, <2>3, <3>5, <4>1, AllowedByPlace, ToGoIsShort
      <4> QED  BY <1>2, <2>1, <2>3, <3>3, <4>2, QueueNumbers
    <3> QED  BY <3>1, <3>4, <3>5
  <2>5. Entry(Watched)' # {}
    BY <1>3, <2>1, <2>2
  <2> QED  BY <1>7, <2>4, <2>5 DEF QueueInv
<1> QED  BY <1>9, <1>10

\* A waiting tenant is passed over less than one cycle of the cursor for each tenant, whoever comes and
\* goes, while no slot is held back.
THEOREM WaitingIsBounded == QueueSpec => []NobodyStarves
<1>1. QueueInit => QueueInv
  BY QueueNumbers DEF QueueInit, QueueInv, QueueTypeOK, Entry
<1>2. QueueInv /\ [\E time \in Nat : QueueNext(time, Nat)]_queueVars => QueueInv'
  <2> SUFFICES ASSUME QueueInv, [\E time \in Nat : QueueNext(time, Nat)]_queueVars PROVE QueueInv'
    OBVIOUS
  <2>1. ASSUME NEW t \in Tenants, NEW p \in Priorities, NEW r \in Nat, enqueue(t, Slot(p, r)) PROVE QueueInv'
    <3>1. Slot(p, r) \in QueuedSlot
      BY DEF Slot, QueuedSlot
    <3> QED  BY <2>1, <3>1, EnqueueKeeps
  <2>2. ASSUME UNCHANGED queueVars PROVE QueueInv'
    BY <2>2 DEF queueVars, QueueInv, QueueTypeOK, Entry
  <2> QED  BY <2>1, <2>2, DequeueKeeps DEF QueueNext
<1>3. QueueInv => NobodyStarves
  <2> SUFFICES ASSUME QueueInv PROVE passedOver < CursorCycle * N
    BY DEF NobodyStarves, N
  <2>1. CASE Entry(Watched) = {}
    <3>1. passedOver = 0 /\ CursorCycle * N > 0
      <4>1. 1 \in 1..N /\ CursorCycle > 0 /\ CursorCycle \in Nat  BY QueueNumbers
      <4>2. CursorCycle <= Allowed(1) /\ Allowed(1) <= CursorCycle * N /\ Allowed(1) \in Nat
        BY <4>1, AllowedByPlace
      <4>3. CursorCycle * N \in Nat  BY QueueNumbers
      <4> QED  BY <2>1, <4>1, <4>2, <4>3 DEF QueueInv
    <3> QED  BY <3>1
  <2>2. ASSUME NEW p \in Entry(Watched) PROVE passedOver < CursorCycle * N
    <3>1. p \in 1..N
      <4>1. DOMAIN slotsByTenant = 1..Len(slotsByTenant) /\ Len(slotsByTenant) \in Nat /\ Len(slotsByTenant) <= N
        BY LineIsShort DEF QueueInv, QueueTypeOK
      <4> QED  BY <4>1, QueueNumbers DEF Entry
    <3>2. /\ passedOver \in Nat /\ passedOver + ToGo(p, tenantCursor) < Allowed(p)
          /\ ToGo(p, tenantCursor) \in 0..(CursorCycle - 1)
      BY <3>1, ToGoIsShort DEF QueueInv, QueueTypeOK
    <3>3. Allowed(p) \in Nat /\ Allowed(p) <= CursorCycle * N /\ CursorCycle * N \in Nat
      BY <3>1, AllowedByPlace, QueueNumbers
    <3> QED  BY <3>2, <3>3
  <2> QED  BY <2>1, <2>2
<1> QED  BY <1>1, <1>2, <1>3, PTL DEF QueueSpec
=============================================================================
