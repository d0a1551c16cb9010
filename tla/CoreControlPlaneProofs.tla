----------------------- MODULE CoreControlPlaneProofs -----------------------
(***************************************************************************)
(* Theorems about the kernel, for every choice of its constants: its type  *)
(* invariant and the agreement of its journal with its run records; and    *)
(* what the journal's operators return and preserve, for every journal.    *)
(***************************************************************************)
EXTENDS CoreControlPlane, SequenceProofs

-----------------------------------------------------------------------------
(* The journal. *)

\* readAggregate(a).at(-1) is the aggregate's last event.
LEMMA LastPositionIsLast ==
  ASSUME NEW E, NEW journal \in Seq(E), NEW a, Positions(journal, a) # {}
  PROVE  /\ LastPosition(journal, a) \in Positions(journal, a)
         /\ \A j \in Positions(journal, a) : j <= LastPosition(journal, a)
<1>1. Positions(journal, a) \in SUBSET (1..Len(journal)) /\ Len(journal) \in Nat
  BY DEF Positions
<1>2. \E i \in Positions(journal, a) : \A j \in Positions(journal, a) : j <= i
  BY <1>1, LastExists
<1> QED  BY <1>2 DEF LastPosition

\* Conversely, a position behind which the aggregate has no event is the last one.
LEMMA LastPositionUnique ==
  ASSUME NEW E, NEW journal \in Seq(E), NEW a,
         NEW i \in Positions(journal, a), \A j \in Positions(journal, a) : j <= i
  PROVE  LastPosition(journal, a) = i
<1>1. LastPosition(journal, a) \in Positions(journal, a) /\ i <= LastPosition(journal, a)
  BY LastPositionIsLast
<1>2. LastPosition(journal, a) <= i  BY <1>1
<1>3. i \in Int /\ LastPosition(journal, a) \in Int  BY <1>1 DEF Positions
<1> QED  BY <1>1, <1>2, <1>3

\* A version read from a journal is a natural number.
LEMMA CurrentVersionIsNat ==
  ASSUME NEW E, NEW journal \in Seq(E), NEW a, \A e \in E : e.aggregateVersion \in Nat
  PROVE  CurrentVersion(journal, a) \in Nat
<1>1. CASE Positions(journal, a) = {}
  BY <1>1 DEF CurrentVersion
<1>2. CASE Positions(journal, a) # {}
  <2>1. LastPosition(journal, a) \in DOMAIN journal
    BY <1>2, LastPositionIsLast DEF Positions
  <2>2. journal[LastPosition(journal, a)] \in E
    BY <2>1, ElementOfSeq, LenProperties
  <2> QED  BY <1>2, <2>2 DEF CurrentVersion
<1> QED  BY <1>1, <1>2

\* Appending an event makes its version the current one of its aggregate ...
LEMMA VersionOfAppended ==
  ASSUME NEW E, NEW journal \in Seq(E), NEW e \in E
  PROVE  CurrentVersion(Append(journal, e), e.aggregateId) = e.aggregateVersion
<1> DEFINE longer == Append(journal, e)
           last   == Len(journal) + 1
<1>1. longer \in Seq(E) /\ DOMAIN longer = 1..last /\ longer[last] = e /\ last \in Nat
  BY AppendProperties, LenProperties
<1>2. last \in Positions(longer, e.aggregateId) /\ \A j \in Positions(longer, e.aggregateId) : j <= last
  BY <1>1 DEF Positions
<1>3. LastPosition(longer, e.aggregateId) = last
  BY <1>1, <1>2, LastPositionUnique
<1> QED  BY <1>1, <1>2, <1>3 DEF CurrentVersion

\* ... and leaves the current version of every other aggregate as it was.
LEMMA VersionOfOthers ==
  ASSUME NEW E, NEW journal \in Seq(E), NEW e \in E, NEW a, e.aggregateId # a
  PROVE  CurrentVersion(Append(journal, e), a) = CurrentVersion(journal, a)
<1> DEFINE longer == Append(journal, e)
<1>1. /\ longer \in Seq(E)
      /\ DOMAIN journal = 1..Len(journal)
      /\ DOMAIN longer = 1..(Len(journal) + 1)
      /\ Len(journal) \in Nat
      /\ longer[Len(journal) + 1] = e
      /\ \A i \in 1..Len(journal) : longer[i] = journal[i]
  BY AppendProperties, LenProperties
<1>2. Positions(longer, a) = Positions(journal, a)
  BY <1>1 DEF Positions
<1>3. LastPosition(longer, a) = LastPosition(journal, a)
  BY <1>2 DEF LastPosition
<1>4. CASE Positions(journal, a) = {}
  BY <1>2, <1>4 DEF CurrentVersion
<1>5. CASE Positions(journal, a) # {}
  <2>1. LastPosition(journal, a) \in 1..Len(journal)
    BY <1>1, <1>5, LastPositionIsLast DEF Positions
  <2> QED  BY <1>1, <1>2, <1>3, <1>5, <2>1 DEF CurrentVersion
<1> QED  BY <1>4, <1>5

\* append keeps the versions of every aggregate contiguous.
LEMMA AppendedIsContiguous ==
  ASSUME NEW E, NEW journal \in Seq(E), NEW e \in E, Contiguous(journal),
         \A f \in E : f.aggregateVersion \in Nat,
         e.aggregateVersion = CurrentVersion(journal, e.aggregateId) + 1
  PROVE  Contiguous(Append(journal, e))
<1> DEFINE longer == Append(journal, e)
           n == Len(journal)
           a == e.aggregateId
<1>1. /\ n \in Nat
      /\ DOMAIN journal = 1..n
      /\ DOMAIN longer = 1..(n + 1)
      /\ longer[n + 1] = e
      /\ \A i \in 1..n : longer[i] = journal[i]
  BY AppendProperties, LenProperties
<1>2. \A i \in 1..n : journal[i].aggregateVersion \in Nat
  BY ElementOfSeq
<1>3. \A i \in Positions(journal, a) : journal[i].aggregateVersion < e.aggregateVersion
  <2> TAKE i \in Positions(journal, a)
  <2> DEFINE last == LastPosition(journal, a)
  <2>1. i \in 1..n /\ last \in Positions(journal, a) /\ last \in 1..n /\ i <= last
    BY <1>1, LastPositionIsLast DEF Positions
  <2>2. journal[last].aggregateVersion + 1 = e.aggregateVersion
    BY DEF CurrentVersion
  <2>3. journal[i].aggregateVersion <= journal[last].aggregateVersion
    <3>1. CASE i = last  BY <3>1, <2>1, <1>2
    <3>2. CASE i < last
      <4>1. journal[i].aggregateId = journal[last].aggregateId
        BY <2>1 DEF Positions
      <4>2. journal[i].aggregateVersion < journal[last].aggregateVersion
        BY <1>1, <2>1, <3>2, <4>1 DEF Contiguous
      <4> QED  BY <4>2, <1>2, <2>1
    <3> QED  BY <2>1, <3>1, <3>2
  <2> QED  BY <2>1, <2>2, <2>3, <1>2
<1>4. \/ e.aggregateVersion = 1
      \/ \E h \in 1..n : journal[h].aggregateId = a /\ journal[h].aggregateVersion + 1 = e.aggregateVersion
  <2>1. CASE Positions(journal, a) = {}
    BY <2>1 DEF CurrentVersion
  <2>2. CASE Positions(journal, a) # {}
    <3>1. LastPosition(journal, a) \in Positions(journal, a)
      BY <2>2, LastPositionIsLast
    <3> QED  BY <1>1, <2>2, <3>1 DEF CurrentVersion, Positions
  <2> QED  BY <2>1, <2>2
<1>5. ASSUME NEW i \in 1..(n + 1), NEW j \in 1..(n + 1), i < j,
             longer[i].aggregateId = longer[j].aggregateId
      PROVE  longer[i].aggregateVersion < longer[j].aggregateVersion
  <2>1. CASE j = n + 1
    <3>1. i \in Positions(journal, a)  BY <1>1, <1>5, <2>1 DEF Positions
    <3> QED  BY <1>1, <1>3, <1>5, <2>1, <3>1
  <2>2. CASE j # n + 1
    <3>1. i \in 1..n /\ j \in 1..n  BY <1>1, <1>5, <2>2
    <3> QED  BY <1>1, <1>5, <3>1 DEF Contiguous
  <2> QED  BY <2>1, <2>2
<1>6. ASSUME NEW i \in 1..(n + 1)
      PROVE  \/ longer[i].aggregateVersion = 1
             \/ \E h \in 1..(i - 1) : /\ longer[h].aggregateId = longer[i].aggregateId
                                      /\ longer[h].aggregateVersion + 1 = longer[i].aggregateVersion
  <2>1. CASE i = n + 1
    BY <1>1, <1>4, <2>1
  <2>2. CASE i # n + 1
    <3>1. i \in 1..n /\ 1..(i - 1) \subseteq 1..n  BY <1>1, <2>2
    <3>2. \/ journal[i].aggregateVersion = 1
          \/ \E h \in 1..(i - 1) : /\ journal[h].aggregateId = journal[i].aggregateId
                                   /\ journal[h].aggregateVersion + 1 = journal[i].aggregateVersion
      BY <1>1, <3>1 DEF Contiguous
    <3> QED  BY <1>1, <3>1, <3>2
  <2> QED  BY <2>1, <2>2
<1> QED  BY <1>1, <1>5, <1>6 DEF Contiguous

-----------------------------------------------------------------------------
(* Events and replies have the types the commands give them. *)

LEMMA DomainEventVersion == \A e \in DomainEvent : e.aggregateVersion \in Nat
BY DEF DomainEvent, Version

\* The version append reads and the one it stamps.
LEMMA VersionTypes ==
  ASSUME TypeOK, NEW a
  PROVE  /\ CurrentVersion(events, a) \in Nat
         /\ CurrentVersion(events, a) + 1 \in Version
<1>1. CurrentVersion(events, a) \in Nat
  BY DomainEventVersion, CurrentVersionIsNat DEF TypeOK
<1> QED  BY <1>1 DEF Version

\* Each kind of event a command appends is a domain event.
LEMMA EventTypes ==
  ASSUME NEW v \in Version
  PROVE  /\ \A t \in Tenants, w \in Workspaces : Event(t, v, "TenantUserWorkspaceSeeded", w) \in DomainEvent
         /\ \A r \in Runs, run \in RunRecord : Event(r, v, "RunCreated", run) \in DomainEvent
         /\ \A r \in Runs, f, t \in RunState :
              Event(r, v, "RunStateChanged", [from |-> f, to |-> t]) \in DomainEvent
         /\ \A r \in Runs, d \in Decisions : Event(r, v, "SupervisorDecisionRecorded", d) \in DomainEvent
         /\ \A a \in Audits, f, t \in RunState :
              Event(a, v, "StateTransitionAudited", [from |-> f, to |-> t]) \in DomainEvent
         /\ \A c \in Contracts : Event(c, v, "AgentTaskContractAccepted", c) \in DomainEvent
         /\ \A s \in Streams, type \in {"StreamSeeded", "StreamUpdated"} : Event(s, v, type, s) \in DomainEvent
BY DEF Event, DomainEvent

LEMMA ReplyTypes ==
  /\ \A a \in Aggregates \cup {NoAggregate}, v \in Nat : Done(a, v) \in Reply
  /\ Nothing \in Reply
  /\ Threw \in Reply
BY DEF Done, Nothing, Threw, Reply

LEMMA RunRecordTypes ==
  /\ NewRun \in RunRecord
  /\ \A run \in RunRecord, to \in RunState, v \in Nat : Moved(run, to, v) \in RunRecord
  /\ \A run \in RunRecord, d \in Decisions, v \in Nat : Decided(run, d, v) \in RunRecord
BY DEF NewRun, Moved, Decided, RunRecord, RunState

LEMMA AppendedType ==
  ASSUME NEW journal \in Seq(DomainEvent), NEW a, NEW type, NEW payload,
         Event(a, CurrentVersion(journal, a) + 1, type, payload) \in DomainEvent
  PROVE  Appended(journal, a, type, payload) \in Seq(DomainEvent)
BY AppendProperties DEF Appended

\* Storing a result keeps the idempotency records typed.
LEMMA RememberType ==
  ASSUME TypeOK, NEW k \in Keys, NEW command \in {"seedIdentity", "createRun", "response"},
         reply' \in Reply, Remember(k, command, reply')
  PROVE  idempotency' \in [Keys -> IdempotencyRecord \cup {NoRecord}]
<1>1. [commandName |-> command, result |-> reply'] \in IdempotencyRecord
  BY DEF IdempotencyRecord
<1> QED  BY <1>1 DEF TypeOK, Remember
-----------------------------------------------------------------------------
(* TypeOK, action by action. *)

LEMMA ThrowsType == TypeOK /\ Throws => TypeOK'
BY ReplyTypes DEF TypeOK, Throws, core

LEMMA CacheType ==
  ASSUME TypeOK, NEW k \in CommandKeys, RepliesFromCache(k)
  PROVE  TypeOK'
<1>1. idempotency[k] \in IdempotencyRecord
  BY DEF TypeOK, RepliesFromCache, Keys
<1>2. reply' \in Reply
  BY <1>1 DEF RepliesFromCache, IdempotencyRecord
<1> QED  BY <1>2 DEF TypeOK, RepliesFromCache, core

LEMMA SeedIdentityType ==
  ASSUME TypeOK, NEW k \in CommandKeys, NEW t \in Tenants, NEW w \in Workspaces, NEW m \in BOOLEAN,
         SeedIdentity(k, t, w, m)
  PROVE  TypeOK'
<1>1. CASE RepliesFromCache(k)  BY <1>1, CacheType
<1>2. CASE Throws  BY <1>2, ThrowsType
<1>3. CASE /\ events' = Appended(events, t, "TenantUserWorkspaceSeeded", w)
           /\ identitySeeds' = identitySeeds \cup {<<t, w>>}
           /\ reply' = Done(t, CurrentVersion(events, t) + 1)
           /\ Remember(k, "seedIdentity", reply')
           /\ UNCHANGED <<runs, supervisorDecisions>>
  <2>1. CurrentVersion(events, t) + 1 \in Version  BY VersionTypes
  <2>2. events' \in Seq(DomainEvent)
    BY <1>3, <2>1, EventTypes, AppendedType DEF TypeOK
  <2>3. reply' \in Reply
    BY <1>3, <2>1, ReplyTypes DEF Aggregates, Version
  <2>4. idempotency' \in [Keys -> IdempotencyRecord \cup {NoRecord}]
    BY <1>3, <2>3, RememberType DEF Keys
  <2>5. identitySeeds' \subseteq Tenants \X Workspaces
    BY <1>3 DEF TypeOK
  <2> QED  BY <1>3, <2>2, <2>3, <2>4, <2>5 DEF TypeOK
<1> QED  BY <1>1, <1>2, <1>3 DEF SeedIdentity

LEMMA CreateRunType ==
  ASSUME TypeOK, NEW k \in CommandKeys, NEW r \in Runs, CreateRun(k, r)
  PROVE  TypeOK'
<1>1. CASE RepliesFromCache(k)  BY <1>1, CacheType
<1>2. CASE Throws  BY <1>2, ThrowsType
<1>3. CASE /\ events' = Appended(events, r, "RunCreated", NewRun)
           /\ runs' = [runs EXCEPT ![r] = NewRun]
           /\ reply' = Done(r, 1)
           /\ Remember(k, "createRun", reply')
           /\ UNCHANGED <<supervisorDecisions, identitySeeds>>
  <2>1. CurrentVersion(events, r) + 1 \in Version  BY VersionTypes
  <2>2. events' \in Seq(DomainEvent)
    BY <1>3, <2>1, EventTypes, AppendedType, RunRecordTypes DEF TypeOK
  <2>3. reply' \in Reply  BY <1>3, ReplyTypes DEF Aggregates
  <2>4. idempotency' \in [Keys -> IdempotencyRecord \cup {NoRecord}]
    BY <1>3, <2>3, RememberType DEF Keys
  <2>5. runs' \in [Runs -> RunRecord \cup {NoRun}]
    BY <1>3, RunRecordTypes DEF TypeOK
  <2> QED  BY <1>3, <2>2, <2>3, <2>4, <2>5 DEF TypeOK
<1> QED  BY <1>1, <1>2, <1>3 DEF CreateRun

\* The one step of transitionRun that changes something, its parts named.
LEMMA TransitionRunType ==
  ASSUME TypeOK, NEW r \in Runs, NEW to \in RunState, TransitionRun(r, to)
  PROVE  TypeOK'
<1> DEFINE next    == Moved(runs[r], to, runs[r].version + 1)
           step    == [from |-> runs[r].state, to |-> to]
           changed == Appended(events, r, "RunStateChanged", step)
           audit   == AuditId(r, next.version)
           audited == Appended(changed, audit, "StateTransitionAudited", step)
<1>1. CASE Throws  BY <1>1, ThrowsType
<1>2. CASE /\ CanTransitionRun(r, to)
           /\ IF CanAppend(changed, audit, 0)
              THEN /\ events' = audited
                   /\ runs' = [runs EXCEPT ![r] = next]
                   /\ reply' = Done(r, next.version)
              ELSE /\ events' = changed
                   /\ runs' = runs
                   /\ reply' = Threw
           /\ UNCHANGED <<supervisorDecisions, identitySeeds, idempotency>>
  <2>1. runs[r] \in RunRecord
    BY <1>2 DEF TypeOK, CanTransitionRun
  <2>2. runs[r].state \in RunState /\ runs[r].version + 1 \in Nat
    BY <2>1 DEF RunRecord
  <2>3. next \in RunRecord /\ next.version \in Nat
    BY <2>1, <2>2, RunRecordTypes DEF RunRecord
  <2>4. CurrentVersion(events, r) + 1 \in Version  BY VersionTypes
  <2>5. changed \in Seq(DomainEvent)
    BY <2>2, <2>4, EventTypes, AppendedType DEF TypeOK
  <2>6. audit \in Audits
    BY <2>3 DEF AuditId, Audits
  <2>7. CurrentVersion(changed, audit) + 1 \in Version
    BY <2>5, DomainEventVersion, CurrentVersionIsNat DEF Version
  <2>8. audited \in Seq(DomainEvent)
    BY <2>2, <2>5, <2>6, <2>7, EventTypes, AppendedType
  <2>9. events' \in Seq(DomainEvent) /\ runs' \in [Runs -> RunRecord \cup {NoRun}]
    BY <1>2, <2>3, <2>5, <2>8 DEF TypeOK
  <2>10. reply' \in Reply
    BY <1>2, <2>3, ReplyTypes DEF Aggregates
  <2> QED  BY <1>2, <2>9, <2>10 DEF TypeOK
<1> QED  BY <1>1, <1>2 DEF TransitionRun

LEMMA RecordSupervisorDecisionType ==
  ASSUME TypeOK, NEW d \in Decisions, NEW r \in Runs, NEW c \in BOOLEAN, NEW f \in BOOLEAN,
         RecordSupervisorDecision(d, r, c, f)
  PROVE  TypeOK'
<1>1. CASE Throws  BY <1>1, ThrowsType
<1>2. CASE /\ supervisorDecisions' = [supervisorDecisions EXCEPT ![d] = r]
           /\ reply' = Threw
           /\ UNCHANGED <<events, runs, identitySeeds, idempotency>>
  BY <1>2, ReplyTypes DEF TypeOK
<1>3. CASE /\ supervisorDecisions' = [supervisorDecisions EXCEPT ![d] = r]
           /\ CanJournalDecision(r, f)
           /\ events' = Appended(events, r, "SupervisorDecisionRecorded", d)
           /\ runs' = [runs EXCEPT ![r] = Decided(@, d, @.version + 1)]
           /\ reply' = Done(r, runs[r].version + 1)
           /\ UNCHANGED <<identitySeeds, idempotency>>
  <2>1. runs[r] \in RunRecord /\ runs[r].version + 1 \in Nat
    BY <1>3 DEF TypeOK, CanJournalDecision, RunRecord
  <2>2. CurrentVersion(events, r) + 1 \in Version  BY VersionTypes
  <2>3. events' \in Seq(DomainEvent)
    BY <1>3, <2>2, EventTypes, AppendedType DEF TypeOK
  <2>4. runs' \in [Runs -> RunRecord \cup {NoRun}]
    BY <1>3, <2>1, RunRecordTypes DEF TypeOK
  <2>5. reply' \in Reply  BY <1>3, <2>1, ReplyTypes DEF Aggregates
  <2>6. supervisorDecisions' \in [Decisions -> Runs \cup {NoRun}]
    BY <1>3 DEF TypeOK
  <2> QED  BY <1>3, <2>3, <2>4, <2>5, <2>6 DEF TypeOK
<1> QED  BY <1>1, <1>2, <1>3 DEF RecordSupervisorDecision

LEMMA CompleteRunType ==
  ASSUME TypeOK, NEW r \in Runs, NEW d \in Decisions \cup {NoDecision}, CompleteRun(r, d)
  PROVE  TypeOK'
<1>1. "completed" \in RunState  BY DEF RunState
<1> QED  BY <1>1, ThrowsType, TransitionRunType DEF CompleteRun

LEMMA StartAgentWorkType ==
  ASSUME TypeOK, NEW c \in Contracts, NEW valid \in BOOLEAN, StartAgentWork(c, valid)
  PROVE  TypeOK'
<1>1. CASE Throws  BY <1>1, ThrowsType
<1>2. CASE /\ events' = Appended(events, c, "AgentTaskContractAccepted", c)
           /\ reply' = Done(c, 1)
           /\ UNCHANGED <<runs, supervisorDecisions, identitySeeds, idempotency>>
  <2>1. CurrentVersion(events, c) + 1 \in Version  BY VersionTypes
  <2>2. events' \in Seq(DomainEvent)
    BY <1>2, <2>1, EventTypes, AppendedType DEF TypeOK
  <2>3. reply' \in Reply  BY <1>2, ReplyTypes DEF Aggregates
  <2> QED  BY <1>2, <2>2, <2>3 DEF TypeOK
<1> QED  BY <1>1, <1>2 DEF StartAgentWork

LEMMA AppendStreamType ==
  ASSUME TypeOK, NEW s \in Streams, NEW type \in {"StreamSeeded", "StreamUpdated"}, AppendStream(s, type)
  PROVE  TypeOK'
<1>1. CurrentVersion(events, s) + 1 \in Version  BY VersionTypes
<1>2. events' \in Seq(DomainEvent)
  BY <1>1, EventTypes, AppendedType DEF TypeOK, AppendStream
<1>3. reply' \in Reply  BY <1>1, ReplyTypes DEF Aggregates, Version, AppendStream
<1> QED  BY <1>2, <1>3 DEF TypeOK, AppendStream

LEMMA PutIdempotencyType ==
  ASSUME TypeOK, NEW k \in ResponseKeys, PutIdempotency(k)
  PROVE  TypeOK'
<1>1. reply' \in Reply  BY ReplyTypes DEF PutIdempotency
<1>2. idempotency' \in [Keys -> IdempotencyRecord \cup {NoRecord}]
  BY <1>1, RememberType DEF Keys, PutIdempotency
<1> QED  BY <1>1, <1>2 DEF TypeOK, PutIdempotency

LEMMA NextKeepsType ==
  ASSUME TypeOK, [Next]_vars
  PROVE  TypeOK'
<1>1. CASE \E k \in CommandKeys, t \in Tenants, w \in Workspaces, m \in BOOLEAN : SeedIdentity(k, t, w, m)
  BY <1>1, SeedIdentityType
<1>2. CASE \E k \in CommandKeys, r \in Runs : CreateRun(k, r)
  BY <1>2, CreateRunType
<1>3. CASE \E r \in Runs, to \in RequestedStates : TransitionRun(r, to)
  BY <1>3, TransitionRunType, RequestedAreStates
<1>4. CASE \E d \in Decisions, r \in Runs, c \in BOOLEAN, f \in BOOLEAN : RecordSupervisorDecision(d, r, c, f)
  BY <1>4, RecordSupervisorDecisionType
<1>5. CASE \E r \in Runs, d \in Decisions \cup {NoDecision} : CompleteRun(r, d)
  BY <1>5, CompleteRunType
<1>6. CASE \E c \in Contracts, v \in BOOLEAN : StartAgentWork(c, v)
  BY <1>6, StartAgentWorkType
<1>7. CASE \E s \in Streams, e \in {NoVersion, 0}, f \in BOOLEAN : AppendEvent(s, e, f)
  BY <1>7, AppendStreamType, ThrowsType DEF AppendEvent
<1>8. CASE \E s \in Streams : AppendIfMissing(s)
  <2>1. PICK s \in Streams : AppendIfMissing(s)  BY <1>8
  <2>2. CASE AppendStream(s, "StreamSeeded")  BY <2>2, AppendStreamType
  <2>3. CASE reply' = Nothing /\ UNCHANGED core
    BY <2>3, ReplyTypes DEF TypeOK, core
  <2> QED  BY <2>1, <2>2, <2>3 DEF AppendIfMissing
<1>9. CASE \E k \in ResponseKeys : PutIdempotency(k)
  BY <1>9, PutIdempotencyType
<1>10. CASE UNCHANGED vars  BY <1>10 DEF TypeOK, vars
<1> QED  BY <1>1, <1>2, <1>3, <1>4, <1>5, <1>6, <1>7, <1>8, <1>9, <1>10 DEF Next

LEMMA InitTyped == Init => TypeOK
  BY ReplyTypes, EmptySeq DEF Init, TypeOK, EmptyImage

\* Every variable keeps its type, whatever commands arrive in whatever order and however
\* they end (all methods of CoreControlPlane and the raw appends of the service).
THEOREM TypeCorrect == Spec => []TypeOK
<1>1. TypeOK /\ [Next]_vars => TypeOK'  BY NextKeepsType
<1> QED  BY <1>1, InitTyped, PTL DEF Spec
-----------------------------------------------------------------------------
(* The journal and the run records agree. *)

\* A kernel version: what the next append to the run's aggregate must expect.
RunVersion(r) == IF runs[r] = NoRun THEN 0 ELSE runs[r].version

\* The audit aggregates of transitions still to come are unused, so the second append
\* of transitionRun cannot be refused.
AuditsBehind ==
  \A r \in Runs, v \in Nat : v > RunVersion(r) => CurrentVersion(events, AuditId(r, v)) = 0

JournalInv ==
  /\ TypeOK
  /\ VersionsContiguous
  /\ RunVersionIsJournalVersion
  /\ AuditsBehind

\* One append: the versions stay contiguous, one aggregate moves by one, no other moves.
LEMMA AppendedVersions ==
  ASSUME NEW journal \in Seq(DomainEvent), Contiguous(journal), NEW a, NEW type, NEW payload,
         Event(a, CurrentVersion(journal, a) + 1, type, payload) \in DomainEvent
  PROVE  /\ Contiguous(Appended(journal, a, type, payload))
         /\ CurrentVersion(Appended(journal, a, type, payload), a) = CurrentVersion(journal, a) + 1
         /\ \A b : b # a =>
              CurrentVersion(Appended(journal, a, type, payload), b) = CurrentVersion(journal, b)
<1> DEFINE e == Event(a, CurrentVersion(journal, a) + 1, type, payload)
<1>1. e.aggregateId = a /\ e.aggregateVersion = CurrentVersion(journal, a) + 1
  BY DEF Event
<1>2. Contiguous(Append(journal, e))
  BY <1>1, DomainEventVersion, AppendedIsContiguous
<1>3. CurrentVersion(Append(journal, e), a) = CurrentVersion(journal, a) + 1
  BY <1>1, VersionOfAppended
<1>4. \A b : b # a => CurrentVersion(Append(journal, e), b) = CurrentVersion(journal, b)
  BY <1>1, VersionOfOthers
<1> QED  BY <1>2, <1>3, <1>4 DEF Appended

\* An audit aggregate is no run, no contract, no tenant and no stream, and it belongs to one
\* transition.
LEMMA AuditIds ==
  /\ \A r \in Runs, v \in Nat : AuditId(r, v) \in Audits
  /\ \A a \in Aggregates : a \notin Audits
  /\ \A r, s \in Runs, v, w \in Nat : AuditId(r, v) = AuditId(s, w) => r = s /\ v = w
BY IdsAreDisjoint DEF AuditId, Audits

\* Appending to an aggregate that is no run leaves the invariant alone.
LEMMA OtherAppendKeepsJournal ==
  ASSUME JournalInv, NEW a \in Contracts \cup Tenants \cup Streams, NEW type, NEW payload,
         Event(a, CurrentVersion(events, a) + 1, type, payload) \in DomainEvent,
         events' = Appended(events, a, type, payload), runs' = runs, TypeOK'
  PROVE  JournalInv'
<1>1. /\ Contiguous(events')
      /\ \A b : b # a => CurrentVersion(events', b) = CurrentVersion(events, b)
  BY AppendedVersions DEF JournalInv, TypeOK, VersionsContiguous
<1>2. \A r \in Runs : r # a  BY IdsAreDisjoint
<1>3. \A r \in Runs, v \in Nat : AuditId(r, v) # a
  BY AuditIds DEF Aggregates
<1>4. RunVersionIsJournalVersion'
  BY <1>1, <1>2 DEF JournalInv, RunVersionIsJournalVersion
<1>5. AuditsBehind'
  BY <1>1, <1>3 DEF JournalInv, AuditsBehind, RunVersion
<1> QED  BY <1>1, <1>4, <1>5 DEF JournalInv, VersionsContiguous

\* Appending to a run and moving its record to the new version keeps the invariant.
LEMMA RunAppendKeepsJournal ==
  ASSUME JournalInv, NEW r \in Runs, NEW type, NEW payload, NEW run \in RunRecord,
         Event(r, CurrentVersion(events, r) + 1, type, payload) \in DomainEvent,
         events' = Appended(events, r, type, payload),
         runs' = [runs EXCEPT ![r] = run],
         run.version = CurrentVersion(events, r) + 1, TypeOK'
  PROVE  JournalInv'
<1>1. /\ Contiguous(events')
      /\ CurrentVersion(events', r) = CurrentVersion(events, r) + 1
      /\ \A b : b # r => CurrentVersion(events', b) = CurrentVersion(events, b)
  BY AppendedVersions DEF JournalInv, TypeOK, VersionsContiguous
<1>2. run # NoRun  BY NullsAreDistinct
<1>3. /\ runs'[r] = run
      /\ \A s \in Runs : s # r => runs'[s] = runs[s]
  BY DEF JournalInv, TypeOK
<1>4. RunVersionIsJournalVersion'
  BY <1>1, <1>2, <1>3 DEF JournalInv, RunVersionIsJournalVersion
<1>5. AuditsBehind'
  <2> SUFFICES ASSUME NEW s \in Runs, NEW v \in Nat, v > RunVersion(s)'
               PROVE  CurrentVersion(events', AuditId(s, v)) = 0
    BY DEF AuditsBehind, AuditId
  <2>1. RunVersion(r) = CurrentVersion(events, r) /\ RunVersion(r) \in Nat
    BY VersionTypes DEF JournalInv, RunVersionIsJournalVersion, RunVersion
  <2>2. v > RunVersion(s)
    BY <1>2, <1>3, <2>1 DEF RunVersion
  <2>3. AuditId(s, v) # r
    BY AuditIds DEF Aggregates
  <2> QED  BY <1>1, <2>2, <2>3 DEF JournalInv, AuditsBehind
<1> QED  BY <1>1, <1>4, <1>5 DEF JournalInv, VersionsContiguous

\* A transition that is allowed finds its audit aggregate unused: both events are appended.
LEMMA TransitionIsAudited ==
  ASSUME JournalInv, NEW r \in Runs, NEW to \in RunState, TransitionRun(r, to), ~Throws
  PROVE  LET step    == [from |-> runs[r].state, to |-> to]
             changed == Appended(events, r, "RunStateChanged", step)
             version == runs[r].version + 1
         IN  /\ runs[r] \in RunRecord
             /\ CanTransition(runs[r].state, to)
             /\ CurrentVersion(events, r) = runs[r].version
             /\ changed \in Seq(DomainEvent)
             /\ CurrentVersion(changed, AuditId(r, version)) = 0
             /\ events' = Appended(changed, AuditId(r, version), "StateTransitionAudited", step)
             /\ runs' = [runs EXCEPT ![r] = Moved(runs[r], to, version)]
             /\ UNCHANGED <<supervisorDecisions, identitySeeds, idempotency>>
<1> DEFINE step    == [from |-> runs[r].state, to |-> to]
           changed == Appended(events, r, "RunStateChanged", step)
           version == runs[r].version + 1
           next    == Moved(runs[r], to, version)
<1>1. CanTransitionRun(r, to)
  BY DEF TransitionRun
<1>2. /\ runs[r] \in RunRecord
      /\ runs[r].state \in RunState
      /\ version \in Nat
      /\ CurrentVersion(events, r) = runs[r].version
  BY <1>1 DEF CanTransitionRun, CanAppend, JournalInv, TypeOK, RunRecord
<1>3. Event(r, CurrentVersion(events, r) + 1, "RunStateChanged", step) \in DomainEvent
  BY <1>2, VersionTypes, EventTypes DEF JournalInv
<1>4. changed \in Seq(DomainEvent)
  BY <1>3, AppendedType DEF JournalInv, TypeOK
<1>5. AuditId(r, version) # r
  BY <1>2, AuditIds DEF Aggregates
<1>6. CurrentVersion(changed, AuditId(r, version)) = CurrentVersion(events, AuditId(r, version))
  BY <1>3, <1>5, AppendedVersions DEF JournalInv, TypeOK, VersionsContiguous
<1>7. RunVersion(r) = runs[r].version
  BY <1>1 DEF CanTransitionRun, RunVersion
<1>8. version > RunVersion(r)
  BY <1>2, <1>7 DEF RunRecord
<1>9. CurrentVersion(events, AuditId(r, version)) = 0
  BY <1>2, <1>8 DEF JournalInv, AuditsBehind
<1>10. next.version = version
  BY <1>2 DEF Moved, RunRecord
<1>11. CanAppend(changed, AuditId(r, next.version), 0)
  BY <1>6, <1>9, <1>10 DEF CanAppend
<1>12. /\ events' = Appended(changed, AuditId(r, next.version), "StateTransitionAudited", step)
       /\ runs' = [runs EXCEPT ![r] = next]
       /\ UNCHANGED <<supervisorDecisions, identitySeeds, idempotency>>
  BY <1>11 DEF TransitionRun
<1> QED  BY <1>1, <1>2, <1>4, <1>6, <1>9, <1>10, <1>12 DEF CanTransitionRun

LEMMA TransitionRunJournal ==
  ASSUME JournalInv, NEW r \in Runs, NEW to \in RunState, TransitionRun(r, to)
  PROVE  JournalInv'
<1>1. TypeOK'  BY TransitionRunType DEF JournalInv
<1>2. CASE Throws
  BY <1>1, <1>2 DEF Throws, core, JournalInv, VersionsContiguous, RunVersionIsJournalVersion,
                    AuditsBehind, RunVersion
<1>3. CASE ~Throws
  <2> DEFINE step    == [from |-> runs[r].state, to |-> to]
             changed == Appended(events, r, "RunStateChanged", step)
             version == runs[r].version + 1
             audit   == AuditId(r, version)
             audited == Appended(changed, audit, "StateTransitionAudited", step)
             next    == Moved(runs[r], to, version)
  <2>1. /\ runs[r] \in RunRecord
        /\ CurrentVersion(events, r) = runs[r].version
        /\ changed \in Seq(DomainEvent)
        /\ CurrentVersion(changed, audit) = 0
        /\ events' = audited
        /\ runs' = [runs EXCEPT ![r] = next]
    BY <1>3, TransitionIsAudited
  <2>2. version \in Nat /\ version \in Version /\ runs[r].state \in RunState
    BY <2>1 DEF RunRecord, Version
  <2>3. next \in RunRecord /\ next.version = version /\ next # NoRun
    BY <2>1, <2>2, RunRecordTypes, NullsAreDistinct DEF Moved, RunRecord
  <2>4. /\ Contiguous(changed)
        /\ CurrentVersion(changed, r) = version
        /\ \A b : b # r => CurrentVersion(changed, b) = CurrentVersion(events, b)
    BY <2>1, <2>2, EventTypes, AppendedVersions DEF JournalInv, TypeOK, VersionsContiguous
  <2>5. audit \in Audits /\ 1 \in Version
    BY <2>2, AuditIds DEF Version
  <2>6. Event(audit, CurrentVersion(changed, audit) + 1, "StateTransitionAudited", step) \in DomainEvent
    BY <2>1, <2>2, <2>5, EventTypes
  <2>7. /\ Contiguous(audited)
        /\ \A b : b # audit => CurrentVersion(audited, b) = CurrentVersion(changed, b)
    BY <2>1, <2>4, <2>6, AppendedVersions
  <2>8. /\ runs'[r] = next
        /\ \A s \in Runs : s # r => runs'[s] = runs[s]
    BY <2>1 DEF JournalInv, TypeOK
  <2>9. \A s \in Runs : s # audit
    BY <2>5, AuditIds DEF Aggregates
  <2>10. RunVersionIsJournalVersion'
    <3> SUFFICES ASSUME NEW s \in Runs
                 PROVE  CurrentVersion(events', s) = IF runs'[s] = NoRun THEN 0 ELSE runs'[s].version
      BY DEF RunVersionIsJournalVersion
    <3>1. CurrentVersion(events', s) = CurrentVersion(changed, s)
      BY <2>1, <2>7, <2>9
    <3>2. CASE s = r  BY <2>3, <2>4, <2>8, <3>1, <3>2
    <3>3. CASE s # r  BY <2>4, <2>8, <3>1, <3>3 DEF JournalInv, RunVersionIsJournalVersion
    <3> QED  BY <3>2, <3>3
  <2>11. AuditsBehind'
    <3> SUFFICES ASSUME NEW s \in Runs, NEW v \in Nat, v > RunVersion(s)'
                 PROVE  CurrentVersion(events', AuditId(s, v)) = 0
      BY DEF AuditsBehind, AuditId
    <3>1. RunVersion(r) = runs[r].version /\ RunVersion(r) < version
      BY <2>1, NullsAreDistinct DEF RunVersion, RunRecord
    <3>2. v > RunVersion(s) /\ AuditId(s, v) # audit
      <4>1. CASE s = r
        <5>1. RunVersion(s)' = version  BY <2>3, <2>8, <4>1 DEF RunVersion
        <5>2. v > version  BY <5>1
        <5>3. AuditId(s, v) # audit  BY <2>2, <5>2, AuditIds
        <5>4. RunVersion(s) \in Nat  BY <2>1, <3>1, <4>1 DEF RunRecord
        <5> QED  BY <2>2, <3>1, <4>1, <5>2, <5>3, <5>4
      <4>2. CASE s # r
        <5>1. v > RunVersion(s)  BY <2>8, <4>2 DEF RunVersion
        <5>2. AuditId(s, v) # audit  BY <2>2, <4>2, AuditIds
        <5> QED  BY <5>1, <5>2
      <4> QED  BY <4>1, <4>2
    <3>3. AuditId(s, v) # r  BY AuditIds DEF Aggregates
    <3> QED  BY <2>1, <2>4, <2>7, <3>2, <3>3 DEF JournalInv, AuditsBehind
  <2> QED  BY <1>1, <2>1, <2>7, <2>10, <2>11 DEF JournalInv, VersionsContiguous
<1> QED  BY <1>2, <1>3

\* Every action keeps the journal and the run records together.
LEMMA NextKeepsJournal ==
  ASSUME JournalInv, [Next]_vars
  PROVE  JournalInv'
<1> USE DEF JournalInv
<1>1. ASSUME UNCHANGED <<events, runs>>, TypeOK' PROVE JournalInv'
  BY <1>1 DEF VersionsContiguous, RunVersionIsJournalVersion, AuditsBehind, RunVersion
<1>2. ASSUME Throws PROVE JournalInv'
  BY <1>1, <1>2, ThrowsType DEF Throws, core
<1>3. ASSUME NEW k \in CommandKeys, RepliesFromCache(k) PROVE JournalInv'
  BY <1>1, <1>3, CacheType DEF RepliesFromCache, core
<1>4. ASSUME NEW k \in CommandKeys, NEW t \in Tenants, NEW w \in Workspaces, NEW m \in BOOLEAN,
             SeedIdentity(k, t, w, m)
      PROVE  JournalInv'
  <2>1. CASE Throws \/ RepliesFromCache(k)  BY <1>2, <1>3, <2>1
  <2>2. CASE events' = Appended(events, t, "TenantUserWorkspaceSeeded", w) /\ runs' = runs
    BY <1>4, <2>2, SeedIdentityType, VersionTypes, EventTypes, OtherAppendKeepsJournal
  <2> QED  BY <1>4, <2>1, <2>2 DEF SeedIdentity
<1>5. ASSUME NEW k \in CommandKeys, NEW r \in Runs, CreateRun(k, r) PROVE JournalInv'
  <2>1. CASE Throws \/ RepliesFromCache(k)  BY <1>2, <1>3, <2>1
  <2>2. CASE /\ CanCreateRun(r)
             /\ events' = Appended(events, r, "RunCreated", NewRun)
             /\ runs' = [runs EXCEPT ![r] = NewRun]
    <3>1. NewRun.version = CurrentVersion(events, r) + 1
      BY <2>2 DEF CanCreateRun, CanAppend, NewRun
    <3>2. Event(r, CurrentVersion(events, r) + 1, "RunCreated", NewRun) \in DomainEvent
      BY VersionTypes, EventTypes, RunRecordTypes
    <3> QED  BY <1>5, <2>2, <3>1, <3>2, CreateRunType, RunRecordTypes, RunAppendKeepsJournal
  <2> QED  BY <1>5, <2>1, <2>2 DEF CreateRun
<1>6. ASSUME NEW r \in Runs, NEW to \in RequestedStates, TransitionRun(r, to) PROVE JournalInv'
  BY <1>6, RequestedAreStates, TransitionRunJournal
<1>7. ASSUME NEW d \in Decisions, NEW r \in Runs, NEW c \in BOOLEAN, NEW f \in BOOLEAN,
             RecordSupervisorDecision(d, r, c, f)
      PROVE  JournalInv'
  <2>1. CASE Throws  BY <1>2, <2>1
  <2>2. CASE UNCHANGED <<events, runs>>
    BY <1>1, <1>7, <2>2, RecordSupervisorDecisionType
  <2>3. CASE /\ CanJournalDecision(r, f)
             /\ events' = Appended(events, r, "SupervisorDecisionRecorded", d)
             /\ runs' = [runs EXCEPT ![r] = Decided(@, d, @.version + 1)]
    <3>1. runs[r] \in RunRecord /\ runs[r].version = CurrentVersion(events, r)
      BY <2>3 DEF CanJournalDecision, CanAppend, TypeOK
    <3> DEFINE run == Decided(runs[r], d, runs[r].version + 1)
    <3>2. run \in RunRecord /\ run.version = CurrentVersion(events, r) + 1
      <4>1. runs[r].version + 1 \in Nat  BY <3>1 DEF RunRecord
      <4>2. run \in RunRecord  BY <3>1, <4>1, RunRecordTypes
      <4>3. run.version = runs[r].version + 1  BY <3>1, <4>1 DEF Decided, RunRecord
      <4> QED  BY <3>1, <4>2, <4>3
    <3>3. runs' = [runs EXCEPT ![r] = run]  BY <2>3
    <3>4. Event(r, CurrentVersion(events, r) + 1, "SupervisorDecisionRecorded", d) \in DomainEvent
      BY VersionTypes, EventTypes
    <3> QED  BY <1>7, <2>3, <3>2, <3>3, <3>4, RecordSupervisorDecisionType, RunAppendKeepsJournal
  <2> QED  BY <1>7, <2>1, <2>2, <2>3 DEF RecordSupervisorDecision
<1>8. ASSUME NEW r \in Runs, NEW d \in Decisions \cup {NoDecision}, CompleteRun(r, d) PROVE JournalInv'
  <2>1. "completed" \in RunState  BY DEF RunState
  <2> QED  BY <1>2, <1>8, <2>1, TransitionRunJournal DEF CompleteRun
<1>9. ASSUME NEW c \in Contracts, NEW v \in BOOLEAN, StartAgentWork(c, v) PROVE JournalInv'
  <2>1. CASE Throws  BY <1>2, <2>1
  <2>2. CASE events' = Appended(events, c, "AgentTaskContractAccepted", c) /\ runs' = runs
    BY <1>9, <2>2, StartAgentWorkType, VersionTypes, EventTypes, OtherAppendKeepsJournal
  <2> QED  BY <1>9, <2>1, <2>2 DEF StartAgentWork
<1>10. ASSUME NEW s \in Streams, NEW type \in {"StreamSeeded", "StreamUpdated"}, AppendStream(s, type)
       PROVE  JournalInv'
  <2>1. events' = Appended(events, s, type, s) /\ runs' = runs  BY <1>10 DEF AppendStream
  <2> QED  BY <1>10, <2>1, AppendStreamType, VersionTypes, EventTypes, OtherAppendKeepsJournal
<1>11. ASSUME NEW s \in Streams, NEW e, NEW f \in BOOLEAN, AppendEvent(s, e, f) PROVE JournalInv'
  BY <1>2, <1>10, <1>11 DEF AppendEvent
<1>12. ASSUME NEW s \in Streams, AppendIfMissing(s) PROVE JournalInv'
  <2>1. CASE AppendStream(s, "StreamSeeded")  BY <1>10, <2>1
  <2>2. CASE reply' = Nothing /\ UNCHANGED core
    <3>1. TypeOK'  BY <2>2, ReplyTypes DEF TypeOK, core
    <3> QED  BY <1>1, <2>2, <3>1 DEF core
  <2> QED  BY <1>12, <2>1, <2>2 DEF AppendIfMissing
<1>13. ASSUME NEW k \in ResponseKeys, PutIdempotency(k) PROVE JournalInv'
  BY <1>1, <1>13, PutIdempotencyType DEF PutIdempotency
<1>14. CASE UNCHANGED vars
  BY <1>1, <1>14 DEF vars, TypeOK
<1> QED  BY <1>4, <1>5, <1>6, <1>7, <1>8, <1>9, <1>11, <1>12, <1>13, <1>14 DEF Next

LEMMA JournalInvariant == Spec => []JournalInv
<1>1. Init => JournalInv
  <2> SUFFICES ASSUME Init PROVE JournalInv  OBVIOUS
  <2>1. TypeOK
    BY ReplyTypes, EmptySeq DEF Init, TypeOK, EmptyImage
  <2>2. events = <<>> /\ DOMAIN events = {} /\ \A r \in Runs : runs[r] = NoRun
    BY DEF Init, EmptyImage
  <2>3. \A a : CurrentVersion(events, a) = 0
    BY <2>2 DEF CurrentVersion, Positions
  <2> QED
    BY <2>1, <2>2, <2>3 DEF JournalInv, VersionsContiguous, Contiguous, RunVersionIsJournalVersion, AuditsBehind
<1>2. JournalInv /\ [Next]_vars => JournalInv'
  BY NextKeepsJournal
<1> QED  BY <1>1, <1>2, PTL DEF Spec

\* Whatever commands, raw appends and throws wrote it, the journal numbers the events of
\* every aggregate 1, 2, 3, ... (append's optimistic check).
THEOREM JournalIsContiguous == Spec => []VersionsContiguous
<1>1. JournalInv => VersionsContiguous  BY DEF JournalInv
<1> QED  BY <1>1, JournalInvariant, PTL

\* No run is ever stuck behind a version that moved without it: its record's version is
\* the one append will compare with.
THEOREM RunVersionsAgree == Spec => []RunVersionIsJournalVersion
<1>1. JournalInv => RunVersionIsJournalVersion  BY DEF JournalInv
<1> QED  BY <1>1, JournalInvariant, PTL
=============================================================================
