------------------------- MODULE DurableCoreProofs -------------------------
(***************************************************************************)
(* The durable service, for every value of the constants: the types, the   *)
(* order of the stored versions even where reloads fail, and, where they   *)
(* do not, that the kernel and the store never drift apart.                *)
(***************************************************************************)
EXTENDS DurableCore, KernelHistoryProofs

\* Max is a CHOOSE over the set; of two naturals it is the larger.
LEMMA MaxOfTwo ==
  ASSUME NEW m \in Nat, NEW n \in Nat
  PROVE  /\ Max({m, n}) \in Nat
         /\ m <= Max({m, n}) /\ n <= Max({m, n})
         /\ Max({m, n}) = m \/ Max({m, n}) = n
<1>1. \E x \in {m, n} : \A y \in {m, n} : x >= y
  <2>1. CASE m >= n  BY <2>1
  <2>2. CASE n >= m  BY <2>2
  <2> QED  BY <2>1, <2>2
<1>2. Max({m, n}) \in {m, n} /\ \A y \in {m, n} : Max({m, n}) >= y
  BY <1>1 DEF Max
<1> QED  BY <1>2

\* What a store keeps of the journal is a journal.
LEMMA StoredBatchType ==
  ASSUME DurableTypeOK
  PROVE  Batch \in Seq(DomainEvent) /\ stored \o Batch \in Seq(DomainEvent)
<1>1. events \in Seq(DomainEvent) /\ stored \in Seq(DomainEvent) /\ base \in Nat
  BY DEF DurableTypeOK, TypeOK
<1>2. \A i \in (base + 1)..Len(events) : events[i] \in DomainEvent
  BY <1>1
<1>3. Batch \in Seq(DomainEvent)
  BY <1>1, <1>2, SubSeqProperties DEF Batch
<1> QED  BY <1>1, <1>3, ConcatProperties

\* The kernel that a reload makes has the right types, even where replay stopped half-way.
LEMMA LoadedType ==
  ASSUME DurableTypeOK, LoadKernel, reply' \in Reply
  PROVE  TypeOK'
<1>1. Replay(stored) \in Image  BY ReplayType DEF DurableTypeOK
<1> QED  BY <1>1 DEF LoadKernel, DurableTypeOK, TypeOK, Image

LEMMA EmptiedType ==
  ASSUME events' = <<>>, runs' = EmptyImage.runs, supervisorDecisions' = EmptyImage.supervisorDecisions,
         identitySeeds' = EmptyImage.identitySeeds, idempotency' = [k \in Keys |-> NoRecord],
         reply' \in Reply
  PROVE  TypeOK'
<1>1. EmptyImage \in Image  BY EmptyImageType
<1> QED  BY <1>1, EmptySeq DEF TypeOK, Image

LEMMA DurableInitTyped == DurableInit => DurableTypeOK
<1> SUFFICES ASSUME DurableInit PROVE DurableTypeOK  OBVIOUS
<1>1. /\ InitialJournal \in Seq(DomainEvent)
      /\ InitialRecords \in [Keys -> IdempotencyRecord \cup {NoRecord}]
  BY InitialStoreIsKernels DEF WrittenByKernels
<1>2. Replay(InitialJournal) \in Image  BY <1>1, ReplayType
<1>3. TypeOK  BY <1>1, <1>2, ReplyTypes DEF DurableInit, TypeOK, Image
<1> QED  BY <1>1, <1>3, ReplyTypes DEF DurableInit, DurableTypeOK, Phase

\* Answering a client keeps the promises natural.
LEMMA AnswerType ==
  ASSUME DurableTypeOK, Answer
  PROVE  answered' \in [Aggregates -> Nat]
<1>1. CASE reply.aggregateId = NoAggregate  BY <1>1 DEF Answer, DurableTypeOK
<1>2. CASE reply.aggregateId # NoAggregate
  <2>1. reply.aggregateId \in Aggregates /\ reply.version \in Nat
    BY <1>2 DEF DurableTypeOK, TypeOK, Reply
  <2>2. Max({answered[reply.aggregateId], reply.version}) \in Nat
    BY <2>1, MaxOfTwo DEF DurableTypeOK
  <2>3. answered' = [answered EXCEPT ![reply.aggregateId] = Max({answered[reply.aggregateId], reply.version})]
    BY <1>2 DEF Answer
  <2> QED  BY <2>1, <2>2, <2>3 DEF DurableTypeOK
<1> QED  BY <1>1, <1>2

LEMMA UpsertedType ==
  ASSUME DurableTypeOK
  PROVE  Upserted \in [Keys -> IdempotencyRecord \cup {NoRecord}]
BY DEF DurableTypeOK, TypeOK, Upserted

LEMMA DurableNextKeepsType ==
  ASSUME DurableTypeOK, [DurableNext]_durableVars
  PROVE  DurableTypeOK'
<1>0. Nothing \in Reply  BY ReplyTypes
<1>1. CASE Execute
  <2>1. TypeOK'  BY <1>1, NextKeepsType DEF Execute, DurableTypeOK
  <2>2. Len(events) \in Nat  BY DEF DurableTypeOK, TypeOK
  <2> QED  BY <1>1, <2>1, <2>2 DEF Execute, DurableTypeOK, Phase, store, history
<1>2. CASE CommitTransaction
  <2>1. stored' \in Seq(DomainEvent)
    BY <1>2, StoredBatchType DEF CommitTransaction, Transaction, AppendBatch
  <2>2. storedKeys' \in [Keys -> IdempotencyRecord \cup {NoRecord}]
    BY <1>2, UpsertedType DEF CommitTransaction, Transaction
  <2>3. answered' \in [Aggregates -> Nat]  BY <1>2, AnswerType DEF CommitTransaction
  <2>4. committed' \in Reply
    BY <1>2 DEF CommitTransaction, Transaction, DurableTypeOK, TypeOK
  <2>5. TypeOK'
    BY <1>0, <1>2 DEF CommitTransaction, Transaction, Settles, core, DurableTypeOK, TypeOK
  <2> QED
    BY <1>2, <2>1, <2>2, <2>3, <2>4, <2>5 DEF CommitTransaction, Settles, DurableTypeOK, Phase
<1>3. CASE LoseCommitAnswer
  <2>1. stored' \in Seq(DomainEvent)
    BY <1>3, StoredBatchType DEF LoseCommitAnswer, Transaction, AppendBatch
  <2>2. storedKeys' \in [Keys -> IdempotencyRecord \cup {NoRecord}]
    BY <1>3, UpsertedType DEF LoseCommitAnswer, Transaction
  <2>3. TypeOK' /\ committed' \in Reply
    BY <1>3 DEF LoseCommitAnswer, Transaction, core, DurableTypeOK, TypeOK
  <2> QED  BY <1>3, <2>1, <2>2, <2>3 DEF LoseCommitAnswer, DurableTypeOK, Phase
<1>4. CASE AppendLines
  <2>1. stored' \in Seq(DomainEvent)
    BY <1>4, StoredBatchType DEF AppendLines, AppendBatch
  <2> QED  BY <1>4, <2>1 DEF AppendLines, DurableTypeOK, TypeOK, Phase, vars, history
<1>5. CASE ReplaceRecords
  <2>1. answered' \in [Aggregates -> Nat]  BY <1>5, AnswerType DEF ReplaceRecords
  <2>2. TypeOK'
    BY <1>0, <1>5 DEF ReplaceRecords, Settles, core, DurableTypeOK, TypeOK
  <2>3. /\ storedKeys' \in [Keys -> IdempotencyRecord \cup {NoRecord}]
        /\ committed' \in Reply
    BY <1>5 DEF ReplaceRecords, DurableTypeOK, TypeOK
  <2> QED  BY <1>5, <2>1, <2>2, <2>3 DEF ReplaceRecords, Settles, DurableTypeOK, Phase
<1>6. CASE StoreFails
  BY <1>6 DEF StoreFails, DurableTypeOK, TypeOK, Phase, vars, store, history
<1>7. CASE Reload
  <2>1. TypeOK'  BY <1>0, <1>7, LoadedType DEF Reload, Settles
  <2> QED  BY <1>7, <2>1 DEF Reload, Settles, DurableTypeOK, Phase, store, history
<1>8. CASE ReloadFails
  BY <1>0, <1>8 DEF ReloadFails, Settles, DurableTypeOK, TypeOK, Phase, core, store, history
<1>9. CASE Crash
  <2>1. TypeOK'  BY <1>0, <1>9, EmptiedType DEF Crash
  <2> QED  BY <1>9, <2>1 DEF Crash, DurableTypeOK, Phase, store, history
<1>10. CASE Restart
  <2>1. reply' \in Reply  BY <1>10 DEF Restart, DurableTypeOK, TypeOK
  <2>2. TypeOK'  BY <1>10, <2>1, LoadedType DEF Restart
  <2> QED  BY <1>10, <2>2 DEF Restart, DurableTypeOK, Phase, store, history
<1>11. CASE UNCHANGED durableVars
  BY <1>11 DEF durableVars, vars, DurableTypeOK, TypeOK
<1> QED
  BY <1>1, <1>2, <1>3, <1>4, <1>5, <1>6, <1>7, <1>8, <1>9, <1>10, <1>11 DEF DurableNext, Commit

\* The service's variables keep their types whatever fails between two awaits: a commit, its
\* acknowledgement, one of the two files, a reload, or the process (mutate and reloadFromStore).
THEOREM DurableTypeCorrect == DurableSpec => []DurableTypeOK
BY DurableInitTyped, DurableNextKeepsType, PTL DEF DurableSpec

-----------------------------------------------------------------------------
(* The order of the stored versions. *)

\* e is what append makes of an event for this journal.
Stamped(journal, e) ==
  e \in DomainEvent /\ e.aggregateVersion = CurrentVersion(journal, e.aggregateId) + 1

\* A command leaves the journal alone, or appends one event or two, whatever state it finds:
\* also one that a failed reload left behind.
LEMMA NextAppends ==
  ASSUME TypeOK, Next
  PROVE  \/ events' = events
         \/ \E e : Stamped(events, e) /\ events' = Append(events, e)
         \/ \E e, f : /\ Stamped(events, e)
                      /\ Stamped(Append(events, e), f)
                      /\ events' = Append(Append(events, e), f)
<1> DEFINE Goal == \/ events' = events
                   \/ \E e : Stamped(events, e) /\ events' = Append(events, e)
                   \/ \E e, f : /\ Stamped(events, e)
                                /\ Stamped(Append(events, e), f)
                                /\ events' = Append(Append(events, e), f)
<1>1. ASSUME NEW a, NEW type, NEW payload, \A v \in Version : Event(a, v, type, payload) \in DomainEvent,
             events' = Appended(events, a, type, payload)
      PROVE  Goal
  <2> DEFINE e == Event(a, CurrentVersion(events, a) + 1, type, payload)
  <2>1. e \in DomainEvent  BY <1>1, VersionTypes
  <2>2. e.aggregateId = a /\ e.aggregateVersion = CurrentVersion(events, a) + 1  BY DEF Event
  <2>3. Stamped(events, e) /\ events' = Append(events, e)  BY <1>1, <2>1, <2>2 DEF Appended, Stamped
  <2> QED  BY <2>3
<1>2. ASSUME events' = events PROVE Goal  BY <1>2
<1>3. ASSUME NEW r \in Runs, NEW to \in RunState, TransitionRun(r, to) PROVE Goal
  <2>1. CASE Throws  BY <1>2, <2>1 DEF Throws, core
  <2>2. CASE ~Throws
    <3> DEFINE next    == Moved(runs[r], to, runs[r].version + 1)
               step    == [from |-> runs[r].state, to |-> to]
               changed == Appended(events, r, "RunStateChanged", step)
               audit   == AuditId(r, next.version)
    <3>1. runs[r] \in RunRecord
      BY <1>3, <2>2 DEF TransitionRun, CanTransitionRun, TypeOK
    <3>2. runs[r].state \in RunState /\ next.version \in Nat /\ audit \in Audits
      <4>1. runs[r].state \in RunState /\ runs[r].version + 1 \in Nat  BY <3>1 DEF RunRecord
      <4>2. next.version \in Nat  BY <3>1, <4>1, RunRecordTypes DEF RunRecord
      <4> QED  BY <4>1, <4>2, AuditIds
    <3>3. events' = changed \/ events' = Appended(changed, audit, "StateTransitionAudited", step)
      BY <1>3, <2>2 DEF TransitionRun
    <3>4. \A v \in Version : Event(r, v, "RunStateChanged", step) \in DomainEvent
      BY <3>2, EventTypes
    <3>5. CASE events' = changed  BY <1>1, <3>4, <3>5
    <3>6. CASE events' = Appended(changed, audit, "StateTransitionAudited", step)
      <4> DEFINE e == Event(r, CurrentVersion(events, r) + 1, "RunStateChanged", step)
                 f == Event(audit, CurrentVersion(changed, audit) + 1, "StateTransitionAudited", step)
      <4>1. e \in DomainEvent  BY <3>4, VersionTypes
      <4>2. changed \in Seq(DomainEvent)  BY <4>1, AppendedType DEF TypeOK
      <4>3. CurrentVersion(changed, audit) \in Nat
        BY <4>2, CurrentVersionIsNat, DomainEventVersion
      <4>4. f \in DomainEvent  BY <3>2, <4>3, EventTypes DEF Version
      <4>5. /\ e.aggregateId = r /\ e.aggregateVersion = CurrentVersion(events, r) + 1
            /\ f.aggregateId = audit /\ f.aggregateVersion = CurrentVersion(changed, audit) + 1
        BY DEF Event
      <4>6. changed = Append(events, e) /\ events' = Append(changed, f)
        BY <3>6 DEF Appended
      <4>7. Stamped(events, e) /\ Stamped(changed, f)
        BY <4>1, <4>4, <4>5 DEF Stamped
      <4> HIDE DEF e, f, changed
      <4> QED  BY <4>6, <4>7
    <3> QED  BY <3>3, <3>5, <3>6
  <2> QED  BY <2>1, <2>2
<1>4. ASSUME NEW x \in Streams, NEW type \in {"StreamSeeded", "StreamUpdated"}, AppendStream(x, type)
      PROVE  Goal
  BY <1>1, <1>4, EventTypes DEF AppendStream
<1> HIDE DEF Goal
<1>5. ASSUME NEW k \in CommandKeys, NEW t \in Tenants, NEW w \in Workspaces, NEW m \in BOOLEAN, SeedIdentity(k, t, w, m)
      PROVE  Goal
  <2>1. events' = events \/ events' = Appended(events, t, "TenantUserWorkspaceSeeded", w)
    BY <1>5 DEF SeedIdentity, RepliesFromCache, Throws, core
  <2> QED  BY <1>1, <1>2, <2>1, EventTypes
<1>6. ASSUME NEW k \in CommandKeys, NEW r \in Runs, CreateRun(k, r) PROVE Goal
  <2>1. events' = events \/ events' = Appended(events, r, "RunCreated", NewRun)
    BY <1>6 DEF CreateRun, RepliesFromCache, Throws, core
  <2> QED  BY <1>1, <1>2, <2>1, EventTypes, RunRecordTypes
<1>7. ASSUME NEW d \in Decisions, NEW r \in Runs, NEW c \in BOOLEAN, NEW f \in BOOLEAN,
             RecordSupervisorDecision(d, r, c, f)
      PROVE  Goal
  <2>1. events' = events \/ events' = Appended(events, r, "SupervisorDecisionRecorded", d)
    BY <1>7 DEF RecordSupervisorDecision, Throws, core
  <2> QED  BY <1>1, <1>2, <2>1, EventTypes
<1>8. ASSUME NEW r \in Runs, NEW d \in Decisions \cup {NoDecision}, CompleteRun(r, d) PROVE Goal
  <2>1. events' = events \/ TransitionRun(r, "completed")
    BY <1>8 DEF CompleteRun, Throws, core
  <2>2. "completed" \in RunState  BY DEF RunState
  <2> QED  BY <1>2, <1>3, <2>1, <2>2
<1>9. ASSUME NEW c \in Contracts, NEW v \in BOOLEAN, StartAgentWork(c, v) PROVE Goal
  <2>1. events' = events \/ events' = Appended(events, c, "AgentTaskContractAccepted", c)
    BY <1>9 DEF StartAgentWork, Throws, core
  <2> QED  BY <1>1, <1>2, <2>1, EventTypes
<1>10. ASSUME NEW x \in Streams, NEW e \in {NoVersion, 0}, NEW f \in BOOLEAN, AppendEvent(x, e, f) PROVE Goal
  BY <1>2, <1>4, <1>10 DEF AppendEvent, Throws, core
<1>11. ASSUME NEW x \in Streams, AppendIfMissing(x) PROVE Goal
  BY <1>2, <1>4, <1>11 DEF AppendIfMissing, core
<1>12. ASSUME NEW k \in ResponseKeys, PutIdempotency(k) PROVE Goal
  BY <1>2, <1>12 DEF PutIdempotency
<1>13. Goal
  BY <1>3, <1>5, <1>6, <1>7, <1>8, <1>9, <1>10, <1>11, <1>12, RequestedAreStates DEF Next
<1> QED  BY <1>13 DEF Goal

\* Later events of an aggregate carry higher versions.
Ordered(journal) ==
  \A i, j \in DOMAIN journal :
    (i < j /\ journal[i].aggregateId = journal[j].aggregateId)
      => journal[i].aggregateVersion < journal[j].aggregateVersion

\* The journal is at least as far as what is kept, aggregate by aggregate.
Covers(journal, kept) ==
  \A i \in DOMAIN kept : kept[i].aggregateVersion <= CurrentVersion(journal, kept[i].aggregateId)

LEMMA OrderedCoversItself ==
  ASSUME NEW journal \in Seq(DomainEvent), Ordered(journal)
  PROVE  Covers(journal, journal)
<1> SUFFICES ASSUME NEW i \in DOMAIN journal
             PROVE  journal[i].aggregateVersion <= CurrentVersion(journal, journal[i].aggregateId)
  BY DEF Covers
<1> DEFINE a == journal[i].aggregateId
           last == LastPosition(journal, a)
<1>1. i \in Positions(journal, a)  BY DEF Positions
<1>2. last \in Positions(journal, a) /\ i <= last  BY <1>1, LastPositionIsLast
<1>3. CurrentVersion(journal, a) = journal[last].aggregateVersion  BY <1>1 DEF CurrentVersion
<1>4. last \in DOMAIN journal /\ journal[last].aggregateId = a  BY <1>2 DEF Positions
<1>5. /\ journal[i].aggregateVersion \in Nat
      /\ journal[last].aggregateVersion \in Nat
      /\ i \in Int /\ last \in Int
  BY <1>4, ElementOfSeq, DomainEventVersion
<1>6. i = last \/ i < last  BY <1>2, <1>5
<1> HIDE DEF last
<1> QED  BY <1>3, <1>4, <1>5, <1>6 DEF Ordered

\* append raises the version of its aggregate and no other, and keeps the order.
LEMMA StampedKeepsOrder ==
  ASSUME NEW journal \in Seq(DomainEvent), Ordered(journal), NEW e, Stamped(journal, e)
  PROVE  /\ Append(journal, e) \in Seq(DomainEvent)
         /\ Ordered(Append(journal, e))
         /\ \A a : /\ CurrentVersion(journal, a) \in Nat
                   /\ CurrentVersion(Append(journal, e), a) \in Nat
                   /\ CurrentVersion(journal, a) <= CurrentVersion(Append(journal, e), a)
<1> DEFINE longer == Append(journal, e)
           n == Len(journal)
<1>1. /\ n \in Nat
      /\ longer \in Seq(DomainEvent)
      /\ DOMAIN journal = 1..n
      /\ DOMAIN longer = 1..(n + 1)
      /\ longer[n + 1] = e
      /\ \A i \in 1..n : longer[i] = journal[i]
  BY DEF Stamped
<1>2. \A a : CurrentVersion(journal, a) \in Nat /\ CurrentVersion(longer, a) \in Nat
  BY <1>1, CurrentVersionIsNat, DomainEventVersion
<1>3. \A a : CurrentVersion(journal, a) <= CurrentVersion(longer, a)
  <2> TAKE a
  <2>1. CASE e.aggregateId = a
    <3>1. CurrentVersion(longer, a) = e.aggregateVersion
      BY <2>1, VersionOfAppended DEF Stamped
    <3> QED  BY <1>2, <2>1, <3>1 DEF Stamped
  <2>2. CASE e.aggregateId # a
    <3>1. CurrentVersion(longer, a) = CurrentVersion(journal, a)
      BY <2>2, VersionOfOthers DEF Stamped
    <3> QED  BY <1>2, <3>1
  <2> QED  BY <2>1, <2>2
<1>4. \A i \in 1..n : journal[i].aggregateId = e.aggregateId => journal[i].aggregateVersion < e.aggregateVersion
  <2> TAKE i \in 1..n
  <2> HAVE journal[i].aggregateId = e.aggregateId
  <2>1. journal[i].aggregateVersion <= CurrentVersion(journal, e.aggregateId)
    BY <1>1, OrderedCoversItself DEF Covers
  <2>2. journal[i].aggregateVersion \in Nat  BY ElementOfSeq, DomainEventVersion
  <2> QED  BY <1>2, <2>1, <2>2 DEF Stamped
<1>5. ASSUME NEW i \in 1..(n + 1), NEW j \in 1..(n + 1), i < j, longer[i].aggregateId = longer[j].aggregateId
      PROVE  longer[i].aggregateVersion < longer[j].aggregateVersion
  <2>1. i \in 1..n  BY <1>1, <1>5
  <2>2. CASE j = n + 1  BY <1>1, <1>4, <1>5, <2>1, <2>2
  <2>3. CASE j \in 1..n  BY <1>1, <1>5, <2>1, <2>3 DEF Ordered
  <2> QED  BY <1>1, <2>2, <2>3
<1>6. Ordered(longer)  BY <1>1, <1>5 DEF Ordered
<1> QED  BY <1>1, <1>2, <1>3, <1>6

\* Where the last command began, and how far the store got: whatever a failed reload left
\* in the kernel, its journal is never behind the store and what it sends next is new.
VersionsInv ==
  /\ DurableTypeOK
  /\ Ordered(events)
  /\ Ordered(stored)
  /\ phase # "down" => Covers(events, stored)
  /\ phase = "commit" =>
       /\ base <= Len(events)
       /\ \A i \in DOMAIN stored, j \in (base + 1)..Len(events) :
            stored[i].aggregateId = events[j].aggregateId
              => stored[i].aggregateVersion < events[j].aggregateVersion

\* The batch is the tail of the kernel's journal.
LEMMA StoredBatch ==
  ASSUME DurableTypeOK, base <= Len(events)
  PROVE  LET longer == stored \o Batch
         IN  /\ longer \in Seq(DomainEvent)
             /\ Len(longer) = Len(stored) + (Len(events) - base)
             /\ \A i \in 1..Len(stored) : longer[i] = stored[i]
             /\ \A i \in (Len(stored) + 1)..Len(longer) :
                  /\ base + (i - Len(stored)) \in (base + 1)..Len(events)
                  /\ longer[i] = events[base + (i - Len(stored))]
<1> DEFINE longer == stored \o Batch
           n == Len(stored)
           m == Len(events) - base
<1>1. /\ events \in Seq(DomainEvent) /\ stored \in Seq(DomainEvent) /\ base \in Nat
      /\ Len(events) \in Nat /\ n \in Nat /\ m \in Nat
  BY DEF DurableTypeOK, TypeOK
<1>2. Batch \in Seq(DomainEvent) /\ longer \in Seq(DomainEvent)  BY StoredBatchType
<1>3. \A i \in (base + 1)..Len(events) : events[i] \in DomainEvent  BY <1>1
<1>4. Len(Batch) = m /\ \A i \in 1..m : Batch[i] = events[base + i]
  BY <1>1, <1>3 DEF Batch
<1>5. Len(longer) = n + m
  <2>1. Len(longer) = n + Len(Batch)  BY <1>1, <1>2, ConcatProperties
  <2> HIDE DEF longer, m
  <2> QED  BY <1>4, <2>1
<1>6. \A i \in 1..n : longer[i] = stored[i]  BY <1>1, <1>2
<1>7. ASSUME NEW i \in (n + 1)..(n + m)
      PROVE  base + (i - n) \in (base + 1)..Len(events) /\ longer[i] = events[base + (i - n)]
  <2>1. i - n \in 1..m /\ base + (i - n) \in (base + 1)..Len(events)  BY <1>1, <1>7
  <2>2. longer[i] = Batch[i - n]  BY <1>1, <1>2, <1>4, <1>7
  <2> QED  BY <1>4, <2>1, <2>2
<1> QED  BY <1>2, <1>5, <1>6, <1>7

\* Sending a batch keeps the store in order, and behind the kernel.
LEMMA StoringKeepsOrder ==
  ASSUME VersionsInv, phase = "commit"
  PROVE  Ordered(stored \o Batch) /\ Covers(events, stored \o Batch)
<1> DEFINE longer == stored \o Batch
           n == Len(stored)
<1>1. /\ DurableTypeOK /\ base <= Len(events) /\ n \in Nat /\ base \in Nat /\ Len(events) \in Nat
      /\ events \in Seq(DomainEvent) /\ DOMAIN stored = 1..n /\ DOMAIN events = 1..Len(events)
  BY DEF VersionsInv, DurableTypeOK, TypeOK
<1>2. /\ longer \in Seq(DomainEvent)
      /\ DOMAIN longer = 1..Len(longer)
      /\ Len(longer) = n + (Len(events) - base)
      /\ \A i \in 1..n : longer[i] = stored[i]
      /\ \A i \in (n + 1)..Len(longer) :
           /\ base + (i - n) \in (base + 1)..Len(events)
           /\ longer[i] = events[base + (i - n)]
  BY <1>1, StoredBatch
<1>3. \A i \in DOMAIN longer : i \in 1..n \/ i \in (n + 1)..Len(longer)  BY <1>1, <1>2
<1> HIDE DEF longer, n
<1>4. ASSUME NEW i \in DOMAIN longer, NEW j \in DOMAIN longer, i < j,
             longer[i].aggregateId = longer[j].aggregateId
      PROVE  longer[i].aggregateVersion < longer[j].aggregateVersion
  <2>1. CASE i \in 1..n /\ j \in 1..n
    BY <1>1, <1>2, <1>4, <2>1 DEF VersionsInv, Ordered
  <2>2. CASE i \in 1..n /\ j \in (n + 1)..Len(longer)
    BY <1>1, <1>2, <1>4, <2>2 DEF VersionsInv
  <2>3. CASE i \in (n + 1)..Len(longer) /\ j \in (n + 1)..Len(longer)
    <3> DEFINE ii == base + (i - n)
               jj == base + (j - n)
    <3>1. ii \in DOMAIN events /\ jj \in DOMAIN events /\ ii < jj  BY <1>1, <1>2, <1>4, <2>3
    <3>2. longer[i] = events[ii] /\ longer[j] = events[jj]  BY <1>2, <2>3
    <3> HIDE DEF ii, jj
    <3> QED  BY <1>4, <3>1, <3>2 DEF VersionsInv, Ordered
  <2>4. ~(i \in (n + 1)..Len(longer) /\ j \in 1..n)  BY <1>1, <1>2, <1>4
  <2> QED  BY <1>3, <2>1, <2>2, <2>3, <2>4
<1>5. Covers(events, events)  BY <1>1, OrderedCoversItself DEF VersionsInv
<1>6. ASSUME NEW i \in DOMAIN longer
      PROVE  longer[i].aggregateVersion <= CurrentVersion(events, longer[i].aggregateId)
  <2>1. CASE i \in 1..n  BY <1>1, <1>2, <2>1 DEF VersionsInv, Covers
  <2>2. CASE i \in (n + 1)..Len(longer)
    <3>1. base + (i - n) \in DOMAIN events  BY <1>1, <1>2, <2>2
    <3> QED  BY <1>2, <1>5, <2>2, <3>1 DEF Covers
  <2> QED  BY <1>3, <2>1, <2>2
<1>7. Ordered(longer)  BY <1>4 DEF Ordered
<1>8. Covers(events, longer)  BY <1>6 DEF Covers
<1> QED  BY <1>7, <1>8 DEF longer

\* What a command appends is beyond all that is stored.
LEMMA ExecuteKeepsVersions ==
  ASSUME VersionsInv, DurableTypeOK', Execute
  PROVE  VersionsInv'
<1>1. /\ TypeOK /\ Next /\ events \in Seq(DomainEvent) /\ Ordered(events) /\ Covers(events, stored)
      /\ stored' = stored /\ base' = Len(events) /\ Len(events) \in Nat
      /\ stored \in Seq(DomainEvent) /\ Ordered(stored)
  BY DEF VersionsInv, DurableTypeOK, TypeOK, Execute, store
<1> DEFINE New == \A i \in DOMAIN stored, j \in (Len(events) + 1)..Len(events') :
                    stored[i].aggregateId = events'[j].aggregateId
                      => stored[i].aggregateVersion < events'[j].aggregateVersion
<1>2. \A i \in DOMAIN stored : stored[i].aggregateVersion \in Nat
  BY <1>1, ElementOfSeq, DomainEventVersion
<1>3. CASE events' = events
  <2>1. Covers(events', stored) /\ Ordered(events') /\ Len(events) <= Len(events') /\ New  BY <1>1, <1>3
  <2> QED  BY <1>1, <2>1 DEF VersionsInv
<1>4. ASSUME NEW e, Stamped(events, e), events' = Append(events, e) PROVE VersionsInv'
  <2>1. /\ Ordered(events')
        /\ \A a : /\ CurrentVersion(events, a) \in Nat
                  /\ CurrentVersion(events', a) \in Nat
                  /\ CurrentVersion(events, a) <= CurrentVersion(events', a)
    BY <1>1, <1>4, StampedKeepsOrder
  <2>2. Len(events') = Len(events) + 1 /\ events'[Len(events) + 1] = e
    BY <1>1, <1>4 DEF Stamped
  <2>3. New
    <3> SUFFICES ASSUME NEW i \in DOMAIN stored, stored[i].aggregateId = e.aggregateId
                 PROVE  stored[i].aggregateVersion < e.aggregateVersion
      BY <1>1, <2>2
    <3> QED  BY <1>1, <1>2, <1>4, <2>1 DEF Covers, Stamped
  <2>4. Covers(events', stored)
    BY <1>1, <1>2, <2>1 DEF Covers
  <2> QED  BY <1>1, <2>1, <2>2, <2>3, <2>4 DEF VersionsInv
<1>5. ASSUME NEW e, NEW f, Stamped(events, e), Stamped(Append(events, e), f),
             events' = Append(Append(events, e), f)
      PROVE  VersionsInv'
  <2> DEFINE longer == Append(events, e)
  <2>1. /\ longer \in Seq(DomainEvent)
        /\ Ordered(longer)
        /\ \A a : /\ CurrentVersion(events, a) \in Nat
                  /\ CurrentVersion(longer, a) \in Nat
                  /\ CurrentVersion(events, a) <= CurrentVersion(longer, a)
    BY <1>1, <1>5, StampedKeepsOrder
  <2>2. Len(longer) = Len(events) + 1 /\ longer[Len(events) + 1] = e
    BY <1>1, <1>5 DEF Stamped
  <2> HIDE DEF longer
  <2>3. /\ Ordered(events')
        /\ \A a : /\ CurrentVersion(events', a) \in Nat
                  /\ CurrentVersion(longer, a) <= CurrentVersion(events', a)
    BY <1>5, <2>1, StampedKeepsOrder DEF longer
  <2>4. /\ Len(events') = Len(events) + 2
        /\ events'[Len(events) + 1] = e
        /\ events'[Len(events) + 2] = f
    BY <1>1, <1>5, <2>1, <2>2 DEF Stamped, longer
  <2>5. New
    <3>1. ASSUME NEW i \in DOMAIN stored, stored[i].aggregateId = e.aggregateId
          PROVE  stored[i].aggregateVersion < e.aggregateVersion
      BY <1>1, <1>2, <1>5, <2>1, <3>1 DEF Covers, Stamped
    <3>2. ASSUME NEW i \in DOMAIN stored, stored[i].aggregateId = f.aggregateId
          PROVE  stored[i].aggregateVersion < f.aggregateVersion
      <4> DEFINE a == f.aggregateId
      <4>1. f.aggregateVersion = CurrentVersion(longer, a) + 1  BY <1>5 DEF Stamped, longer
      <4>2. stored[i].aggregateVersion <= CurrentVersion(events, a)  BY <1>1, <3>2 DEF Covers
      <4>3. CurrentVersion(events, a) <= CurrentVersion(longer, a) /\ CurrentVersion(events, a) \in Nat
            /\ CurrentVersion(longer, a) \in Nat
        BY <2>1
      <4> QED  BY <1>2, <4>1, <4>2, <4>3
    <3> SUFFICES ASSUME NEW i \in DOMAIN stored, NEW j \in (Len(events) + 1)..Len(events'),
                        stored[i].aggregateId = events'[j].aggregateId
                 PROVE  stored[i].aggregateVersion < events'[j].aggregateVersion
      OBVIOUS
    <3>3. j = Len(events) + 1 \/ j = Len(events) + 2  BY <1>1, <2>4
    <3> QED  BY <2>4, <3>1, <3>2, <3>3
  <2>6. Covers(events', stored)
    <3>1. \A a : CurrentVersion(events, a) <= CurrentVersion(events', a)  BY <2>1, <2>3
    <3> QED  BY <1>1, <1>2, <2>1, <2>3, <3>1 DEF Covers
  <2>7. Len(events) <= Len(events')  BY <1>1, <2>4
  <2> QED  BY <1>1, <2>3, <2>5, <2>6, <2>7 DEF VersionsInv
<1> QED  BY <1>1, <1>3, <1>4, <1>5, NextAppends

LEMMA EmptyIsOrdered == Ordered(<<>>)
  BY DEF Ordered

LEMMA NextKeepsVersions ==
  ASSUME VersionsInv, [DurableNext]_durableVars
  PROVE  VersionsInv'
<1>0. DurableTypeOK'  BY DurableNextKeepsType DEF VersionsInv
<1>1. CASE Execute  BY <1>0, <1>1, ExecuteKeepsVersions
<1>2. CASE Transaction /\ phase' # "commit"
  <2>1. events' = events /\ stored' = stored \o Batch /\ phase = "commit"
    BY <1>2 DEF Transaction, AppendBatch, core
  <2> QED  BY <1>0, <1>2, <2>1, StoringKeepsOrder DEF VersionsInv
<1>3. CASE AppendLines
  <2>1. events' = events /\ stored' = stored \o Batch /\ phase = "commit" /\ phase' = "upsert"
    BY <1>3 DEF AppendLines, AppendBatch, vars
  <2> QED  BY <1>0, <2>1, StoringKeepsOrder DEF VersionsInv
<1>4. ASSUME events' = events, stored' = stored, phase # "down", phase' # "commit" PROVE VersionsInv'
  BY <1>0, <1>4 DEF VersionsInv
<1>5. ASSUME events' = stored, stored' = stored, phase' # "commit" PROVE VersionsInv'
  <2>1. Ordered(stored) /\ Covers(stored, stored)
    BY OrderedCoversItself DEF VersionsInv, DurableTypeOK
  <2> QED  BY <1>0, <1>5, <2>1 DEF VersionsInv
<1>6. CASE Crash
  BY <1>0, <1>6, EmptyIsOrdered DEF Crash, store, VersionsInv
<1>7. CASE UNCHANGED durableVars
  <2>1. events' = events /\ stored' = stored /\ phase' = phase /\ base' = base
    BY <1>7 DEF durableVars, vars
  <2> QED  BY <1>0, <2>1 DEF VersionsInv
<1>8. CASE CommitTransaction \/ LoseCommitAnswer
  BY <1>2, <1>8 DEF CommitTransaction, LoseCommitAnswer, Settles
<1>9. CASE ReplaceRecords
  BY <1>4, <1>9 DEF ReplaceRecords, Settles, core
<1>10. CASE StoreFails
  BY <1>4, <1>10 DEF StoreFails, vars, store
<1>11. CASE Reload
  BY <1>5, <1>11 DEF Reload, LoadKernel, Settles, store
<1>12. CASE ReloadFails
  BY <1>4, <1>12 DEF ReloadFails, Settles, core, store
<1>13. CASE Restart
  BY <1>5, <1>13 DEF Restart, LoadKernel, store
<1> QED
  BY <1>1, <1>3, <1>6, <1>7, <1>8, <1>9, <1>10, <1>11, <1>12, <1>13 DEF DurableNext, Commit

\* No version of an aggregate is stored twice or out of order, whatever fails and whatever a
\* failed reload left in the kernel, with the transactional store as with the two files.
THEOREM StoredInOrder == DurableSpec => []StoredVersionsIncrease
<1>1. DurableInit => VersionsInv
  <2> SUFFICES ASSUME DurableInit PROVE VersionsInv  OBVIOUS
  <2>1. /\ DurableTypeOK /\ events = InitialJournal /\ stored = InitialJournal /\ phase = "idle"
        /\ InitialJournal \in Seq(DomainEvent)
    BY DurableInitTyped, InitialStoreIsKernels DEF DurableInit, WrittenByKernels
  <2>2. Ordered(InitialJournal)
    BY InitialStoreIsKernels DEF WrittenByKernels, Contiguous, Ordered
  <2> QED  BY <2>1, <2>2, OrderedCoversItself DEF VersionsInv
<1>2. VersionsInv /\ [DurableNext]_durableVars => VersionsInv'  BY NextKeepsVersions
<1>3. VersionsInv => StoredVersionsIncrease
  BY DEF VersionsInv, Ordered, StoredVersionsIncrease
<1> QED  BY <1>1, <1>2, <1>3, PTL DEF DurableSpec

-----------------------------------------------------------------------------
(* Kernel and store, where reloads do not fail. *)

\* What the kernel is when it is rebuilt from the store.
StoredState == State(stored, image.runs, image.supervisorDecisions, image.identitySeeds, storedKeys)

\* longer has journal in front, and nothing it says takes a version back.
Continues(journal, longer) ==
  /\ Len(journal) <= Len(longer)
  /\ \A i \in 1..Len(journal) : longer[i] = journal[i]
  /\ \A a : CurrentVersion(journal, a) <= CurrentVersion(longer, a)

RecordsBacked(records, journal) == \A k \in Keys : records[k] # NoRecord => Backed(records[k].result, journal)

\* Between two commands the kernel is the store's; a command whose commit is under way made
\* one step from there; between its two files the store has the events of that step.
DurableInv ==
  /\ DurableTypeOK
  /\ JournalInv
  /\ image = Replay(stored)
  /\ WrittenByKernels(stored, storedKeys)
  /\ phase = "idle" => Kernel = StoredState
  /\ phase = "commit" =>
       /\ base = Len(stored)
       /\ Continues(stored, events)
       /\ KernelStep(StoredState, Kernel, reply)
  /\ phase = "upsert" =>
       /\ StoreKind = "file"
       /\ events = stored
       /\ ImageOf(Kernel) = image
       /\ RecordsBacked(idempotency, stored)
       /\ Backed(reply, stored)

LEMMA ContinuesByStamp ==
  ASSUME NEW journal \in Seq(DomainEvent), Ordered(journal), NEW e, Stamped(journal, e)
  PROVE  Continues(journal, Append(journal, e))
<1>1. \A a : CurrentVersion(journal, a) <= CurrentVersion(Append(journal, e), a)
  BY StampedKeepsOrder
<1>2. /\ Len(journal) <= Len(Append(journal, e))
      /\ \A i \in 1..Len(journal) : Append(journal, e)[i] = journal[i]
  OBVIOUS
<1> QED  BY <1>1, <1>2 DEF Continues

LEMMA NextContinues ==
  ASSUME TypeOK, Ordered(events), Next
  PROVE  Continues(events, events')
<1>1. events \in Seq(DomainEvent) /\ \A a : CurrentVersion(events, a) \in Nat
  BY VersionTypes DEF TypeOK
<1>2. CASE events' = events  BY <1>1, <1>2 DEF Continues
<1>3. ASSUME NEW e, Stamped(events, e), events' = Append(events, e) PROVE Continues(events, events')
  BY <1>1, <1>3, ContinuesByStamp
<1>4. ASSUME NEW e, NEW f, Stamped(events, e), Stamped(Append(events, e), f),
             events' = Append(Append(events, e), f)
      PROVE  Continues(events, events')
  <2> DEFINE longer == Append(events, e)
  <2>1. /\ longer \in Seq(DomainEvent) /\ Ordered(longer)
        /\ \A a : CurrentVersion(longer, a) \in Nat
    BY <1>1, <1>4, StampedKeepsOrder
  <2>2. Continues(events, longer)  BY <1>1, <1>4, ContinuesByStamp
  <2> HIDE DEF longer
  <2>3. Stamped(longer, f) /\ events' = Append(longer, f)  BY <1>4 DEF longer
  <2>4. Continues(longer, events') /\ \A a : CurrentVersion(events', a) \in Nat
    BY <2>1, <2>3, ContinuesByStamp, StampedKeepsOrder
  <2>5. Len(events) \in Nat /\ Len(longer) \in Nat /\ Len(events') \in Nat
    BY <1>1, <2>1, <2>3
  <2>6. \A i \in 1..Len(events) : i \in 1..Len(longer)  BY <2>2, <2>5 DEF Continues
  <2>7. \A i \in 1..Len(events) : events'[i] = events[i]  BY <2>2, <2>4, <2>6 DEF Continues
  <2>8. \A a : CurrentVersion(events, a) <= CurrentVersion(events', a)
    BY <1>1, <2>1, <2>2, <2>4 DEF Continues
  <2>9. Len(events) <= Len(events')  BY <2>2, <2>4, <2>5 DEF Continues
  <2> QED  BY <2>7, <2>8, <2>9 DEF Continues
<1> QED  BY <1>2, <1>3, <1>4, NextAppends

\* A longer journal backs what a shorter one did.
LEMMA BackedStays ==
  ASSUME NEW journal \in Seq(DomainEvent), NEW longer \in Seq(DomainEvent), Continues(journal, longer),
         NEW answer \in Reply, Backed(answer, journal)
  PROVE  Backed(answer, longer)
<1>1. \A a : CurrentVersion(journal, a) \in Nat /\ CurrentVersion(longer, a) \in Nat
  BY CurrentVersionIsNat, DomainEventVersion
<1>2. answer.version \in Nat  BY DEF Reply
<1> QED  BY <1>1, <1>2 DEF Backed, Continues

LEMMA RecordsStayBacked ==
  ASSUME NEW journal \in Seq(DomainEvent), NEW longer \in Seq(DomainEvent), Continues(journal, longer),
         NEW records \in [Keys -> IdempotencyRecord \cup {NoRecord}], RecordsBacked(records, journal)
  PROVE  RecordsBacked(records, longer)
<1> SUFFICES ASSUME NEW k \in Keys, records[k] # NoRecord
             PROVE  Backed(records[k].result, longer)
  BY DEF RecordsBacked
<1>1. records[k].result \in Reply  BY DEF IdempotencyRecord
<1> QED  BY <1>1, BackedStays DEF RecordsBacked

\* A command answers, and remembers, no version that its own events do not reach.
LEMMA StepIsBacked ==
  ASSUME NEW s \in KernelState, NEW t \in KernelState, NEW a, KernelStep(s, t, a),
         Contiguous(s.events), Continues(s.events, t.events), RecordsBacked(s.idempotency, s.events)
  PROVE  /\ Backed(a, t.events)
         /\ RecordsBacked(t.idempotency, t.events)
         /\ \A k \in Keys : s.idempotency[k] # NoRecord => t.idempotency[k] # NoRecord
<1> DEFINE Goal == /\ Backed(a, t.events)
                   /\ RecordsBacked(t.idempotency, t.events)
                   /\ \A k \in Keys : s.idempotency[k] # NoRecord => t.idempotency[k] # NoRecord
<1>1. /\ s.events \in Seq(DomainEvent) /\ t.events \in Seq(DomainEvent)
      /\ s.idempotency \in [Keys -> IdempotencyRecord \cup {NoRecord}]
      /\ s.runs \in [Runs -> RunRecord \cup {NoRun}]
  BY DEF KernelState
<1>2. RecordsBacked(s.idempotency, t.events)  BY <1>1, RecordsStayBacked
<1>3. ASSUME t.idempotency = s.idempotency, Backed(a, t.events) PROVE Goal
  BY <1>2, <1>3
<1>4. ASSUME NEW k \in Keys, NEW command \in {"seedIdentity", "createRun", "response"},
             a \in Reply, Backed(a, t.events),
             t.idempotency = [s.idempotency EXCEPT ![k] = [commandName |-> command, result |-> a]]
      PROVE  Goal
  <2> DEFINE record == [commandName |-> command, result |-> a]
  <2>1. record \in IdempotencyRecord /\ record # NoRecord /\ record.result = a
    BY <1>4, NullsAreDistinct DEF IdempotencyRecord
  <2>2. t.idempotency[k] = record /\ \A l \in Keys : l # k => t.idempotency[l] = s.idempotency[l]
    BY <1>1, <1>4
  <2> HIDE DEF record
  <2> QED  BY <1>2, <1>4, <2>1, <2>2 DEF RecordsBacked
<1>5. ASSUME NEW b, NEW type, NEW payload, \A v \in Version : Event(b, v, type, payload) \in DomainEvent,
             t.events = Appended(s.events, b, type, payload), NEW v, a = Done(b, v),
             v = CurrentVersion(s.events, b) + 1
      PROVE  Backed(a, t.events)
  <2>1. Event(b, CurrentVersion(s.events, b) + 1, type, payload) \in DomainEvent
    BY <1>5, AppendedEvents
  <2>2. CurrentVersion(t.events, b) = v  BY <1>1, <1>5, <2>1, AppendedVersions
  <2>3. v \in Nat  BY <1>1, <1>5, CurrentVersionIsNat, DomainEventVersion
  <2> QED  BY <1>5, <2>2, <2>3 DEF Backed, Done
<1>6. ASSUME NEW k \in CommandKeys, Cached(s, t, a, k) PROVE Goal
  <2>1. Backed(a, t.events)  BY <1>6 DEF Cached, RecordsBacked, Keys
  <2> QED  BY <1>3, <1>6, <2>1 DEF Cached
<1>7. ASSUME NEW k \in CommandKeys, NEW x \in Tenants, NEW w \in Workspaces, Seeded(s, t, a, k, x, w) PROVE Goal
  <2>1. /\ t.events = Appended(s.events, x, "TenantUserWorkspaceSeeded", w)
        /\ a = Done(x, CurrentVersion(s.events, x) + 1)
        /\ t.idempotency = [s.idempotency EXCEPT ![k] = [commandName |-> "seedIdentity", result |-> a]]
    BY <1>7, StateFields DEF Seeded
  <2>2. Backed(a, t.events)  BY <1>5, <2>1, EventTypes
  <2>3. CurrentVersion(s.events, x) + 1 \in Nat  BY <1>1, CurrentVersionIsNat, DomainEventVersion
  <2>4. a \in Reply  BY <2>1, <2>3, ReplyTypes DEF Aggregates
  <2> HIDE DEF Goal
  <2> QED  BY <1>4, <2>1, <2>2, <2>4 DEF Keys
<1>8. ASSUME NEW k \in CommandKeys, NEW r \in Runs, Created(s, t, a, k, r) PROVE Goal
  <2>1. /\ t.events = Appended(s.events, r, "RunCreated", NewRun)
        /\ a = Done(r, 1) /\ CurrentVersion(s.events, r) = 0
        /\ t.idempotency = [s.idempotency EXCEPT ![k] = [commandName |-> "createRun", result |-> a]]
    BY <1>8, StateFields DEF Created, CanAppend
  <2>2. Backed(a, t.events)  BY <1>5, <2>1, EventTypes, RunRecordTypes
  <2>3. a \in Reply  BY <2>1, ReplyTypes DEF Aggregates
  <2> HIDE DEF Goal
  <2> QED  BY <1>4, <2>1, <2>2, <2>3 DEF Keys
<1>9. ASSUME NEW r \in Runs, NEW to \in RunState, Transitioned(s, t, a, r, to) PROVE Goal
  <2> DEFINE step    == StepOf(s, r, to)
             changed == ChangedBy(s, r, to)
             audit   == AuditId(r, s.runs[r].version + 1)
             v       == CurrentVersion(s.events, r) + 1
  <2>1. /\ t.events = Appended(changed, audit, "StateTransitionAudited", step)
        /\ t.idempotency = s.idempotency
        /\ a = Done(r, v)
        /\ s.runs[r] \in RunRecord
    BY <1>1, <1>9, StateFields DEF Transitioned, CanAppend
  <2>2. s.runs[r].state \in RunState /\ s.runs[r].version + 1 \in Nat /\ audit \in Audits /\ r # audit
    BY <2>1, AuditIds DEF RunRecord, Aggregates
  <2>3. Event(r, v, "RunStateChanged", step) \in DomainEvent
    BY <2>2, AppendedEvents, EventTypes DEF StepOf
  <2>4. changed \in Seq(DomainEvent) /\ Contiguous(changed) /\ CurrentVersion(changed, r) = v
    BY <1>1, <2>3, AppendedType, AppendedVersions DEF ChangedBy
  <2>5. CurrentVersion(changed, audit) + 1 \in Version
    BY <2>4, CurrentVersionIsNat, DomainEventVersion DEF Version
  <2>6. Event(audit, CurrentVersion(changed, audit) + 1, "StateTransitionAudited", step) \in DomainEvent
    BY <2>2, <2>5, EventTypes DEF StepOf
  <2>7. CurrentVersion(t.events, r) = v  BY <2>1, <2>2, <2>4, <2>6, AppendedVersions
  <2>8. v \in Nat  BY <1>1, CurrentVersionIsNat, DomainEventVersion
  <2>9. Backed(a, t.events)  BY <2>1, <2>7, <2>8 DEF Backed, Done
  <2> QED  BY <1>3, <2>1, <2>9
<1>10. ASSUME NEW d \in Decisions, NEW r \in Runs, DecisionTaken(s, t, a, d, r) PROVE Goal
  <2>1. /\ t.events = Appended(s.events, r, "SupervisorDecisionRecorded", d)
        /\ a = Done(r, CurrentVersion(s.events, r) + 1)
        /\ t.idempotency = s.idempotency
    BY <1>10, StateFields DEF DecisionTaken, CanAppend
  <2>2. Backed(a, t.events)  BY <1>5, <2>1, EventTypes
  <2> QED  BY <1>3, <2>1, <2>2
<1>11. ASSUME NEW c \in Contracts, Accepted(s, t, a, c) PROVE Goal
  <2>1. /\ t.events = Appended(s.events, c, "AgentTaskContractAccepted", c)
        /\ a = Done(c, 1) /\ CurrentVersion(s.events, c) = 0
        /\ t.idempotency = s.idempotency
    BY <1>11, StateFields DEF Accepted, CanAppend
  <2>2. Backed(a, t.events)  BY <1>5, <2>1, EventTypes
  <2> QED  BY <1>3, <2>1, <2>2
<1>12. ASSUME NEW x \in Streams, NEW type \in {"StreamSeeded", "StreamUpdated"}, Streamed(s, t, a, x, type) PROVE Goal
  <2>1. /\ t.events = Appended(s.events, x, type, x)
        /\ a = Done(x, CurrentVersion(s.events, x) + 1)
        /\ t.idempotency = s.idempotency
    BY <1>12, StateFields DEF Streamed
  <2>2. Backed(a, t.events)  BY <1>5, <2>1, EventTypes
  <2> QED  BY <1>3, <2>1, <2>2
<1>13. Backed(Nothing, t.events) /\ Nothing \in Reply
  BY ReplyTypes DEF Backed, Nothing, Done
<1>14. ASSUME a = Nothing, t = s PROVE Goal  BY <1>3, <1>13, <1>14
<1>15. ASSUME NEW k \in ResponseKeys, Stored(s, t, a, k) PROVE Goal
  <2>1. t.idempotency = [s.idempotency EXCEPT ![k] = [commandName |-> "response", result |-> a]] /\ a = Nothing
    BY <1>15, StateFields DEF Stored
  <2> HIDE DEF Goal
  <2> QED  BY <1>4, <1>13, <2>1 DEF Keys
<1>16. ASSUME NEW r \in Runs, NEW d \in Decisions, Completed(s, t, a, r, d) PROVE Goal
  <2>1. "completed" \in RunState  BY DEF RunState
  <2> QED  BY <1>9, <1>16, <2>1 DEF Completed
<1> HIDE DEF Goal
<1>17. Goal
  BY <1>6, <1>7, <1>8, <1>9, <1>10, <1>11, <1>12, <1>14, <1>15, <1>16, RequestedAreStates DEF KernelStep
<1> QED  BY <1>17 DEF Goal

\* Only audit events belong to audit aggregates.
LEMMA AuditEvents ==
  ASSUME NEW e \in DomainEvent
  PROVE  e.aggregateId \in Audits <=> e.type = "StateTransitionAudited"
<1>1. \A a \in Runs \cup Contracts \cup Tenants \cup Streams : a \notin Audits
  BY IdsAreDisjoint DEF Aggregates
<1> QED  BY <1>1 DEF DomainEvent

\* What kernels left in a store has no audit of a transition still to come ...
LEMMA WrittenAudits ==
  ASSUME NEW journal, NEW records, WrittenByKernels(journal, records)
  PROVE  \A r \in Runs, v \in Nat :
           v > VersionIn(Replay(journal), r) => CurrentVersion(journal, AuditId(r, v)) = 0
<1> SUFFICES ASSUME NEW r \in Runs, NEW v \in Nat, v > VersionIn(Replay(journal), r)
             PROVE  CurrentVersion(journal, AuditId(r, v)) = 0
  OBVIOUS
<1>1. journal \in Seq(DomainEvent) /\ AuditId(r, v) \in Audits
  BY AuditIds DEF WrittenByKernels
<1>2. Replay(journal) \in Image  BY <1>1, ReplayType
<1>3. VersionIn(Replay(journal), r) \in Nat
  BY <1>2 DEF VersionIn, Image, RunRecord
<1>4. ASSUME NEW i \in Positions(journal, AuditId(r, v)) PROVE FALSE
  <2>1. i \in DOMAIN journal /\ journal[i].aggregateId = <<"audit", r, v>>
    BY DEF Positions, AuditId
  <2>2. journal[i] \in DomainEvent  BY <1>1, <2>1
  <2>3. journal[i].type = "StateTransitionAudited"
    BY <1>1, <2>1, <2>2, AuditEvents DEF AuditId
  <2>4. <<"audit", r, v>>[3] <= VersionIn(Replay(journal), <<"audit", r, v>>[2])
    BY <2>1, <2>3 DEF WrittenByKernels
  <2>5. v <= VersionIn(Replay(journal), r)  BY <2>4
  <2> QED  BY <1>3, <2>5
<1> QED  BY <1>4 DEF CurrentVersion

\* ... and a kernel whose maps are what its journal replays to writes such a store.
LEMMA WrittenFromKernel ==
  ASSUME JournalInv, Replay(events).ok, Replay(events).runs = runs,
         NEW records \in [Keys -> IdempotencyRecord \cup {NoRecord}], RecordsBacked(records, events)
  PROVE  WrittenByKernels(events, records)
<1>1. /\ events \in Seq(DomainEvent) /\ runs \in [Runs -> RunRecord \cup {NoRun}]
      /\ Contiguous(events)
  BY DEF JournalInv, TypeOK, VersionsContiguous
<1>2. \A r \in Runs : VersionIn(Replay(events), r) = RunVersion(r) /\ RunVersion(r) \in Nat
  BY <1>1 DEF VersionIn, RunVersion, RunRecord
<1>3. \A r \in Runs : CurrentVersion(events, r) = VersionIn(Replay(events), r)
  BY <1>2 DEF JournalInv, RunVersionIsJournalVersion, RunVersion
<1>4. ASSUME NEW i \in DOMAIN events, events[i].type = "StateTransitionAudited"
      PROVE  events[i].aggregateId[3] <= VersionIn(Replay(events), events[i].aggregateId[2])
  <2>1. events[i] \in DomainEvent  BY <1>1
  <2>2. PICK r \in Runs, v \in Nat : events[i].aggregateId = <<"audit", r, v>>
    BY <1>4, <2>1, AuditEvents DEF Audits
  <2>3. i \in Positions(events, AuditId(r, v))  BY <2>2 DEF Positions, AuditId
  <2>4. CurrentVersion(events, AuditId(r, v)) # 0
    <3>1. LastPosition(events, AuditId(r, v)) \in DOMAIN events
      BY <1>1, <2>3, LastPositionIsLast DEF Positions
    <3>2. events[LastPosition(events, AuditId(r, v))].aggregateVersion \in Version
      BY <1>1, <3>1 DEF DomainEvent
    <3> QED  BY <2>3, <3>2 DEF CurrentVersion, Version
  <2>5. ~(v > RunVersion(r))  BY <2>4 DEF JournalInv, AuditsBehind
  <2>6. v <= RunVersion(r)  BY <1>2, <2>5
  <2>7. <<"audit", r, v>>[3] = v /\ <<"audit", r, v>>[2] = r  OBVIOUS
  <2> QED  BY <1>2, <2>2, <2>6, <2>7
<1> QED  BY <1>1, <1>3, <1>4 DEF WrittenByKernels, RecordsBacked

\* A kernel loaded from the store satisfies the kernel's invariant.
LEMMA LoadedJournal ==
  ASSUME DurableInv, TypeOK', LoadKernel, UNCHANGED store
  PROVE  JournalInv' /\ Kernel' = StoredState'
<1>1. WrittenByKernels(stored, storedKeys) /\ image = Replay(stored)  BY DEF DurableInv
<1>2. events' = stored /\ runs' = Replay(stored).runs  BY DEF LoadKernel
<1>3. \A r \in Runs, v \in Nat : v > VersionIn(Replay(stored), r) => CurrentVersion(stored, AuditId(r, v)) = 0
  BY <1>1, WrittenAudits
<1>4. VersionsContiguous' /\ RunVersionIsJournalVersion'
  BY <1>1, <1>2 DEF WrittenByKernels, VersionsContiguous, RunVersionIsJournalVersion, VersionIn
<1>5. AuditsBehind'
  BY <1>2, <1>3 DEF AuditsBehind, RunVersion, VersionIn
<1>6. Kernel' = State(stored, Replay(stored).runs, Replay(stored).supervisorDecisions,
                      Replay(stored).identitySeeds, storedKeys)
  BY KernelAfter DEF LoadKernel
<1>7. StoredState' = StoredState  BY DEF StoredState, store
<1> QED  BY <1>1, <1>4, <1>5, <1>6, <1>7 DEF JournalInv, StoredState

\* What the store will hold once it has taken in a command: the kernel.
LEMMA CommittedStore ==
  ASSUME DurableInv, phase = "commit"
  PROVE  /\ stored \o Batch = events
         /\ Replay(events) = ImageOf(Kernel)
         /\ Upserted = idempotency
         /\ Backed(reply, events)
         /\ RecordsBacked(idempotency, events)
         /\ WrittenByKernels(events, idempotency)
         /\ WrittenByKernels(events, storedKeys)
         /\ Continues(stored, events)
<1>1. /\ TypeOK /\ DurableTypeOK /\ JournalInv /\ Continues(stored, events)
      /\ base = Len(stored) /\ KernelStep(StoredState, Kernel, reply)
      /\ WrittenByKernels(stored, storedKeys) /\ image = Replay(stored)
  BY DEF DurableInv, DurableTypeOK
<1>2. /\ events \in Seq(DomainEvent) /\ stored \in Seq(DomainEvent)
      /\ storedKeys \in [Keys -> IdempotencyRecord \cup {NoRecord}]
      /\ idempotency \in [Keys -> IdempotencyRecord \cup {NoRecord}]
      /\ Len(stored) \in Nat /\ Len(events) \in Nat
  BY <1>1 DEF DurableTypeOK, TypeOK
<1>3. image \in Image /\ image.ok
  BY <1>1, <1>2, ReplayType DEF WrittenByKernels
<1>4. /\ StoredState.events = stored
      /\ StoredState.runs = image.runs
      /\ StoredState.supervisorDecisions = image.supervisorDecisions
      /\ StoredState.identitySeeds = image.identitySeeds
      /\ StoredState.idempotency = storedKeys
  BY StateFields DEF StoredState
<1>5. StoredState \in KernelState  BY <1>2, <1>3 DEF StoredState, State, KernelState, Image
<1>6. Kernel \in KernelState  BY <1>1, KernelTyped
<1>7. stored \o Batch = events
  <2> DEFINE longer == stored \o Batch
  <2>1. /\ longer \in Seq(DomainEvent)
        /\ Len(longer) = Len(stored) + (Len(events) - base)
        /\ \A i \in 1..Len(stored) : longer[i] = stored[i]
        /\ \A i \in (Len(stored) + 1)..Len(longer) : longer[i] = events[base + (i - Len(stored))]
    BY <1>1, StoredBatch DEF Continues
  <2> HIDE DEF longer
  <2>2. Len(longer) = Len(events)  BY <1>1, <1>2, <2>1
  <2>3. \A i \in 1..Len(events) : longer[i] = events[i]
    <3> TAKE i \in 1..Len(events)
    <3>1. CASE i \in 1..Len(stored)  BY <1>1, <2>1, <3>1 DEF Continues
    <3>2. CASE i \in (Len(stored) + 1)..Len(longer)
      <4>1. base + (i - Len(stored)) = i  BY <1>1, <1>2, <3>2
      <4> QED  BY <2>1, <3>2, <4>1
    <3> QED  BY <1>2, <2>2, <3>1, <3>2
  <2>4. longer = events  BY <1>2, <2>1, <2>2, <2>3, SeqEqual
  <2> QED  BY <2>4 DEF longer
<1>8. /\ Replay(events).ok
      /\ Replay(events).runs = runs
      /\ Replay(events).identitySeeds = identitySeeds
      /\ Replay(events).supervisorDecisions = supervisorDecisions
  BY <1>1, <1>3, <1>4, <1>5, KernelFields, StepReplays
<1>9. Replay(events) = ImageOf(Kernel)
  <2>1. Replay(events) \in Image  BY <1>2, ReplayType
  <2> QED  BY <1>8, <2>1, KernelFields DEF Image, ImageOf
<1>10. RecordsBacked(storedKeys, stored) /\ Contiguous(stored)
  BY <1>1 DEF WrittenByKernels, RecordsBacked
<1>11. /\ Backed(reply, events)
       /\ RecordsBacked(idempotency, events)
       /\ \A k \in Keys : storedKeys[k] # NoRecord => idempotency[k] # NoRecord
  BY <1>1, <1>4, <1>5, <1>6, <1>10, KernelFields, StepIsBacked
<1>12. Upserted = idempotency  BY <1>2, <1>11 DEF Upserted
<1>13. WrittenByKernels(events, idempotency)
  BY <1>1, <1>2, <1>8, <1>11, WrittenFromKernel
<1>14. WrittenByKernels(events, storedKeys)
  BY <1>1, <1>2, <1>8, <1>10, RecordsStayBacked, WrittenFromKernel
<1> QED  BY <1>1, <1>7, <1>9, <1>11, <1>12, <1>13, <1>14

\* At rest, kernel and store are one state.
LEMMA MirrorIsState ==
  ASSUME image \in Image, image.ok
  PROVE  Kernel = StoredState <=> events = stored /\ idempotency = storedKeys /\ ImageOf(Kernel) = image
<1>1. Kernel = StoredState <=>
        /\ events = stored /\ runs = image.runs /\ supervisorDecisions = image.supervisorDecisions
        /\ identitySeeds = image.identitySeeds /\ idempotency = storedKeys
  BY KernelFields, StateFields DEF Kernel, StoredState
<1>2. ImageOf(Kernel) = image <=>
        /\ runs = image.runs /\ supervisorDecisions = image.supervisorDecisions
        /\ identitySeeds = image.identitySeeds
  BY KernelFields DEF ImageOf, Image
<1> QED  BY <1>1, <1>2

LEMMA DurableInitInv == DurableInit => DurableInv
<1> SUFFICES ASSUME DurableInit PROVE DurableInv  OBVIOUS
<1>1. /\ WrittenByKernels(stored, storedKeys) /\ image = Replay(stored) /\ DurableTypeOK /\ phase = "idle"
      /\ events = stored /\ runs = image.runs /\ supervisorDecisions = image.supervisorDecisions
      /\ identitySeeds = image.identitySeeds /\ idempotency = storedKeys
  BY DurableInitTyped, InitialStoreIsKernels DEF DurableInit
<1>2. Kernel = StoredState  BY <1>1 DEF Kernel, StoredState
<1>3. VersionsContiguous /\ RunVersionIsJournalVersion
  BY <1>1 DEF WrittenByKernels, VersionsContiguous, RunVersionIsJournalVersion, VersionIn
<1>4. \A r \in Runs : VersionIn(Replay(stored), r) = RunVersion(r)
  BY <1>1 DEF VersionIn, RunVersion
<1>5. AuditsBehind  BY <1>1, <1>4, WrittenAudits DEF AuditsBehind
<1> QED  BY <1>1, <1>2, <1>3, <1>5 DEF DurableInv, JournalInv, DurableTypeOK

\* One command: a step from the store's state, or a throw that leaves the store alone.
LEMMA ExecuteKeepsDurable ==
  ASSUME DurableInv, DurableTypeOK', Execute
  PROVE  DurableInv'
<1>1. /\ TypeOK /\ JournalInv /\ Next /\ Kernel = StoredState
      /\ image = Replay(stored) /\ WrittenByKernels(stored, storedKeys)
      /\ base' = Len(events) /\ UNCHANGED store
      /\ phase' = IF reply'.ok THEN "commit" ELSE "reload"
  BY DEF DurableInv, DurableTypeOK, Execute
<1>2. JournalInv'  BY <1>1, NextKeepsJournal
<1>3. StoredState' = StoredState  BY <1>1 DEF store, StoredState
<1>4. (image = Replay(stored))' /\ WrittenByKernels(stored, storedKeys)'
  BY <1>1 DEF store
<1>5. CASE reply'.ok
  <2>1. ~Refused  BY <1>5 DEF Refused, Threw
  <2>2. KernelStep(StoredState, Kernel', reply')  BY <1>1, <2>1, NextIsStep
  <2>3. events = stored  BY <1>1, KernelFields, StateFields DEF StoredState
  <2>4. Ordered(events)  BY <1>1 DEF JournalInv, VersionsContiguous, Contiguous, Ordered
  <2>5. Continues(stored, events')  BY <1>1, <2>3, <2>4, NextContinues
  <2>6. stored' = stored /\ base' = Len(stored) /\ phase' = "commit"  BY <1>1, <1>5, <2>3 DEF store
  <2> QED  BY <1>2, <1>3, <1>4, <2>2, <2>5, <2>6 DEF DurableInv
<1>6. CASE ~reply'.ok
  BY <1>1, <1>2, <1>4, <1>6 DEF DurableInv
<1> QED  BY <1>5, <1>6

LEMMA NextKeepsDurable ==
  ASSUME LoadMayFail = FALSE, DurableInv, [DurableNext]_durableVars
  PROVE  DurableInv'
<1>0. DurableTypeOK'  BY DurableNextKeepsType DEF DurableInv
<1>1. CASE Execute  BY <1>0, <1>1, ExecuteKeepsDurable
<1>2. ASSUME UNCHANGED core PROVE JournalInv'
  <2>1. TypeOK'  BY <1>0 DEF DurableTypeOK
  <2> QED
    BY <1>2, <2>1 DEF core, DurableInv, JournalInv, VersionsContiguous, RunVersionIsJournalVersion,
                      AuditsBehind, RunVersion
<1>3. CASE CommitTransaction
  <2>1. /\ phase = "commit" /\ UNCHANGED core
        /\ stored' = stored \o Batch /\ image' = Replay(stored \o Batch) /\ storedKeys' = Upserted
        /\ phase' = "idle"
    BY <1>3 DEF CommitTransaction, Transaction, AppendBatch, Settles
  <2>2. /\ stored' = events /\ storedKeys' = idempotency /\ image' = Replay(events)
        /\ image' = ImageOf(Kernel) /\ WrittenByKernels(stored, storedKeys)'
    BY <2>1, CommittedStore
  <2>3. StoredState' = Kernel
    BY <2>2 DEF StoredState, Kernel, State, ImageOf
  <2>4. Kernel' = Kernel  BY <2>1, KernelSame
  <2> QED  BY <1>0, <1>2, <2>1, <2>2, <2>3, <2>4 DEF DurableInv
<1>4. CASE LoseCommitAnswer
  <2>1. /\ phase = "commit" /\ UNCHANGED core
        /\ stored' = stored \o Batch /\ image' = Replay(stored \o Batch) /\ storedKeys' = Upserted
        /\ phase' = "reload"
    BY <1>4 DEF LoseCommitAnswer, Transaction, AppendBatch
  <2>2. /\ stored' = events /\ image' = Replay(events) /\ WrittenByKernels(stored, storedKeys)'
    BY <2>1, CommittedStore
  <2> QED  BY <1>0, <1>2, <2>1, <2>2 DEF DurableInv
<1>5. CASE AppendLines
  <2>1. /\ phase = "commit" /\ UNCHANGED vars /\ StoreKind = "file"
        /\ stored' = stored \o Batch /\ image' = Replay(stored \o Batch) /\ storedKeys' = storedKeys
        /\ phase' = "upsert"
    BY <1>5 DEF AppendLines, AppendBatch
  <2>2. /\ stored' = events /\ image' = Replay(events) /\ image' = ImageOf(Kernel)
        /\ WrittenByKernels(stored, storedKeys)'
        /\ RecordsBacked(idempotency, events) /\ Backed(reply, events)
    BY <2>1, CommittedStore
  <2>3. Kernel' = Kernel /\ events' = events /\ idempotency' = idempotency /\ reply' = reply
    BY <2>1, KernelSame DEF vars, core
  <2>4. JournalInv'  BY <1>2, <2>1 DEF vars, core
  <2>5. ImageOf(Kernel') = image' /\ events' = stored' /\ RecordsBacked(idempotency', stored') /\ Backed(reply', stored')
    BY <2>2, <2>3
  <2> QED  BY <1>0, <2>1, <2>2, <2>4, <2>5 DEF DurableInv
<1>6. CASE ReplaceRecords
  <2>1. /\ phase = "upsert" /\ UNCHANGED core /\ storedKeys' = idempotency
        /\ stored' = stored /\ image' = image /\ phase' = "idle"
    BY <1>6 DEF ReplaceRecords, Settles
  <2>2. /\ events = stored /\ ImageOf(Kernel) = image /\ RecordsBacked(idempotency, stored)
        /\ WrittenByKernels(stored, storedKeys) /\ image = Replay(stored)
        /\ idempotency \in [Keys -> IdempotencyRecord \cup {NoRecord}]
    BY <2>1 DEF DurableInv, DurableTypeOK, TypeOK
  <2>3. WrittenByKernels(stored, storedKeys)'
    BY <2>1, <2>2 DEF WrittenByKernels, RecordsBacked
  <2>4. StoredState' = Kernel
    BY <2>1, <2>2 DEF StoredState, Kernel, State, ImageOf
  <2>5. Kernel' = Kernel  BY <2>1, KernelSame
  <2> QED  BY <1>0, <1>2, <2>1, <2>2, <2>3, <2>4, <2>5 DEF DurableInv
<1>7. CASE StoreFails
  BY <1>0, <1>2, <1>7 DEF StoreFails, vars, core, store, DurableInv
<1>8. CASE Reload
  <2>1. TypeOK' /\ LoadKernel /\ UNCHANGED store /\ phase' = "idle"
    BY <1>0, <1>8 DEF Reload, Settles, DurableTypeOK
  <2>2. JournalInv' /\ Kernel' = StoredState'  BY <2>1, LoadedJournal
  <2> QED  BY <1>0, <2>1, <2>2 DEF store, DurableInv
<1>9. CASE ReloadFails  BY <1>9 DEF ReloadFails
<1>10. CASE Crash
  <2>1. events' = <<>> /\ \A r \in Runs : runs'[r] = NoRun
    BY <1>10 DEF Crash, EmptyImage
  <2>2. \A a : CurrentVersion(events', a) = 0  BY <2>1 DEF CurrentVersion, Positions
  <2>3. JournalInv'
    BY <1>0, <2>1, <2>2 DEF JournalInv, DurableTypeOK, VersionsContiguous, Contiguous,
                            RunVersionIsJournalVersion, AuditsBehind, RunVersion
  <2> QED  BY <1>0, <1>10, <2>3 DEF Crash, store, DurableInv
<1>11. CASE Restart
  <2>1. TypeOK' /\ LoadKernel /\ UNCHANGED store /\ phase' = "idle"
    BY <1>0, <1>11 DEF Restart, DurableTypeOK
  <2>2. JournalInv' /\ Kernel' = StoredState'  BY <2>1, LoadedJournal
  <2> QED  BY <1>0, <2>1, <2>2 DEF store, DurableInv
<1>12. CASE UNCHANGED durableVars
  <2>1. JournalInv'  BY <1>2, <1>12 DEF durableVars, vars, core
  <2>2. Kernel' = Kernel /\ StoredState' = StoredState
    BY <1>12, KernelSame DEF durableVars, vars, core, StoredState
  <2> QED  BY <1>0, <1>12, <2>1, <2>2 DEF durableVars, vars, DurableInv
<1> QED
  BY <1>1, <1>3, <1>4, <1>5, <1>6, <1>7, <1>8, <1>9, <1>10, <1>11, <1>12 DEF DurableNext, Commit

LEMMA DurableInvariant ==
  ASSUME LoadMayFail = FALSE
  PROVE  DurableSpec => []DurableInv
BY DurableInitInv, NextKeepsDurable, PTL DEF DurableSpec

\* Between two commands the kernel is exactly what the store would rebuild: whatever failed
\* before, a throw, a commit, an acknowledgement, a crash, nothing a reader is served or the
\* next command builds on can vanish (mutate), as long as reloads themselves succeed.
THEOREM KernelMirrorsStore ==
  ASSUME LoadMayFail = FALSE
  PROVE  DurableSpec => []MemoryMirrorsStore
<1>1. DurableInv => MemoryMirrorsStore
  <2> SUFFICES ASSUME DurableInv, phase = "idle"
               PROVE  events = stored /\ idempotency = storedKeys /\ ImageOf(Kernel) = image
    BY KernelFields DEF MemoryMirrorsStore, ImageOf
  <2>1. image \in Image /\ image.ok /\ Kernel = StoredState
    BY ReplayType DEF DurableInv, WrittenByKernels
  <2> QED  BY <2>1, MirrorIsState
<1> QED  BY <1>1, DurableInvariant, PTL

\* The service can always be started again: no command, failed commit or crash leaves a
\* journal in the store on which replay throws (init).
THEOREM StoreReplays ==
  ASSUME LoadMayFail = FALSE
  PROVE  DurableSpec => []StoreIsReplayable
<1>1. DurableInv => StoreIsReplayable  BY DEF DurableInv, WrittenByKernels, StoreIsReplayable
<1> QED  BY <1>1, DurableInvariant, PTL

\* The store never has a gap or a reordering within an aggregate, whichever of its two
\* writes failed (appendFileSync before writeFileSync, or one transaction).
THEOREM StoreIsContiguous ==
  ASSUME LoadMayFail = FALSE
  PROVE  DurableSpec => []StoredVersionsContiguous
<1>1. DurableInv => StoredVersionsContiguous
  BY DEF DurableInv, WrittenByKernels, StoredVersionsContiguous
<1> QED  BY <1>1, DurableInvariant, PTL

\* What is promised after one more answer.
LEMMA AnswerIsStored ==
  ASSUME DurableTypeOK, Answer, Backed(reply, events), AnsweredIsStored, NEW journal \in Seq(DomainEvent),
         journal = events, Continues(stored, journal)
  PROVE  \A a \in Aggregates : answered'[a] <= CurrentVersion(journal, a)
<1> SUFFICES ASSUME NEW a \in Aggregates PROVE answered'[a] <= CurrentVersion(journal, a)
  OBVIOUS
<1>1. /\ CurrentVersion(stored, a) \in Nat /\ CurrentVersion(journal, a) \in Nat
      /\ answered \in [Aggregates -> Nat] /\ reply \in Reply
  BY CurrentVersionIsNat, DomainEventVersion DEF DurableTypeOK, TypeOK
<1>2. answered[a] <= CurrentVersion(journal, a)
  BY <1>1 DEF AnsweredIsStored, Continues
<1>3. CASE reply.aggregateId = NoAggregate \/ reply.aggregateId # a
  BY <1>1, <1>2, <1>3 DEF Answer
<1>4. CASE reply.aggregateId # NoAggregate /\ reply.aggregateId = a
  <2>1. answered'[a] = Max({answered[a], reply.version})  BY <1>1, <1>4 DEF Answer
  <2>2. reply.version <= CurrentVersion(journal, a)  BY <1>4 DEF Backed
  <2>3. answered[a] \in Nat /\ reply.version \in Nat  BY <1>1 DEF Reply
  <2>4. answered'[a] = answered[a] \/ answered'[a] = reply.version  BY <2>1, <2>3, MaxOfTwo
  <2> QED  BY <1>2, <2>2, <2>4
<1> QED  BY <1>3, <1>4

\* No answer a client was given is taken back: not by a crash, not by a commit that fails or
\* whose acknowledgement is lost, not by the reload that follows (mutate answers after commit).
THEOREM AnswersAreStored ==
  ASSUME LoadMayFail = FALSE
  PROVE  DurableSpec => []AnsweredIsStored
<1>1. DurableInit => AnsweredIsStored
  <2> SUFFICES ASSUME DurableInit PROVE AnsweredIsStored  OBVIOUS
  <2>1. stored \in Seq(DomainEvent)  BY DurableInitTyped DEF DurableTypeOK
  <2>2. \A a : CurrentVersion(stored, a) \in Nat  BY <2>1, CurrentVersionIsNat, DomainEventVersion
  <2>3. \A a \in Aggregates : answered[a] = 0  BY DEF DurableInit
  <2> QED  BY <2>2, <2>3 DEF AnsweredIsStored
<1>2. ASSUME DurableInv, AnsweredIsStored, [DurableNext]_durableVars PROVE AnsweredIsStored'
  <2>0. DurableTypeOK /\ events \in Seq(DomainEvent) /\ stored \in Seq(DomainEvent)
    BY <1>2 DEF DurableInv, DurableTypeOK, TypeOK
  <2>1. ASSUME answered' = answered, stored' = stored PROVE AnsweredIsStored'
    BY <1>2, <2>1 DEF AnsweredIsStored
  <2>2. CASE CommitTransaction
    <3>1. phase = "commit" /\ Answer /\ stored' = stored \o Batch
      BY <2>2 DEF CommitTransaction, Transaction, AppendBatch
    <3>2. stored' = events /\ Backed(reply, events) /\ Continues(stored, events)
      BY <1>2, <3>1, CommittedStore
    <3>3. \A a \in Aggregates : answered'[a] <= CurrentVersion(events, a)
      BY <1>2, <2>0, <3>1, <3>2, AnswerIsStored
    <3> QED  BY <3>2, <3>3 DEF AnsweredIsStored
  <2>3. ASSUME phase = "commit", stored' = stored \o Batch, answered' = answered PROVE AnsweredIsStored'
    <3>1. stored' = events /\ Continues(stored, events)  BY <1>2, <2>3, CommittedStore
    <3>2. \A a : CurrentVersion(stored, a) \in Nat /\ CurrentVersion(events, a) \in Nat
      BY <2>0, CurrentVersionIsNat, DomainEventVersion
    <3> QED  BY <1>2, <2>0, <2>3, <3>1, <3>2 DEF AnsweredIsStored, Continues, DurableTypeOK
  <2>4. CASE ReplaceRecords
    <3>1. phase = "upsert" /\ Answer /\ stored' = stored  BY <2>4 DEF ReplaceRecords
    <3>2. events = stored /\ Backed(reply, events)  BY <1>2, <3>1 DEF DurableInv
    <3>3. Continues(stored, events)
      <4>1. \A a : CurrentVersion(stored, a) \in Nat
        BY <2>0, CurrentVersionIsNat, DomainEventVersion
      <4> QED  BY <2>0, <3>2, <4>1 DEF Continues
    <3>4. \A a \in Aggregates : answered'[a] <= CurrentVersion(events, a)
      BY <1>2, <2>0, <3>1, <3>2, <3>3, AnswerIsStored
    <3> QED  BY <3>1, <3>2, <3>4 DEF AnsweredIsStored
  <2>5. CASE LoseCommitAnswer
    BY <2>3, <2>5 DEF LoseCommitAnswer, Transaction, AppendBatch
  <2>6. CASE AppendLines
    BY <2>3, <2>6 DEF AppendLines, AppendBatch, history
  <2>7. CASE Execute \/ StoreFails \/ Reload \/ ReloadFails \/ Crash \/ Restart
    BY <2>1, <2>7 DEF Execute, StoreFails, Reload, ReloadFails, Crash, Restart, store, history
  <2>8. CASE UNCHANGED durableVars  BY <2>1, <2>8 DEF durableVars
  <2> QED  BY <1>2, <2>2, <2>4, <2>5, <2>6, <2>7, <2>8 DEF DurableNext, Commit
<1> QED  BY <1>1, <1>2, DurableInvariant, PTL DEF DurableSpec

-----------------------------------------------------------------------------
(* What the store shows of the kernel: with one transaction per command    *)
(* the durable service implements the kernel, and what the kernel          *)
(* guarantees of its keys and its decisions holds of the store.            *)

\* The steps that write the store are the last one of a command, and write what it made.
LEMMA StoreWrites ==
  ASSUME LoadMayFail = FALSE, DurableInv, [DurableNext]_durableVars
  PROVE  \/ UNCHANGED store
         \/ /\ StoreKind = "file" /\ phase = "upsert"
            /\ UNCHANGED <<stored, image>> /\ storedKeys' = idempotency
         \/ /\ phase = "commit"
            /\ KernelStep(StoredState, Kernel, reply)
            /\ stored' = events
            /\ image' = ImageOf(Kernel)
            /\ \/ StoreKind = "postgres" /\ storedKeys' = idempotency /\ committed' = reply
               \/ StoreKind = "file" /\ storedKeys' = storedKeys
<1>1. CASE Transaction
  <2>1. phase = "commit" /\ stored' = stored \o Batch /\ image' = Replay(stored \o Batch) /\ storedKeys' = Upserted
        /\ committed' = reply /\ StoreKind = "postgres"
    BY <1>1 DEF Transaction, AppendBatch
  <2> QED  BY <2>1, CommittedStore DEF DurableInv
<1>2. CASE AppendLines
  <2>1. phase = "commit" /\ stored' = stored \o Batch /\ image' = Replay(stored \o Batch) /\ storedKeys' = storedKeys
        /\ StoreKind = "file"
    BY <1>2 DEF AppendLines, AppendBatch
  <2> QED  BY <2>1, CommittedStore DEF DurableInv
<1>3. CASE ReplaceRecords
  BY <1>3 DEF ReplaceRecords, DurableInv
<1>4. CASE Execute \/ StoreFails \/ Reload \/ ReloadFails \/ Crash \/ Restart
  BY <1>4 DEF Execute, StoreFails, Reload, ReloadFails, Crash, Restart
<1>5. CASE UNCHANGED durableVars
  BY <1>5 DEF durableVars, store
<1> QED
  BY <1>1, <1>2, <1>3, <1>4, <1>5 DEF DurableNext, Commit, CommitTransaction, LoseCommitAnswer

-----------------------------------------------------------------------------
(* Retries. *)

\* Every run has the key it was created under.
Retryable(runMap, records) ==
  \A r \in Runs : runMap[r] # NoRun =>
    \E k \in CommandKeys :
      /\ records[k] # NoRecord
      /\ records[k].commandName = "createRun"
      /\ records[k].result.aggregateId = r

\* A command creates a run under a free key, and no command takes a key of another away.
LEMMA StepIsRetryable ==
  ASSUME NEW s \in KernelState, NEW t, NEW a, KernelStep(s, t, a), Retryable(s.runs, s.idempotency)
  PROVE  Retryable(t.runs, t.idempotency)
<1> DEFINE Goal == Retryable(t.runs, t.idempotency)
<1>1. /\ s.runs \in [Runs -> RunRecord \cup {NoRun}]
      /\ s.idempotency \in [Keys -> IdempotencyRecord \cup {NoRecord}]
      /\ CommandKeys \subseteq Keys /\ ResponseKeys \subseteq Keys /\ CommandKeys \cap ResponseKeys = {}
  BY IdsAreDisjoint DEF KernelState, Keys
<1>2. ASSUME t.idempotency = s.idempotency, \A r \in Runs : t.runs[r] # NoRun => s.runs[r] # NoRun
      PROVE  Goal
  BY <1>2 DEF Retryable
<1>3. ASSUME NEW k \in Keys, k \in CommandKeys => s.idempotency[k] = NoRecord, NEW record,
             t.idempotency = [s.idempotency EXCEPT ![k] = record], t.runs = s.runs
      PROVE  Goal
  <2> SUFFICES ASSUME NEW r \in Runs, t.runs[r] # NoRun
               PROVE  \E l \in CommandKeys :
                        /\ t.idempotency[l] # NoRecord
                        /\ t.idempotency[l].commandName = "createRun"
                        /\ t.idempotency[l].result.aggregateId = r
    BY DEF Retryable
  <2>1. PICK l \in CommandKeys : /\ s.idempotency[l] # NoRecord
                                 /\ s.idempotency[l].commandName = "createRun"
                                 /\ s.idempotency[l].result.aggregateId = r
    BY <1>3 DEF Retryable
  <2>2. l # k /\ t.idempotency[l] = s.idempotency[l]  BY <1>1, <1>3, <2>1
  <2> QED  BY <2>1, <2>2
<1>4. ASSUME NEW k \in CommandKeys, Cached(s, t, a, k) PROVE Goal
  BY <1>2, <1>4 DEF Cached
<1>5. ASSUME NEW k \in CommandKeys, NEW x \in Tenants, NEW w \in Workspaces, Seeded(s, t, a, k, x, w) PROVE Goal
  <2> HIDE DEF Goal
  <2> QED  BY <1>1, <1>3, <1>5, StateFields DEF Seeded
<1>6. ASSUME NEW k \in CommandKeys, NEW r \in Runs, Created(s, t, a, k, r) PROVE Goal
  <2> DEFINE record == [commandName |-> "createRun", result |-> a]
  <2>1. /\ s.idempotency[k] = NoRecord
        /\ a = Done(r, 1)
        /\ t.runs = [s.runs EXCEPT ![r] = NewRun]
        /\ t.idempotency = [s.idempotency EXCEPT ![k] = record]
    BY <1>6, StateFields DEF Created
  <2>2. a \in Reply /\ a.aggregateId = r
    BY <2>1, ReplyTypes DEF Aggregates, Done
  <2>3. record \in IdempotencyRecord /\ record # NoRecord
    BY <2>2, NullsAreDistinct DEF IdempotencyRecord
  <2>4. record.commandName = "createRun" /\ record.result.aggregateId = r  BY <2>2
  <2> HIDE DEF record
  <2>5. t.idempotency[k] = record /\ \A l \in CommandKeys : l # k => t.idempotency[l] = s.idempotency[l]
    BY <1>1, <2>1
  <2> SUFFICES ASSUME NEW q \in Runs, t.runs[q] # NoRun
               PROVE  \E l \in CommandKeys :
                        /\ t.idempotency[l] # NoRecord
                        /\ t.idempotency[l].commandName = "createRun"
                        /\ t.idempotency[l].result.aggregateId = q
    BY DEF Retryable
  <2>6. CASE q = r  BY <2>3, <2>4, <2>5, <2>6
  <2>7. CASE q # r
    <3>1. s.runs[q] # NoRun  BY <1>1, <2>1, <2>7
    <3>2. PICK l \in CommandKeys : /\ s.idempotency[l] # NoRecord
                                   /\ s.idempotency[l].commandName = "createRun"
                                   /\ s.idempotency[l].result.aggregateId = q
      BY <3>1 DEF Retryable
    <3>3. l # k  BY <2>1, <3>2
    <3> QED  BY <2>5, <3>2, <3>3
  <2> QED  BY <2>6, <2>7
<1>7. ASSUME NEW r \in Runs, NEW run, s.runs[r] # NoRun, t.runs = [s.runs EXCEPT ![r] = run],
             t.idempotency = s.idempotency
      PROVE  Goal
  <2>1. \A q \in Runs : t.runs[q] # NoRun => s.runs[q] # NoRun  BY <1>1, <1>7
  <2> QED  BY <1>2, <1>7, <2>1
<1>8. ASSUME NEW r \in Runs, NEW to \in RunState, Transitioned(s, t, a, r, to) PROVE Goal
  <2> HIDE DEF Goal
  <2> QED  BY <1>7, <1>8, StateFields DEF Transitioned
<1>9. ASSUME NEW d \in Decisions, NEW r \in Runs, DecisionTaken(s, t, a, d, r) PROVE Goal
  <2> HIDE DEF Goal
  <2> QED  BY <1>7, <1>9, StateFields DEF DecisionTaken
<1>10. ASSUME NEW c, Accepted(s, t, a, c) PROVE Goal
  BY <1>2, <1>10, StateFields DEF Accepted
<1>11. ASSUME NEW x, NEW type, Streamed(s, t, a, x, type) PROVE Goal
  BY <1>2, <1>11, StateFields DEF Streamed
<1>12. ASSUME t = s PROVE Goal  BY <1>2, <1>12
<1>13. ASSUME NEW k \in ResponseKeys, Stored(s, t, a, k) PROVE Goal
  <2> HIDE DEF Goal
  <2> QED  BY <1>1, <1>3, <1>13, StateFields DEF Stored
<1>14. ASSUME NEW r \in Runs, NEW d \in Decisions, Completed(s, t, a, r, d) PROVE Goal
  <2>1. "completed" \in RunState  BY DEF RunState
  <2> QED  BY <1>8, <1>14, <2>1 DEF Completed
<1> HIDE DEF Goal
<1>15. Goal
  BY <1>4, <1>5, <1>6, <1>8, <1>9, <1>10, <1>11, <1>12, <1>13, <1>14, RequestedAreStates DEF KernelStep
<1> QED  BY <1>15 DEF Goal

\* The state the store stands for is one of the kernel.
LEMMA StoredStateTyped ==
  ASSUME DurableInv
  PROVE  /\ StoredState \in KernelState
         /\ StoredState.events = stored
         /\ StoredState.runs = image.runs
         /\ StoredState.supervisorDecisions = image.supervisorDecisions
         /\ StoredState.identitySeeds = image.identitySeeds
         /\ StoredState.idempotency = storedKeys
         /\ image \in Image /\ image.ok
<1>1. image \in Image /\ image.ok
  BY ReplayType DEF DurableInv, DurableTypeOK, WrittenByKernels
<1> QED  BY <1>1, StateFields DEF DurableInv, DurableTypeOK, StoredState, State, KernelState, Image

StoreRetryable == Retryable(image.runs, storedKeys)

\* With one transaction per command, a run in the store can be asked for again under a key that
\* is in the store with it, at every moment: the client that lost its answer is not told "Run
\* already exists" (createRun, PostgresCoreStore.commit).  The two files do not give this.
THEOREM StoredRunsStayRetryable ==
  ASSUME LoadMayFail = FALSE, StoreKind = "postgres",
         Retryable(Replay(InitialJournal).runs, InitialRecords)
  PROVE  DurableSpec => []StoredRunsAreRetryable
<1>1. DurableInit => StoreRetryable  BY DEF DurableInit, StoreRetryable
<1>2. ASSUME StoreRetryable, DurableInv, [DurableNext]_durableVars PROVE StoreRetryable'
  <2>1. CASE UNCHANGED store  BY <1>2, <2>1 DEF store, StoreRetryable
  <2>2. ASSUME KernelStep(StoredState, Kernel, reply), image' = ImageOf(Kernel), storedKeys' = idempotency
        PROVE  StoreRetryable'
    <3>1. Retryable(Kernel.runs, Kernel.idempotency)
      BY <1>2, <2>2, StoredStateTyped, StepIsRetryable DEF StoreRetryable
    <3> QED  BY <2>2, <3>1, KernelFields DEF ImageOf, StoreRetryable
  <2> QED  BY <1>2, <2>1, <2>2, StoreWrites
<1>3. StoreRetryable => StoredRunsAreRetryable  BY DEF StoreRetryable, Retryable, StoredRunsAreRetryable
<1> QED  BY <1>1, <1>2, <1>3, DurableInvariant, PTL DEF DurableSpec

-----------------------------------------------------------------------------
(* Decisions behind completed runs. *)

HasDecision(journal) == \E i \in DOMAIN journal : journal[i].type = "SupervisorDecisionRecorded"

\* A decision that replay brings back was journaled.
LEMMA ReplayedDecisionsAreJournaled ==
  ASSUME NEW journal \in Seq(DomainEvent), NEW d \in Decisions,
         Replay(journal).supervisorDecisions[d] # NoRun
  PROVE  HasDecision(journal)
<1> SUFFICES ASSUME \A i \in DOMAIN journal : journal[i].type # "SupervisorDecisionRecorded"
             PROVE  Replay(journal).supervisorDecisions[d] = NoRun
  BY DEF HasDecision
<1> DEFINE n == Len(journal)
<1>1. n \in Nat /\ DOMAIN journal = 1..n /\ \A i \in 1..n : journal[i] \in DomainEvent  OBVIOUS
<1> HIDE DEF n
<1>2. PICK f : Unfolds(f, journal, n) /\ Replay(journal) = f[n]  BY ReplayUnfolded DEF n
<1> DEFINE S == {i \in Nat : i <= n => f[i] \in Image /\ f[i].supervisorDecisions[d] = NoRun}
<1>3. 0 \in S
  <2>1. f[0] = EmptyImage  BY <1>1, <1>2, UnfoldsAt
  <2>2. EmptyImage.supervisorDecisions[d] = NoRun  BY DEF EmptyImage
  <2> QED  BY <2>1, <2>2, EmptyImageType
<1>4. ASSUME NEW i \in Nat, i \in S PROVE i + 1 \in S
  <2>1. SUFFICES ASSUME i + 1 <= n
                 PROVE  f[i + 1] \in Image /\ f[i + 1].supervisorDecisions[d] = NoRun
    OBVIOUS
  <2>2. i + 1 \in 1..n /\ (i + 1) - 1 = i  BY <1>1, <2>1
  <2>3. f[i + 1] = ApplyEvent(f[i], journal[i + 1])  BY <1>1, <1>2, <2>2, UnfoldsAt
  <2>4. f[i] \in Image /\ f[i].supervisorDecisions[d] = NoRun  BY <1>1, <1>4, <2>1
  <2> DEFINE before == f[i]
             e == journal[i + 1]
  <2>5. e \in DomainEvent /\ e.type # "SupervisorDecisionRecorded"  BY <1>1, <2>2
  <2> HIDE DEF before, e
  <2>6. ApplyEvent(before, e) \in Image  BY <2>4, <2>5, ApplyEventType DEF before
  <2>7. ApplyEvent(before, e).supervisorDecisions = before.supervisorDecisions
    BY <2>4, <2>5 DEF ApplyEvent, Image, before
  <2> QED  BY <2>3, <2>4, <2>6, <2>7 DEF before, e
<1> HIDE DEF S
<1>5. Nat \subseteq S  BY <1>3, <1>4, NatInductionOnSet
<1> QED  BY <1>1, <1>2, <1>5 DEF S

DecisionBehind(runMap, journal) ==
  \A r \in Runs : (runMap[r] # NoRun /\ runMap[r].state = "completed") => HasDecision(journal)

LEMMA DecisionStays ==
  ASSUME NEW journal \in Seq(DomainEvent), NEW longer \in Seq(DomainEvent), Continues(journal, longer),
         HasDecision(journal)
  PROVE  HasDecision(longer)
<1>1. PICK i \in 1..Len(journal) : journal[i].type = "SupervisorDecisionRecorded"
  BY DEF HasDecision
<1>2. i \in 1..Len(longer) /\ longer[i] = journal[i]  BY <1>1 DEF Continues
<1> QED  BY <1>1, <1>2 DEF HasDecision

\* Without a request for "completed", only completeRun completes a run, and it asks for a decision
\* that the map of a kernel loaded from this journal has.
LEMMA StepHasDecision ==
  ASSUME NEW s \in KernelState, NEW t \in KernelState, NEW a, KernelStep(s, t, a),
         "completed" \notin RequestedStates, Continues(s.events, t.events),
         s.supervisorDecisions = Replay(s.events).supervisorDecisions,
         DecisionBehind(s.runs, s.events)
  PROVE  DecisionBehind(t.runs, t.events)
<1> DEFINE Goal == DecisionBehind(t.runs, t.events)
<1>1. /\ s.events \in Seq(DomainEvent) /\ t.events \in Seq(DomainEvent)
      /\ s.runs \in [Runs -> RunRecord \cup {NoRun}]
      /\ HasDecision(s.events) => HasDecision(t.events)
  BY DecisionStays DEF KernelState
<1>2. ASSUME HasDecision(s.events) PROVE Goal
  BY <1>1, <1>2 DEF DecisionBehind
<1>3. ASSUME \A r \in Runs : t.runs[r] # NoRun /\ t.runs[r].state = "completed"
                               => s.runs[r] # NoRun /\ s.runs[r].state = "completed"
      PROVE  Goal
  BY <1>1, <1>3 DEF DecisionBehind
<1>4. ASSUME t.runs = s.runs PROVE Goal  BY <1>3, <1>4
<1>5. ASSUME NEW r \in Runs, NEW run, t.runs = [s.runs EXCEPT ![r] = run],
             run.state # "completed" \/ (s.runs[r] # NoRun /\ s.runs[r].state = run.state)
      PROVE  Goal
  <2>1. t.runs[r] = run /\ \A q \in Runs : q # r => t.runs[q] = s.runs[q]  BY <1>1, <1>5
  <2> QED  BY <1>3, <1>5, <2>1
<1>6. ASSUME NEW k \in CommandKeys, NEW r \in Runs, Created(s, t, a, k, r) PROVE Goal
  <2>1. NewRun.state # "completed"  BY DEF NewRun
  <2> HIDE DEF Goal
  <2> QED  BY <1>5, <1>6, <2>1, StateFields DEF Created
<1>7. ASSUME NEW r \in Runs, NEW to \in RequestedStates, Transitioned(s, t, a, r, to) PROVE Goal
  <2> DEFINE run == Moved(s.runs[r], to, s.runs[r].version + 1)
  <2>1. s.runs[r] \in RunRecord /\ t.runs = [s.runs EXCEPT ![r] = run]
    BY <1>1, <1>7, StateFields DEF Transitioned
  <2>2. run.state = to  BY <2>1 DEF Moved, RunRecord
  <2>3. to # "completed"  OBVIOUS
  <2> HIDE DEF Goal, run
  <2> QED  BY <1>5, <2>1, <2>2, <2>3
<1>8. ASSUME NEW d \in Decisions, NEW r \in Runs, DecisionTaken(s, t, a, d, r) PROVE Goal
  <2> DEFINE run == Decided(s.runs[r], d, s.runs[r].version + 1)
  <2>1. s.runs[r] # NoRun /\ s.runs[r] \in RunRecord /\ t.runs = [s.runs EXCEPT ![r] = run]
    BY <1>1, <1>8, StateFields DEF DecisionTaken
  <2>2. run.state = s.runs[r].state  BY <2>1 DEF Decided, RunRecord
  <2> HIDE DEF Goal, run
  <2> QED  BY <1>5, <2>1, <2>2
<1>9. ASSUME NEW r \in Runs, NEW d \in Decisions, Completed(s, t, a, r, d) PROVE Goal
  <2>1. HasDecision(s.events)
    BY <1>1, <1>9, ReplayedDecisionsAreJournaled DEF Completed
  <2> QED  BY <1>2, <2>1
<1>10. ASSUME NEW k, NEW x, NEW w, Seeded(s, t, a, k, x, w) PROVE Goal
  BY <1>4, <1>10, StateFields DEF Seeded
<1>11. ASSUME NEW c, Accepted(s, t, a, c) PROVE Goal
  BY <1>4, <1>11, StateFields DEF Accepted
<1>12. ASSUME NEW x, NEW type, Streamed(s, t, a, x, type) PROVE Goal
  BY <1>4, <1>12, StateFields DEF Streamed
<1>13. ASSUME NEW k, Stored(s, t, a, k) PROVE Goal
  BY <1>4, <1>13, StateFields DEF Stored
<1>14. ASSUME t = s PROVE Goal  BY <1>4, <1>14
<1> HIDE DEF Goal
<1>15. Goal
  BY <1>6, <1>7, <1>8, <1>9, <1>10, <1>11, <1>12, <1>13, <1>14 DEF KernelStep, Cached
<1> QED  BY <1>15 DEF Goal

CompletionDecided == DecisionBehind(image.runs, stored)

\* Where clients complete runs through completeRun only, no run is completed in the store without
\* a supervisor decision in the store: not even when the decision's own command threw or its
\* commit failed, for the map is rebuilt from the journal before the next command.
THEOREM StoredCompletionsAreDecided ==
  ASSUME LoadMayFail = FALSE, "completed" \notin RequestedStates,
         DecisionBehind(Replay(InitialJournal).runs, InitialJournal)
  PROVE  DurableSpec => []StoredCompletionHasDecision
<1>1. DurableInit => CompletionDecided  BY DEF DurableInit, CompletionDecided
<1>2. ASSUME CompletionDecided, DurableInv, [DurableNext]_durableVars PROVE CompletionDecided'
  <2>1. ASSUME UNCHANGED <<stored, image>> PROVE CompletionDecided'
    BY <1>2, <2>1 DEF CompletionDecided
  <2>2. CASE UNCHANGED store  BY <2>1, <2>2 DEF store
  <2>3. ASSUME phase = "commit", KernelStep(StoredState, Kernel, reply), image' = ImageOf(Kernel), stored' = events
        PROVE  CompletionDecided'
    <3>1. /\ Continues(stored, events) /\ image = Replay(stored) /\ Kernel \in KernelState
      BY <1>2, <2>3, KernelTyped DEF DurableInv, DurableTypeOK
    <3>2. /\ StoredState \in KernelState
          /\ StoredState.events = stored
          /\ StoredState.runs = image.runs
          /\ StoredState.supervisorDecisions = image.supervisorDecisions
      BY <1>2, StoredStateTyped
    <3>3. DecisionBehind(Kernel.runs, Kernel.events)
      BY <1>2, <2>3, <3>1, <3>2, KernelFields, StepHasDecision DEF CompletionDecided
    <3> QED  BY <2>3, <3>3, KernelFields DEF ImageOf, CompletionDecided
  <2> QED  BY <1>2, <2>1, <2>2, <2>3, StoreWrites
<1>3. CompletionDecided => StoredCompletionHasDecision
  BY DEF CompletionDecided, DecisionBehind, HasDecision, StoredCompletionHasDecision
<1> QED  BY <1>1, <1>2, <1>3, DurableInvariant, PTL DEF DurableSpec

-----------------------------------------------------------------------------
(* One transaction per command: the store behaves like the kernel. *)

\* The instance reads journals as the kernel does.
LEMMA SameJournal ==
  /\ \A j, a : StoredKernel!CurrentVersion(j, a) = CurrentVersion(j, a)
  /\ \A j, a, v : StoredKernel!CanAppend(j, a, v) <=> CanAppend(j, a, v)
  /\ \A j, a, type, p : StoredKernel!Appended(j, a, type, p) = Appended(j, a, type, p)
  /\ \A j, a : StoredKernel!Positions(j, a) = Positions(j, a)
<1>1. \A j, a : StoredKernel!Positions(j, a) = Positions(j, a)
  BY DEF StoredKernel!Positions, Positions
<1>2. \A j, a : StoredKernel!LastPosition(j, a) = LastPosition(j, a)
  BY <1>1 DEF StoredKernel!LastPosition, LastPosition
<1>3. \A j, a : StoredKernel!CurrentVersion(j, a) = CurrentVersion(j, a)
  BY <1>1, <1>2 DEF StoredKernel!CurrentVersion, CurrentVersion
<1>4. \A j, a, v : StoredKernel!CanAppend(j, a, v) <=> CanAppend(j, a, v)
  BY <1>3 DEF StoredKernel!CanAppend, CanAppend
<1>5. \A j, a, type, p : StoredKernel!Appended(j, a, type, p) = Appended(j, a, type, p)
  BY <1>3 DEF StoredKernel!Appended, Appended, StoredKernel!Event, Event
<1> QED  BY <1>1, <1>3, <1>4, <1>5

\* And builds the same values.
LEMMA SameValues ==
  /\ \A a, v : StoredKernel!Done(a, v) = Done(a, v)
  /\ StoredKernel!Nothing = Nothing
  /\ StoredKernel!NewRun = NewRun
  /\ StoredKernel!EmptyImage = EmptyImage
  /\ StoredKernel!Keys = Keys
  /\ \A run, to, v : StoredKernel!Moved(run, to, v) = Moved(run, to, v)
  /\ \A run, d, v : StoredKernel!Decided(run, d, v) = Decided(run, d, v)
  /\ \A r, v : StoredKernel!AuditId(r, v) = AuditId(r, v)
  /\ \A from, to : StoredKernel!CanTransition(from, to) <=> CanTransition(from, to)
<1>1. StoredKernel!Nothing = Nothing
  BY DEF StoredKernel!Nothing, Nothing, StoredKernel!Done, Done
<1>2. StoredKernel!RunState = RunState /\ StoredKernel!Terminal = Terminal
  BY DEF StoredKernel!RunState, RunState, StoredKernel!Terminal, Terminal
<1>3. StoredKernel!RUN_TRANSITIONS = RUN_TRANSITIONS
  BY <1>2 DEF StoredKernel!RUN_TRANSITIONS, RUN_TRANSITIONS
<1> QED
  BY <1>1, <1>3 DEF StoredKernel!Done, Done, StoredKernel!NewRun, NewRun,
     StoredKernel!EmptyImage, EmptyImage, StoredKernel!Keys, Keys, StoredKernel!Moved, Moved,
     StoredKernel!Decided, Decided, StoredKernel!AuditId, AuditId,
     StoredKernel!CanTransition, CanTransition

\* The variables of the instance, before and after.
LEMMA StoredFields ==
  /\ StoredState.events = stored
  /\ StoredState.runs = image.runs
  /\ StoredState.supervisorDecisions = image.supervisorDecisions
  /\ StoredState.identitySeeds = image.identitySeeds
  /\ StoredState.idempotency = storedKeys
  BY StateFields DEF StoredState

LEMMA StoredAfter ==
  StoredState' = State(stored', image'.runs, image'.supervisorDecisions, image'.identitySeeds, storedKeys')
  BY DEF StoredState, State

LEMMA StoredFieldsAfter ==
  ASSUME NEW j, NEW rs, NEW ds, NEW is, NEW ks, StoredState' = State(j, rs, ds, is, ks)
  PROVE  /\ stored' = j
         /\ image'.runs = rs
         /\ image'.supervisorDecisions = ds
         /\ image'.identitySeeds = is
         /\ storedKeys' = ks
<1>1. /\ StoredState'.events = stored'
      /\ StoredState'.runs = image'.runs
      /\ StoredState'.supervisorDecisions = image'.supervisorDecisions
      /\ StoredState'.identitySeeds = image'.identitySeeds
      /\ StoredState'.idempotency = storedKeys'
  BY StateFields, StoredAfter
<1> QED  BY <1>1, StateFields

LEMMA StoredSame ==
  ASSUME StoredState' = StoredState
  PROVE  UNCHANGED <<stored, image.runs, image.supervisorDecisions, image.identitySeeds, storedKeys>>
<1>1. /\ StoredState'.events = stored'
      /\ StoredState'.runs = image'.runs
      /\ StoredState'.supervisorDecisions = image'.supervisorDecisions
      /\ StoredState'.identitySeeds = image'.identitySeeds
      /\ StoredState'.idempotency = storedKeys'
  BY StateFields, StoredAfter
<1> QED  BY <1>1, StoredFields

StoredTransition(r, to) == Transitioned(StoredState, StoredState', committed', r, to)

\* transitionRun, also as completeRun's second half.
LEMMA TransitionIsKernel ==
  ASSUME NEW r \in Runs, NEW to, StoredTransition(r, to), image.runs[r] \in RunRecord
  PROVE  StoredKernel!TransitionRun(r, to)
<1> DEFINE version == image.runs[r].version + 1
           step    == [from |-> image.runs[r].state, to |-> to]
           changed == Appended(stored, r, "RunStateChanged", step)
           next    == Moved(image.runs[r], to, version)
<1>1. /\ image.runs[r] # NoRun
      /\ CanTransition(image.runs[r].state, to)
      /\ CanAppend(stored, r, image.runs[r].version)
      /\ CanAppend(changed, AuditId(r, version), 0)
      /\ Len(stored) + 2 <= MaxEvents
      /\ committed' = Done(r, version)
      /\ stored' = Appended(changed, AuditId(r, version), "StateTransitionAudited", step)
      /\ image'.runs = [image.runs EXCEPT ![r] = next]
      /\ image'.supervisorDecisions = image.supervisorDecisions
      /\ image'.identitySeeds = image.identitySeeds
      /\ storedKeys' = storedKeys
  <2>1. StepOf(StoredState, r, to) = step /\ ChangedBy(StoredState, r, to) = changed
    BY StoredFields DEF StepOf, ChangedBy
  <2> HIDE DEF step, changed, version
  <2> QED
    BY <2>1, StoredFields, StoredFieldsAfter DEF StoredTransition, Transitioned, Fits, version
<1>2. next.version = version  BY DEF Moved, RunRecord
<1> HIDE DEF step, changed, next, version
<1>3. StoredKernel!CanTransitionRun(r, to)
  BY <1>1, SameJournal, SameValues DEF StoredKernel!CanTransitionRun
<1>4. StoredKernel!HasRoom(2)  BY <1>1 DEF StoredKernel!HasRoom
<1> QED
  BY <1>1, <1>2, <1>3, <1>4, SameJournal, SameValues
  DEF StoredKernel!TransitionRun, step, changed, next, version

\* Each way a command can succeed, seen through the store, is a step of the kernel.
LEMMA StepIsKernel ==
  ASSUME image.runs \in [Runs -> RunRecord \cup {NoRun}],
         KernelStep(StoredState, StoredState', committed')
  PROVE  StoredKernel!Next
<1> DEFINE s == StoredState
           t == StoredState'
           a == committed'
<1>1. ASSUME NEW k \in CommandKeys, Cached(s, t, a, k)
      PROVE  StoredKernel!RepliesFromCache(k)
  BY <1>1, StoredFields, StoredSame DEF Cached, StoredKernel!RepliesFromCache, StoredKernel!core
<1>2. ASSUME NEW k \in CommandKeys, NEW x \in Tenants, NEW w \in Workspaces, Seeded(s, t, a, k, x, w)
      PROVE  StoredKernel!Next
  <2> DEFINE changed == Appended(stored, x, "TenantUserWorkspaceSeeded", w)
             seeds   == image.identitySeeds \cup {<<x, w>>}
             keys    == [storedKeys EXCEPT ![k] = [commandName |-> "seedIdentity", result |-> a]]
  <2>1. /\ storedKeys[k] = NoRecord
        /\ Len(stored) + 1 <= MaxEvents
        /\ a = Done(x, CurrentVersion(stored, x) + 1)
        /\ t = State(changed, image.runs, image.supervisorDecisions, seeds, keys)
    BY <1>2, StoredFields DEF Seeded, Fits
  <2>2. /\ stored' = changed
        /\ image'.runs = image.runs
        /\ image'.supervisorDecisions = image.supervisorDecisions
        /\ image'.identitySeeds = seeds
        /\ storedKeys' = keys
    <3> HIDE DEF changed, seeds, keys
    <3> QED  BY <2>1, StoredFieldsAfter
  <2>3. StoredKernel!SeedIdentity(k, x, w, TRUE)
    BY <2>1, <2>2, SameJournal, SameValues DEF StoredKernel!SeedIdentity, StoredKernel!HasRoom, StoredKernel!Remember
  <2> QED  BY <2>3 DEF StoredKernel!Next
<1>3. ASSUME NEW k \in CommandKeys, NEW r \in Runs, Created(s, t, a, k, r)
      PROVE  StoredKernel!Next
  <2>1. /\ storedKeys[k] = NoRecord
        /\ image.runs[r] = NoRun
        /\ CanAppend(stored, r, 0)
        /\ Len(stored) + 1 <= MaxEvents
        /\ stored' = Appended(stored, r, "RunCreated", NewRun)
        /\ image'.runs = [image.runs EXCEPT ![r] = NewRun]
        /\ image'.supervisorDecisions = image.supervisorDecisions
        /\ image'.identitySeeds = image.identitySeeds
        /\ committed' = Done(r, 1)
        /\ storedKeys' = [storedKeys EXCEPT ![k] = [commandName |-> "createRun", result |-> committed']]
    BY <1>3, StoredFields, StoredFieldsAfter DEF Created, Fits
  <2>2. StoredKernel!CreateRun(k, r)
    BY <2>1, SameJournal, SameValues
    DEF StoredKernel!CreateRun, StoredKernel!CanCreateRun, StoredKernel!HasRoom, StoredKernel!Remember
  <2> QED  BY <2>2 DEF StoredKernel!Next
<1>4. ASSUME NEW r \in Runs, NEW to \in RequestedStates, Transitioned(s, t, a, r, to)
      PROVE  StoredKernel!Next
  <2>1. image.runs[r] \in RunRecord  BY <1>4, StoredFields DEF Transitioned
  <2>2. StoredKernel!TransitionRun(r, to)
    BY <1>4, <2>1, TransitionIsKernel DEF StoredTransition
  <2> QED  BY <2>2 DEF StoredKernel!Next
<1>5. ASSUME NEW d \in Decisions, NEW r \in Runs, DecisionTaken(s, t, a, d, r)
      PROVE  StoredKernel!Next
  <2>1. /\ image.runs[r] # NoRun
        /\ CanAppend(stored, r, image.runs[r].version)
        /\ Len(stored) + 1 <= MaxEvents
        /\ stored' = Appended(stored, r, "SupervisorDecisionRecorded", d)
        /\ image'.runs = [image.runs EXCEPT ![r] = Decided(image.runs[r], d, image.runs[r].version + 1)]
        /\ image'.supervisorDecisions = [image.supervisorDecisions EXCEPT ![d] = r]
        /\ image'.identitySeeds = image.identitySeeds
        /\ committed' = Done(r, image.runs[r].version + 1)
        /\ storedKeys' = storedKeys
    BY <1>5, StoredFields, StoredFieldsAfter DEF DecisionTaken, Fits
  <2>2. StoredKernel!CanJournalDecision(r, TRUE)
    BY <2>1, SameJournal DEF StoredKernel!CanJournalDecision
  <2>3. StoredKernel!RecordSupervisorDecision(d, r, TRUE, TRUE)
    BY <2>1, <2>2, SameJournal, SameValues DEF StoredKernel!RecordSupervisorDecision, StoredKernel!HasRoom
  <2> QED  BY <2>3 DEF StoredKernel!Next
<1>6. ASSUME NEW d \in Decisions, NEW r \in Runs, Completed(s, t, a, r, d)
      PROVE  StoredKernel!Next
  <2>1. /\ image.supervisorDecisions[d] # NoRun
        /\ image.runs[r] # NoRun
        /\ image.runs[r].state = "integrating"
        /\ image.runs[r] \in RunRecord
        /\ d # NoDecision
    BY <1>6, StoredFields, NullsAreDistinct DEF Completed
  <2>2. StoredKernel!TransitionRun(r, "completed")
    BY <1>6, <2>1, TransitionIsKernel DEF Completed, StoredTransition
  <2>3. StoredKernel!CompleteRun(r, d)
    BY <2>1, <2>2 DEF StoredKernel!CompleteRun, StoredKernel!MayComplete
  <2> QED  BY <2>3 DEF StoredKernel!Next
<1>7. ASSUME NEW c \in Contracts, Accepted(s, t, a, c)
      PROVE  StoredKernel!Next
  <2>1. /\ CanAppend(stored, c, 0)
        /\ Len(stored) + 1 <= MaxEvents
        /\ stored' = Appended(stored, c, "AgentTaskContractAccepted", c)
        /\ image'.runs = image.runs
        /\ image'.supervisorDecisions = image.supervisorDecisions
        /\ image'.identitySeeds = image.identitySeeds
        /\ committed' = Done(c, 1)
        /\ storedKeys' = storedKeys
    BY <1>7, StoredFields, StoredFieldsAfter DEF Accepted, Fits
  <2>2. StoredKernel!StartAgentWork(c, TRUE)
    BY <2>1, SameJournal, SameValues DEF StoredKernel!StartAgentWork, StoredKernel!HasRoom
  <2> QED  BY <2>2 DEF StoredKernel!Next
<1>8. ASSUME NEW x \in Streams, NEW type, Streamed(s, t, a, x, type)
      PROVE  StoredKernel!AppendStream(x, type)
  <2>1. /\ Len(stored) + 1 <= MaxEvents
        /\ stored' = Appended(stored, x, type, x)
        /\ image'.runs = image.runs
        /\ image'.supervisorDecisions = image.supervisorDecisions
        /\ image'.identitySeeds = image.identitySeeds
        /\ committed' = Done(x, CurrentVersion(stored, x) + 1)
        /\ storedKeys' = storedKeys
    BY <1>8, StoredFields, StoredFieldsAfter DEF Streamed, Fits
  <2> QED
    BY <2>1, SameJournal, SameValues DEF StoredKernel!AppendStream, StoredKernel!HasRoom
<1>9. ASSUME NEW x \in Streams, Streamed(s, t, a, x, "StreamUpdated")
      PROVE  StoredKernel!Next
  <2>1. StoredKernel!AppendEvent(x, NoVersion, TRUE)
    BY <1>8, <1>9 DEF StoredKernel!AppendEvent
  <2> QED  BY <2>1 DEF StoredKernel!Next
<1>10. ASSUME NEW x \in Streams, ~HasSeed(s, x), Streamed(s, t, a, x, "StreamSeeded")
       PROVE  StoredKernel!Next
  <2>1. ~ \E i \in Positions(stored, x) : stored[i].type = "StreamSeeded"
    BY <1>10, StoredFields DEF HasSeed
  <2>2. StoredKernel!AppendIfMissing(x)
    BY <1>8, <1>10, <2>1, SameJournal DEF StoredKernel!AppendIfMissing
  <2> QED  BY <2>2 DEF StoredKernel!Next
<1>11. ASSUME NEW x \in Streams, HasSeed(s, x), a = Nothing, t = s
       PROVE  StoredKernel!Next
  <2>1. \E i \in Positions(stored, x) : stored[i].type = "StreamSeeded"
    BY <1>11, StoredFields DEF HasSeed
  <2>2. StoredKernel!AppendIfMissing(x)
    BY <1>11, <2>1, StoredSame, SameJournal, SameValues DEF StoredKernel!AppendIfMissing, StoredKernel!core
  <2> QED  BY <2>2 DEF StoredKernel!Next
<1>12. ASSUME NEW k \in ResponseKeys, Stored(s, t, a, k)
       PROVE  StoredKernel!Next
  <2>1. /\ stored' = stored
        /\ image'.runs = image.runs
        /\ image'.supervisorDecisions = image.supervisorDecisions
        /\ image'.identitySeeds = image.identitySeeds
        /\ committed' = Nothing
        /\ storedKeys' = [storedKeys EXCEPT ![k] = [commandName |-> "response", result |-> committed']]
    BY <1>12, StoredFields, StoredFieldsAfter DEF Stored
  <2>2. StoredKernel!PutIdempotency(k)
    BY <2>1, SameValues DEF StoredKernel!PutIdempotency, StoredKernel!Remember
  <2> QED  BY <2>2 DEF StoredKernel!Next
<1>13. ASSUME NEW k \in CommandKeys, NEW x \in Tenants, NEW w \in Workspaces, Cached(s, t, a, k)
       PROVE  StoredKernel!Next
  BY <1>1, <1>13 DEF StoredKernel!SeedIdentity, StoredKernel!Next
<1>14. ASSUME NEW k \in CommandKeys, NEW r \in Runs, Cached(s, t, a, k)
       PROVE  StoredKernel!Next
  BY <1>1, <1>14 DEF StoredKernel!CreateRun, StoredKernel!Next
<1> HIDE DEF s, t, a
<1>15. KernelStep(s, t, a)  BY DEF s, t, a
<1> QED
  BY <1>2, <1>3, <1>4, <1>5, <1>6, <1>7, <1>9, <1>10, <1>11, <1>12, <1>13, <1>14, <1>15 DEF KernelStep

\* With one transaction per command, and a store that was empty at first, the service seen
\* through its store is the kernel: whatever fails between the command and its answer, each
\* command takes effect there at once and entirely, or not at all (mutate over
\* PostgresCoreStore.commit).
THEOREM StoreImplementsKernel ==
  ASSUME LoadMayFail = FALSE, StoreKind = "postgres",
         InitialJournal = <<>>, InitialRecords = [k \in Keys |-> NoRecord]
  PROVE  DurableSpec => ImplementsKernel
<1>1. DurableInit => StoredKernel!Init
  <2> SUFFICES ASSUME DurableInit PROVE StoredKernel!Init  OBVIOUS
  <2>1. stored = <<>> /\ image = EmptyImage /\ storedKeys = [k \in Keys |-> NoRecord] /\ committed = Nothing
    BY ReplayOfNothing DEF DurableInit
  <2> QED  BY <2>1, SameValues DEF StoredKernel!Init
<1>2. ASSUME DurableInv, DurableInv', [DurableNext]_durableVars PROVE [StoredKernel!Next]_StoredKernel!vars
  <2>1. ASSUME UNCHANGED <<store, committed>> PROVE UNCHANGED StoredKernel!vars
    BY <2>1 DEF store, StoredKernel!vars
  <2>2. CASE Transaction
    <3>1. /\ KernelStep(StoredState, Kernel, reply)
          /\ stored' = events /\ image' = ImageOf(Kernel) /\ storedKeys' = idempotency /\ committed' = reply
      <4>1. /\ phase = "commit" /\ stored' = stored \o Batch /\ image' = Replay(stored \o Batch)
            /\ storedKeys' = Upserted /\ committed' = reply
        BY <2>2 DEF Transaction, AppendBatch
      <4> QED  BY <1>2, <4>1, CommittedStore DEF DurableInv
    <3>2. StoredState' = Kernel
      BY <3>1 DEF StoredState, Kernel, State, ImageOf
    <3>3. image.runs \in [Runs -> RunRecord \cup {NoRun}]
      BY <1>2, StoredStateTyped DEF Image
    <3> QED  BY <3>1, <3>2, <3>3, StepIsKernel
  <2>3. ~AppendLines /\ ~ReplaceRecords
    BY <1>2 DEF AppendLines, ReplaceRecords, DurableInv
  <2>4. CASE Execute \/ StoreFails \/ Reload \/ ReloadFails \/ Crash \/ Restart
    BY <2>1, <2>4 DEF Execute, StoreFails, Reload, ReloadFails, Crash, Restart, store, history
  <2>5. CASE UNCHANGED durableVars
    BY <2>1, <2>5 DEF durableVars, store
  <2> QED
    BY <1>2, <2>2, <2>3, <2>4, <2>5 DEF DurableNext, Commit, CommitTransaction, LoseCommitAnswer
<1> QED
  BY <1>1, <1>2, DurableInvariant, PTL DEF DurableSpec, ImplementsKernel, StoredKernel!Spec
=============================================================================
