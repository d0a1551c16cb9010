---------------------------- MODULE DurableCore ----------------------------
(***************************************************************************)
(* The core-control-plane service: DurableCoreRuntime runs kernel commands *)
(* one after another (writeChain), commits what each added to the journal  *)
(* to a store before it answers, and rebuilds the kernel from the store    *)
(* when anything throws.  The steps between two awaits of mutate are the   *)
(* steps of this module, so a failure or a crash can fall between them.    *)
(***************************************************************************)
EXTENDS CoreControlPlane

CONSTANTS
  StoreKind,      \* "postgres": one transaction; "file": two files, one after the other
  LoadMayFail,    \* TRUE when the store can be unreachable while reloading
  InitialJournal, \* the journal the store holds when the service is first started
  InitialRecords  \* and its idempotency records

ASSUME StoreKindIsKnown == StoreKind \in {"postgres", "file"}
ASSUME LoadMayFailIsBoolean == LoadMayFail \in BOOLEAN

\* The version of run r in a replayed state.
VersionIn(replayed, r) == IF replayed.runs[r] = NoRun THEN 0 ELSE replayed.runs[r].version

\* A stored answer promises no version that the journal lacks.
Backed(answer, journal) ==
  answer.aggregateId # NoAggregate => answer.version <= CurrentVersion(journal, answer.aggregateId)

\* What kernels leave in a store: a journal that replays to runs whose versions it carries, no
\* audit of a transition still to come, and records of answers that it backs.
WrittenByKernels(journal, records) ==
  LET replayed == Replay(journal)
  IN  /\ journal \in Seq(DomainEvent)
      /\ records \in [Keys -> IdempotencyRecord \cup {NoRecord}]
      /\ Contiguous(journal)
      /\ replayed.ok
      /\ \A r \in Runs : CurrentVersion(journal, r) = VersionIn(replayed, r)
      /\ \A i \in DOMAIN journal : journal[i].type = "StateTransitionAudited" =>
           journal[i].aggregateId[3] <= VersionIn(replayed, journal[i].aggregateId[2])
      /\ \A k \in Keys : records[k] # NoRecord => Backed(records[k].result, journal)

\* The first start finds an empty store, or one that earlier processes wrote.
ASSUME InitialStoreIsKernels == WrittenByKernels(InitialJournal, InitialRecords)

VARIABLES
  stored,     \* the journal in the store
  storedKeys, \* the idempotency records in the store
  phase,      \* where the head of writeChain stands
  base,       \* beforeCount: the journal's length when the command began
  image,      \* history: what replaying the stored journal gives
  answered,   \* history: aggregate -> the highest version a client was promised
  committed   \* history: the reply of the last command the store took in

store == <<stored, storedKeys, image>>
history == <<answered, committed>>
durableVars == <<vars, stored, storedKeys, image, phase, base, answered, committed>>

Phase == {"idle", "commit", "upsert", "reload", "down"}

\* The service's own variables, beside the kernel's.
DurableTypeOK ==
  /\ TypeOK
  /\ stored \in Seq(DomainEvent)
  /\ storedKeys \in [Keys -> IdempotencyRecord \cup {NoRecord}]
  /\ phase \in Phase
  /\ base \in Nat
  /\ answered \in [Aggregates -> Nat]
  /\ committed \in Reply

-----------------------------------------------------------------------------
\* reloadFromStore: a new kernel over the stored journal and records, then replay,
\* which leaves a half-filled kernel where it throws.
LoadKernel ==
  LET replayed == Replay(stored)
  IN  /\ events' = stored
      /\ runs' = replayed.runs
      /\ supervisorDecisions' = replayed.supervisorDecisions
      /\ identitySeeds' = replayed.identitySeeds
      /\ idempotency' = storedKeys

\* Mutant: a command that throws is not followed by a reload.
ExecuteKeepingLeftovers ==
  /\ phase = "idle"
  /\ Next
  /\ base' = IF reply'.ok THEN Len(events) ELSE 0
  /\ phase' = IF reply'.ok THEN "commit" ELSE "idle"
  /\ UNCHANGED <<store, history>>

\* One link of writeChain begins: the command runs to its end in memory.
Execute ==
  /\ phase = "idle"
  /\ Next
  /\ base' = Len(events)
  /\ phase' = IF reply'.ok THEN "commit" ELSE "reload"
  /\ UNCHANGED <<store, history>>

\* The link ends; writeChain hands over to the next command.
Settles ==
  /\ phase' = "idle"
  /\ base' = 0
  /\ reply' = Nothing

\* Mutant: only the last event of a command is sent.
LastOfBatch == SubSeq(events, Max({base + 1, Len(events)}), Len(events))

Batch == SubSeq(events, base + 1, Len(events))

\* UNIQUE (aggregate_id, aggregate_version)
NoDuplicate ==
  \A i \in DOMAIN Batch, j \in DOMAIN stored :
    <<Batch[i].aggregateId, Batch[i].aggregateVersion>> # <<stored[j].aggregateId, stored[j].aggregateVersion>>

\* Mutant: the transaction leaves the records out.
NotUpserted == storedKeys

\* ON CONFLICT (idempotency_key) DO UPDATE: the records in memory win, others stay.
Upserted == [k \in Keys |-> IF idempotency[k] = NoRecord THEN storedKeys[k] ELSE idempotency[k]]

\* mutate returns the result to its caller.
Answer ==
  answered' = IF reply.aggregateId = NoAggregate
              THEN answered
              ELSE [answered EXCEPT ![reply.aggregateId] = Max({@, reply.version})]

\* PostgresCoreStore.commit returns at once when it is given nothing; the file store
\* rewrites its records in any case.
TouchesStore ==
  StoreKind = "postgres" => (Batch # <<>> \/ \E k \in Keys : idempotency[k] # NoRecord)

AppendBatch ==
  /\ stored' = stored \o Batch
  /\ image' = Replay(stored \o Batch)

\* PostgresCoreStore.commit: the events and every record in one transaction.
Transaction ==
  /\ StoreKind = "postgres"
  /\ phase = "commit"
  /\ NoDuplicate
  /\ AppendBatch
  /\ storedKeys' = Upserted
  /\ committed' = reply
  /\ UNCHANGED core

CommitTransaction ==
  /\ Transaction
  /\ Answer
  /\ Settles

\* COMMIT took effect but its acknowledgement was lost: the client sees an error.
LoseCommitAnswer ==
  /\ TouchesStore
  /\ Transaction
  /\ phase' = "reload"
  /\ UNCHANGED <<reply, base, answered>>

\* FileCoreStore.commit, first half: appendFileSync on the journal.
AppendLines ==
  /\ StoreKind = "file"
  /\ phase = "commit"
  /\ AppendBatch
  /\ phase' = "upsert"
  /\ UNCHANGED <<vars, storedKeys, base, history>>

\* FileCoreStore.commit, second half: writeFileSync to the .tmp file and renameSync.
ReplaceRecords ==
  /\ phase = "upsert"
  /\ storedKeys' = idempotency
  /\ committed' = reply
  /\ Answer
  /\ Settles
  /\ UNCHANGED <<core, stored, image>>

\* Mutant: the failed command is forgotten without a reload.
StoreFailsQuietly ==
  /\ phase \in {"commit", "upsert"}
  /\ Settles
  /\ UNCHANGED <<core, store, history>>

\* Mutant: the client is answered although the store failed.
StoreFailsAnswered ==
  /\ phase \in {"commit", "upsert"}
  /\ phase' = "reload"
  /\ Answer
  /\ UNCHANGED <<vars, store, base, committed>>

\* The store throws and keeps nothing of this half: connection lost, constraint
\* violated and rolled back, disk full.
StoreFails ==
  /\ phase \in {"commit", "upsert"}
  /\ TouchesStore
  /\ phase' = "reload"
  /\ UNCHANGED <<vars, store, base, history>>

Reload ==
  /\ phase = "reload"
  /\ LoadKernel
  /\ Settles
  /\ UNCHANGED <<store, history>>

\* Mutant: the reload makes its empty kernel before it has loaded anything.
ReloadFailsEmpty ==
  /\ LoadMayFail
  /\ phase = "reload"
  /\ Settles
  /\ events' = <<>>
  /\ runs' = EmptyImage.runs
  /\ supervisorDecisions' = EmptyImage.supervisorDecisions
  /\ identitySeeds' = EmptyImage.identitySeeds
  /\ idempotency' = [k \in Keys |-> NoRecord]
  /\ UNCHANGED <<store, history>>

\* loadEvents throws inside the catch of mutate: the kernel stays as the failed
\* command left it and writeChain goes on to the next command.
ReloadFails ==
  /\ LoadMayFail
  /\ phase = "reload"
  /\ Settles
  /\ UNCHANGED <<core, store, history>>

-----------------------------------------------------------------------------
\* The process dies: the kernel is gone, the store stays.
Crash ==
  /\ phase # "down"
  /\ phase' = "down"
  /\ events' = <<>>
  /\ runs' = EmptyImage.runs
  /\ supervisorDecisions' = EmptyImage.supervisorDecisions
  /\ identitySeeds' = EmptyImage.identitySeeds
  /\ idempotency' = [k \in Keys |-> NoRecord]
  /\ reply' = Nothing
  /\ base' = 0
  /\ UNCHANGED <<store, history>>

\* await runtime.init(): where replay throws the process exits and stays down.
Restart ==
  /\ phase = "down"
  /\ Replay(stored).ok
  /\ LoadKernel
  /\ phase' = "idle"
  /\ UNCHANGED <<reply, store, base, history>>

DurableInit ==
  /\ stored = InitialJournal
  /\ storedKeys = InitialRecords
  /\ image = Replay(InitialJournal)
  /\ events = stored
  /\ runs = image.runs
  /\ supervisorDecisions = image.supervisorDecisions
  /\ identitySeeds = image.identitySeeds
  /\ idempotency = storedKeys
  /\ reply = Nothing
  /\ phase = "idle"
  /\ base = 0
  /\ answered = [a \in Aggregates |-> 0]
  /\ committed = Nothing

Commit == CommitTransaction \/ LoseCommitAnswer \/ AppendLines \/ ReplaceRecords \/ StoreFails

DurableNext == Execute \/ Commit \/ Reload \/ ReloadFails \/ Crash \/ Restart

\* A promise that is awaited settles, and the container is restarted when it exits.
Fairness == WF_durableVars(Commit) /\ WF_durableVars(Reload \/ ReloadFails) /\ WF_durableVars(Restart)

DurableSpec == DurableInit /\ [][DurableNext]_durableVars
FairDurableSpec == DurableSpec /\ Fairness

-----------------------------------------------------------------------------
(* Properties *)

\* Between two commands the kernel is exactly what the store would rebuild: nothing a
\* reader is served or the next command builds on can vanish in a restart (mutate).
MemoryMirrorsStore ==
  phase = "idle" =>
    /\ events = stored
    /\ idempotency = storedKeys
    /\ [ok |-> TRUE, runs |-> runs, supervisorDecisions |-> supervisorDecisions,
        identitySeeds |-> identitySeeds] = image

\* What a client was told is done is in the store: no answer is taken back by a crash,
\* a failed commit or a reload.
AnsweredIsStored ==
  \A a \in Aggregates : answered[a] <= CurrentVersion(stored, a)

\* The store can always be replayed, so the service can always be started again.
StoreIsReplayable == image.ok

\* The stored journal has no gap and no reordering within an aggregate.
StoredVersionsContiguous == Contiguous(stored)

\* No version of an aggregate is ever stored twice and none out of order, even by a kernel
\* that went on after a reload that failed and over a store with no UNIQUE constraint.
StoredVersionsIncrease ==
  \A i, j \in DOMAIN stored :
    (i < j /\ stored[i].aggregateId = stored[j].aggregateId)
      => stored[i].aggregateVersion < stored[j].aggregateVersion

\* Every run in the store was created under a key that is in the store too: a client
\* whose answer was lost can retry and gets its run.
StoredRunsAreRetryable ==
  phase = "idle" =>
    \A r \in Runs : image.runs[r] # NoRun =>
      \E k \in CommandKeys :
        /\ storedKeys[k] # NoRecord
        /\ storedKeys[k].commandName = "createRun"
        /\ storedKeys[k].result.aggregateId = r

\* No run is completed in the store without a supervisor decision in the store.
StoredCompletionHasDecision ==
  \A r \in Runs :
    (image.runs[r] # NoRun /\ image.runs[r].state = "completed") =>
      \E i \in DOMAIN stored : stored[i].type = "SupervisorDecisionRecorded"

\* A stopped service comes back.
ComesBack == phase = "down" ~> phase # "down"

\* Seen through its store, the service with one transaction per command is the kernel:
\* every command takes effect at once and entirely, or not at all.
StoredKernel ==
  INSTANCE CoreControlPlane WITH
    events <- stored,
    runs <- image.runs,
    supervisorDecisions <- image.supervisorDecisions,
    identitySeeds <- image.identitySeeds,
    idempotency <- storedKeys,
    reply <- committed
ImplementsKernel == StoredKernel!Spec
=============================================================================
