-------------------------- MODULE CoreControlPlane --------------------------
(***************************************************************************)
(* The class CoreControlPlane of packages/core-kernel: the in-memory       *)
(* kernel that turns commands into journal events and keeps runs,          *)
(* supervisor decisions and identity seeds beside the journal.  Every      *)
(* method is synchronous, so one command is one step; a method that throws *)
(* is a step too, because it may leave part of its work behind.            *)
(***************************************************************************)
EXTENDS RunStates, EventJournal, SequencesExt

CONSTANTS
  Runs,            \* run ids clients may use
  Decisions,       \* supervisor decision ids
  Contracts,       \* agent task contract ids
  Tenants,         \* tenant ids
  Workspaces,      \* workspace ids an identity seed names
  Streams,         \* the other aggregates the gateway appends to
  CommandKeys,     \* idempotency keys of seedIdentity and createRun
  ResponseKeys,    \* idempotency keys the gateway stores its responses under
  RequestedStates, \* the states clients ask transitionRun for
  MaxEvents,       \* bound: journal length at which commands stop appending
  NoRun, NoDecision, NoRecord, NoAggregate, NoVersion

Audits == {"audit"} \X Runs \X Nat       \* `audit_${runId}_${version}`
Aggregates == Runs \cup Contracts \cup Tenants \cup Streams
Keys == CommandKeys \cup ResponseKeys

RunRecord == [state : RunState, version : Nat, supervisorDecisionId : Decisions \cup {NoDecision}]

\* What a command returns: the aggregate it wrote and the version it promises.
Reply == [ok : BOOLEAN, aggregateId : Aggregates \cup {NoAggregate}, version : Nat]

IdempotencyRecord == [commandName : {"seedIdentity", "createRun", "response"}, result : Reply]

\* Ids of different kinds differ, so no two kinds of event share an aggregate.
ASSUME IdsAreDisjoint ==
  /\ Runs \cap (Contracts \cup Tenants \cup Streams) = {}
  /\ Contracts \cap (Tenants \cup Streams) = {}
  /\ Tenants \cap Streams = {}
  /\ CommandKeys \cap ResponseKeys = {}
  /\ \A a \in Aggregates : a \notin Audits

\* An absent run, decision, record or version is none of the present ones.
ASSUME NullsAreDistinct ==
  /\ NoRun \notin Runs \cup RunRecord
  /\ NoDecision \notin Decisions
  /\ NoRecord \notin IdempotencyRecord
  /\ NoAggregate \notin Aggregates
  /\ NoVersion \notin Nat

ASSUME RequestedAreStates == RequestedStates \subseteq RunState
ASSUME MaxEventsIsNatural == MaxEvents \in Nat

VARIABLES
  events,              \* the journal
  runs,                \* run id -> run record, or NoRun
  supervisorDecisions, \* decision id -> the run it names, or NoRun
  identitySeeds,       \* the <<tenant, workspace>> pairs seeded
  idempotency,         \* key -> stored result, or NoRecord
  reply                \* what the last command returned

core == <<events, runs, supervisorDecisions, identitySeeds, idempotency>>
vars == <<events, runs, supervisorDecisions, identitySeeds, idempotency, reply>>

-----------------------------------------------------------------------------
(* Types *)

Version == Nat \ {0}

\* The events replay reads, the audit trail, and those it passes over.
DomainEvent ==
       [aggregateId : Tenants, aggregateVersion : Version,
        type : {"TenantUserWorkspaceSeeded"}, payload : Workspaces]
  \cup [aggregateId : Runs, aggregateVersion : Version,
        type : {"RunCreated"}, payload : RunRecord]
  \cup [aggregateId : Runs, aggregateVersion : Version,
        type : {"RunStateChanged"}, payload : [from : RunState, to : RunState]]
  \cup [aggregateId : Runs, aggregateVersion : Version,
        type : {"SupervisorDecisionRecorded"}, payload : Decisions]
  \cup [aggregateId : Audits, aggregateVersion : Version,
        type : {"StateTransitionAudited"}, payload : [from : RunState, to : RunState]]
  \cup [aggregateId : Contracts, aggregateVersion : Version,
        type : {"AgentTaskContractAccepted"}, payload : Contracts]
  \cup [aggregateId : Streams, aggregateVersion : Version,
        type : {"StreamSeeded", "StreamUpdated"}, payload : Streams]

\* The variables hold what the declarations of the class say they hold.
TypeOK ==
  /\ events \in Seq(DomainEvent)
  /\ runs \in [Runs -> RunRecord \cup {NoRun}]
  /\ supervisorDecisions \in [Decisions -> Runs \cup {NoRun}]
  /\ identitySeeds \subseteq Tenants \X Workspaces
  /\ idempotency \in [Keys -> IdempotencyRecord \cup {NoRecord}]
  /\ reply \in Reply

-----------------------------------------------------------------------------
(* Replay: the state the constructor and replay() rebuild from a journal.  *)
(* It stops (ok = FALSE) where requireRun throws, keeping what it had.     *)

EmptyImage ==
  [ok |-> TRUE,
   runs |-> [r \in Runs |-> NoRun],
   supervisorDecisions |-> [d \in Decisions |-> NoRun],
   identitySeeds |-> {}]

Moved(run, to, version) == [run EXCEPT !.state = to, !.version = version]

\* Mutant: the decision is noted on the run but its version is not.
DecidedInPlace(run, d, version) == [run EXCEPT !.supervisorDecisionId = d]

Decided(run, d, version) == [run EXCEPT !.supervisorDecisionId = d, !.version = version]

\* Mutant: replay forgets which decision a run got.
ApplyStateEventsOnly(image, event) ==
  CASE event.type = "RunCreated" ->
         [image EXCEPT !.runs[event.aggregateId] = event.payload]
    [] event.type = "RunStateChanged" ->
         [image EXCEPT !.runs[event.aggregateId] = Moved(@, event.payload.to, event.aggregateVersion)]
    [] OTHER -> image

ApplyEvent(image, event) ==
  LET a == event.aggregateId
  IN  IF ~image.ok
      THEN image
      ELSE CASE event.type = "TenantUserWorkspaceSeeded" ->
                  [image EXCEPT !.identitySeeds = @ \cup {<<a, event.payload>>}]
             [] event.type = "RunCreated" ->
                  [image EXCEPT !.runs[a] = event.payload]
             [] event.type = "RunStateChanged" ->
                  IF image.runs[a] # NoRun
                  THEN [image EXCEPT !.runs[a] = Moved(@, event.payload.to, event.aggregateVersion)]
                  ELSE [image EXCEPT !.ok = FALSE]
             [] event.type = "SupervisorDecisionRecorded" ->
                  IF image.runs[a] # NoRun
                  THEN [image EXCEPT !.supervisorDecisions[event.payload] = a,
                                     !.runs[a] = Decided(@, event.payload, event.aggregateVersion)]
                  ELSE [image EXCEPT !.supervisorDecisions[event.payload] = a, !.ok = FALSE]
             [] OTHER -> image

Replay(journal) ==
  LET after[n \in 0..Len(journal)] == IF n = 0 THEN EmptyImage ELSE ApplyEvent(after[n - 1], journal[n])
  IN  after[Len(journal)]

-----------------------------------------------------------------------------
(* Commands.  Each is one method; its disjuncts are the ways it can end.   *)

Done(aggregate, version) == [ok |-> TRUE, aggregateId |-> aggregate, version |-> version]
Nothing == Done(NoAggregate, 0)
Threw == [ok |-> FALSE, aggregateId |-> NoAggregate, version |-> 0]

\* The method throws before it changed anything.
Throws ==
  /\ reply' = Threw
  /\ UNCHANGED core

\* The key was used before: whatever is stored under it is the answer.
RepliesFromCache(k) ==
  /\ idempotency[k] # NoRecord
  /\ reply' = idempotency[k].result
  /\ UNCHANGED core

\* Mutant: the result is not stored under its key.
Forget(k, command, result) == idempotency' = idempotency

Remember(k, command, result) ==
  idempotency' = [idempotency EXCEPT ![k] = [commandName |-> command, result |-> result]]

HasRoom(n) == Len(events) + n <= MaxEvents

SeedIdentity(k, t, w, contextMatches) ==
  \/ RepliesFromCache(k)
  \/ /\ idempotency[k] = NoRecord
     /\ ~contextMatches
     /\ Throws
  \/ /\ idempotency[k] = NoRecord
     /\ contextMatches
     /\ HasRoom(1)
     /\ events' = Appended(events, t, "TenantUserWorkspaceSeeded", w)
     /\ identitySeeds' = identitySeeds \cup {<<t, w>>}
     /\ reply' = Done(t, CurrentVersion(events, t) + 1)
     /\ Remember(k, "seedIdentity", reply')
     /\ UNCHANGED <<runs, supervisorDecisions>>

\* Mutant: a run starts in a state the table does not know.
NewRunUnlisted == [state |-> "created", version |-> 1, supervisorDecisionId |-> NoDecision]

NewRun == [state |-> "draft", version |-> 1, supervisorDecisionId |-> NoDecision]

CanCreateRun(r) ==
  /\ runs[r] = NoRun
  /\ CanAppend(events, r, 0)

CreateRun(k, r) ==
  \/ RepliesFromCache(k)
  \/ /\ idempotency[k] = NoRecord
     /\ ~CanCreateRun(r)
     /\ Throws
  \/ /\ idempotency[k] = NoRecord
     /\ CanCreateRun(r)
     /\ HasRoom(1)
     /\ events' = Appended(events, r, "RunCreated", NewRun)
     /\ runs' = [runs EXCEPT ![r] = NewRun]
     /\ reply' = Done(r, 1)
     /\ Remember(k, "createRun", reply')
     /\ UNCHANGED <<supervisorDecisions, identitySeeds>>

\* Mutant: one audit aggregate per run.
AuditIdOfRun(r, version) == <<"audit", r, 1>>

AuditId(r, version) == <<"audit", r, version>>

\* Mutant: any state may follow any other.
CanMoveRun(r, to) ==
  /\ runs[r] # NoRun
  /\ CanAppend(events, r, runs[r].version)

CanTransitionRun(r, to) ==
  /\ runs[r] # NoRun
  /\ CanTransition(runs[r].state, to)
  /\ CanAppend(events, r, runs[r].version)

\* The second append can still throw; the first event then stays in the journal
\* and the run keeps its old state.
TransitionRun(r, to) ==
  \/ /\ ~CanTransitionRun(r, to)
     /\ Throws
  \/ /\ CanTransitionRun(r, to)
     /\ HasRoom(2)
     /\ LET next    == Moved(runs[r], to, runs[r].version + 1)
            step    == [from |-> runs[r].state, to |-> to]
            changed == Appended(events, r, "RunStateChanged", step)
            audit   == AuditId(r, next.version)
        IN  IF CanAppend(changed, audit, 0)
            THEN /\ events' = Appended(changed, audit, "StateTransitionAudited", step)
                 /\ runs' = [runs EXCEPT ![r] = next]
                 /\ reply' = Done(r, next.version)
            ELSE /\ events' = changed
                 /\ runs' = runs
                 /\ reply' = Threw
     /\ UNCHANGED <<supervisorDecisions, identitySeeds, idempotency>>

CanJournalDecision(r, secretFree) ==
  /\ secretFree
  /\ runs[r] # NoRun
  /\ CanAppend(events, r, runs[r].version)

\* The decision enters the map before the journal can refuse it: for an unknown
\* run, a payload that looks like a secret, or a version that moved.
RecordSupervisorDecision(d, r, complete, secretFree) ==
  \/ /\ ~complete
     /\ Throws
  \/ /\ complete
     /\ supervisorDecisions' = [supervisorDecisions EXCEPT ![d] = r]
     /\ \/ /\ ~CanJournalDecision(r, secretFree)
           /\ reply' = Threw
           /\ UNCHANGED <<events, runs, identitySeeds, idempotency>>
        \/ /\ CanJournalDecision(r, secretFree)
           /\ HasRoom(1)
           /\ events' = Appended(events, r, "SupervisorDecisionRecorded", d)
           /\ runs' = [runs EXCEPT ![r] = Decided(@, d, @.version + 1)]
           /\ reply' = Done(r, runs[r].version + 1)
           /\ UNCHANGED <<identitySeeds, idempotency>>

\* d is NoDecision when the request carries no supervisorDecisionId.
MayComplete(r, d) ==
  /\ d # NoDecision
  /\ supervisorDecisions[d] # NoRun
  /\ runs[r] # NoRun
  /\ runs[r].state = "integrating"

CompleteRun(r, d) ==
  \/ /\ ~MayComplete(r, d)
     /\ Throws
  \/ /\ MayComplete(r, d)
     /\ TransitionRun(r, "completed")

StartAgentWork(c, valid) ==
  \/ /\ ~(valid /\ CanAppend(events, c, 0))
     /\ Throws
  \/ /\ valid
     /\ CanAppend(events, c, 0)
     /\ HasRoom(1)
     /\ events' = Appended(events, c, "AgentTaskContractAccepted", c)
     /\ reply' = Done(c, 1)
     /\ UNCHANGED <<runs, supervisorDecisions, identitySeeds, idempotency>>

-----------------------------------------------------------------------------
(* What the service offers beside the kernel's methods: raw appends and    *)
(* the gateway's stored responses.                                         *)

AppendStream(s, type) ==
  /\ HasRoom(1)
  /\ events' = Appended(events, s, type, s)
  /\ reply' = Done(s, CurrentVersion(events, s) + 1)
  /\ UNCHANGED <<runs, supervisorDecisions, identitySeeds, idempotency>>

\* expected is NoVersion when the request leaves it out: the current one is meant.
AppendEvent(s, expected, secretFree) ==
  LET accepted == secretFree /\ (expected # NoVersion => CanAppend(events, s, expected))
  IN  \/ ~accepted /\ Throws
      \/ accepted /\ AppendStream(s, "StreamUpdated")

AppendIfMissing(s) ==
  LET present == \E i \in Positions(events, s) : events[i].type = "StreamSeeded"
  IN  \/ present /\ reply' = Nothing /\ UNCHANGED core
      \/ ~present /\ AppendStream(s, "StreamSeeded")

PutIdempotency(k) ==
  /\ reply' = Nothing
  /\ Remember(k, "response", reply')
  /\ UNCHANGED <<events, runs, supervisorDecisions, identitySeeds>>

-----------------------------------------------------------------------------
Init ==
  /\ events = <<>>
  /\ runs = EmptyImage.runs
  /\ supervisorDecisions = EmptyImage.supervisorDecisions
  /\ identitySeeds = EmptyImage.identitySeeds
  /\ idempotency = [k \in Keys |-> NoRecord]
  /\ reply = Nothing

Next ==
  \/ \E k \in CommandKeys, t \in Tenants, w \in Workspaces, m \in BOOLEAN : SeedIdentity(k, t, w, m)
  \/ \E k \in CommandKeys, r \in Runs : CreateRun(k, r)
  \/ \E r \in Runs, to \in RequestedStates : TransitionRun(r, to)
  \/ \E d \in Decisions, r \in Runs, c \in BOOLEAN, f \in BOOLEAN : RecordSupervisorDecision(d, r, c, f)
  \/ \E r \in Runs, d \in Decisions \cup {NoDecision} : CompleteRun(r, d)
  \/ \E c \in Contracts, v \in BOOLEAN : StartAgentWork(c, v)
  \/ \E s \in Streams, e \in {NoVersion, 0}, f \in BOOLEAN : AppendEvent(s, e, f)
  \/ \E s \in Streams : AppendIfMissing(s)
  \/ \E k \in ResponseKeys : PutIdempotency(k)

Spec == Init /\ [][Next]_vars

-----------------------------------------------------------------------------
(* Properties *)

\* The versions of every aggregate are 1, 2, 3, ... in journal order, whatever
\* mix of commands, raw appends and throws wrote the journal (append).
VersionsContiguous == Contiguous(events)

\* The version a run record carries is the one its next append will be checked
\* against: a run whose version drifted could never be transitioned again.
RunVersionIsJournalVersion ==
  \A r \in Runs : CurrentVersion(events, r) = IF runs[r] = NoRun THEN 0 ELSE runs[r].version

\* The run the journal's last event about decision d names, among the first n events.
JournaledRun(journal, d, n) ==
  LET named == {i \in 1..n : journal[i].type = "SupervisorDecisionRecorded" /\ journal[i].payload = d}
  IN  IF named = {} THEN NoRun ELSE journal[Max(named)].aggregateId

\* A process that dies now and replays its journal comes back with the runs and the seeds
\* it had, and with the decisions the journal names and no other: a decision that was
\* refused stays behind in the memory of the old process.  Every decision that comes back
\* was known before (replay against the maps of the class).
StateMatchesReplay ==
  LET image == Replay(events)
  IN  /\ image.ok
      /\ image.runs = runs
      /\ image.identitySeeds = identitySeeds
      /\ \A d \in Decisions :
           /\ image.supervisorDecisions[d] = JournaledRun(events, d, Len(events))
           /\ image.supervisorDecisions[d] # NoRun => supervisorDecisions[d] # NoRun

\* The state events of run r, oldest first, among the first n events.
StatePositions(r, n) ==
  {i \in 1..n : events[i].aggregateId = r /\ events[i].type \in {"RunCreated", "RunStateChanged"}}

StateAfter(event) == IF event.type = "RunCreated" THEN event.payload.state ELSE event.payload.to

\* The journal tells one legal story per run: created once, first, as a draft, and each
\* change starts where the last one ended and follows RUN_TRANSITIONS.
RunHistoryLegal ==
  \A i \in DOMAIN events :
    LET e == events[i]
        earlier == StatePositions(e.aggregateId, i - 1)
    IN  /\ e.type = "RunCreated" =>
             /\ Positions(events, e.aggregateId) \cap 1..(i - 1) = {}
             /\ e.payload.state = "draft"
        /\ e.type = "RunStateChanged" =>
             /\ earlier # {}
             /\ e.payload.from = StateAfter(events[Max(earlier)])
             /\ CanTransition(e.payload.from, e.payload.to)

\* Each state change of a run has its audit event right behind it, and an audit
\* event never stands alone (the two appends of transitionRun).
TransitionsAudited ==
  /\ \A i \in DOMAIN events : events[i].type = "RunStateChanged" =>
       /\ i + 1 \in DOMAIN events
       /\ events[i + 1].aggregateId = AuditId(events[i].aggregateId, events[i].aggregateVersion)
       /\ events[i + 1].payload = events[i].payload
  /\ \A i \in DOMAIN events : events[i].type = "StateTransitionAudited" =>
       i > 1 /\ events[i - 1].type = "RunStateChanged"

\* A run that exists can be created again with its own key: some key answers for it,
\* so the client whose answer was lost is not told "Run already exists".
CreatedRunsAreRetryable ==
  \A r \in Runs : runs[r] # NoRun =>
    \E k \in CommandKeys :
      /\ idempotency[k] # NoRecord
      /\ idempotency[k].commandName = "createRun"
      /\ idempotency[k].result.aggregateId = r

\* An event that must be recorded once is recorded once, however often the command is
\* retried: a contract's acceptance and a stream's seeding.
RecordedOnce ==
  \A i, j \in DOMAIN events :
    /\ events[i].aggregateId = events[j].aggregateId
    /\ events[i].type = events[j].type
    /\ events[i].type \in {"AgentTaskContractAccepted", "StreamSeeded"}
    => i = j

\* Journal and stored answers only grow, and a finished run never moves: completed and
\* cancelled runs keep their state whatever is asked of them.
KeepsHistory ==
  /\ IsPrefix(events, events')
  /\ \A k \in Keys : idempotency[k] # NoRecord => idempotency'[k] # NoRecord
  /\ \A r \in Runs : (runs[r] # NoRun /\ runs[r].state \in Terminal)
       => runs'[r] # NoRun /\ runs'[r].state = runs[r].state
HistoryIsKept == [][KeepsHistory]_vars
=============================================================================
