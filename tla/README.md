# NadoVibe: a verification project

NadoVibe is a control plane for agent work: a user asks for a run, the core
records it as events, agents work in a workspace, a supervisor decides, and the
run completes. This directory models it in TLA+, checks it with TLC and proves
its main invariants with TLAPS. It has five parts:

- the event-sourced **core** and the durable service around it, on which
  everything else rests;
- the **gateway**, whose handlers are sequences of calls to the core, and the
  projections that its clients are shown;
- the **execution plane**: capacity, the fair queue, the workspace runtime and
  the app-server adapter;
- **deployment**: the activation of releases on the running platform;
- the **browser pages**: the scripts that send the commands and show what came of them.

## 1. Inventory

The code is TypeScript, one Node process per service. Inside a process nothing
is parallel; what interleaves is everything between two `await`s. Between
processes there is only HTTP (the gateway calls the core for every step of a
handler), Docker, and the store.

| Component | Keeps | Operations | Meets | Hard because | Correct when |
|---|---|---|---|---|---|
| **core-events** (`packages/core-events`) | the journal; key -> stored result; snapshots | `append` with an expected version, `readAggregate`, `readAll`; `get`/`put` | the kernel holds one of each | a writer with a stale version must be refused; a Postgres twin of the class runs `BEGIN..COMMIT` on a shared client | versions of an aggregate are contiguous; answers are kept |
| **core-kernel** (`packages/core-kernel`) | runs, identity seeds, decisions, beside the journal | `seedIdentity`, `createRun`, `transitionRun`, `recordSupervisorDecision`, `completeRun`, `startAgentWork`, `replay` | called by the service, one command at a time | methods can throw half way; state is kept twice, in maps and in events | replay gives the same state; history legal; transitions audited; retries answered |
| **core-control-plane** (`services/core-control-plane`) | one kernel, `writeChain`, a store (Postgres or two files) | `mutate`: run the command, commit, answer; on any error reload | gateway over HTTP; Postgres | commit fails, its answer is lost, the reload fails, the process dies between two writes | what was answered is stored; memory equals the store; the service restarts |
| **gateway** (`apps/gateway`) | no state of its own | a dozen handlers that change the core, each a sequence of core calls; `withIdempotency`; reads of projections | core, workspace runtime, browsers | partial failure between core calls, check-then-act on keys, "latest run" read again after an await | an attempt that comes after its answer was stored does nothing; a run completes on its own decision; decided approvals stay decided |
| **api-contract**, **domain**, **projection-worker** | nothing: folds over the journal | `rebuildControlRoomProjection`, `buildMobileNextActions`, `rebuildPlatformReadModels` | gateway, core | state is shown from events and decided from records | a projection agrees with the core |
| **workspace-runtime** + **core-workspace** | file leases, in memory | read issues a lease, write consumes it; provision a sandbox; plan a command | gateway, Docker, copies of reservations | look-up then create in four awaited calls; a restart forgets | a sandbox answered for was started; a lease writes once |
| **core-resource** | reservations, overload signals, tenant queues | reserve, release, expire; fair dequeue | callers, with their clock | time, nested limits, a cursor over a changing list | never above a limit; every tenant served |
| **core-protocol**, **app-server-adapter** | capability registry, schema registry, handshake gate; all in memory | register a module or a schema; initialize, call, notify | app server over its transport | a registration throws half way; several callers initialize at once | denials stay; nothing before the handshake |
| **deployment-agent** + **core-operations** | the mounted release directory | activate: copy a release over it, restart services, wait for health, verify versions | operators, Docker, every service | a copy that breaks off; two activations at once; a service that restarts by itself | success means that every service runs the release |
| **core-agent** | budgets and leases of agents | validate contracts, charge budgets | kernel (validation only) | expiry at the boundary | no work past a budget or lease |
| **core-security** | – | path and permission checks | runtime, gateway | – | stateless |
| **ui**, **apps/web**, generated client | in each open page: the projection last answered, the stream, what is being confirmed, the file being edited with its lease | load, connect, act, open and save a file, confirm | gateway over `fetch` and an event stream; the user | functions overlap in their awaits and answers overtake each other; streams break, calls fail, the user goes on | a page without a stream is locked until it has another; a confirmed action happens once; a file is saved under its own lease |
| **core-durability**, **orchestrator**, **infra**, **scripts** | – | simulated reports, health, packaging | – | – | not modelled: no protocol state |

`PROJECT.json` lists the hazards at their lines, with the properties that watch
them, or a note saying why none does.

## 2. Modules

### The core

```
RunStates   EventJournal
      \       /      \
  CoreControlPlane   /    SequenceProofs
   /      |      \  /          |
MCCore.. DurableCore \---- CoreControlPlaneProofs
          |       \               |
   MCDurableCore   \        KernelHistoryProofs
                    \             |
                     \----- DurableCoreProofs
```

**SequenceProofs** has the facts about sequences that all the proofs use, and
**Filters** the one loop that several parts of the code write: going through a list
and keeping some of it.

**RunStates** is the state type and the table `RUN_TRANSITIONS`.

**EventJournal** is the journal as a sequence. `CurrentVersion`, `CanAppend` and
`Appended` are the three things `append` does: find the aggregate's last
version, compare, stamp. The event id (`evt_N`) is the position.

**CoreControlPlane** is the kernel. The variables are the fields of the class;
each action is one public method with all its ways to end. Every method is
synchronous, so one command is one step, but a method may throw after it has
changed something: `RecordSupervisorDecision` has the disjunct where the
decision is in the map and the journal refused it, and `TransitionRun` the branch in
which the second append is refused. `Replay` is `replay()` as a recursive
function over the journal with a flag for the throw of `requireRun`. `reply` is the
returned value. The raw appends of the service and the gateway's stored
responses are here too, since they write the same journal and the same map.

**DurableCore** is the service. `mutate` is cut at its awaits: `Execute` (the
command in memory), then the commit, then `Settles`, with `phase` saying where
the head of `writeChain` stands. The two stores differ where the code differs:
Postgres commits events and records in one transaction (`CommitTransaction`,
or `LoseCommitAnswer` when the acknowledgement is lost), the file store writes them one
after the other (`AppendLines`, `ReplaceRecords`). `StoreFails` is a refusal or
a lost connection before anything was kept; `Reload` and `ReloadFails` are the
catch block; `Crash` and `Restart` can come anywhere. `image` (the
replayed store), `answered` and `committed` are history variables: no guard reads them.

**Abstract specification.** `CoreControlPlane!Spec` is also what the service
promises: `ImplementsKernel` says that the service over Postgres, seen through its
store (`events <- stored`, `runs <- image.runs`, ...), performs kernel commands,
each entirely or not at all, whatever fails.

The service starts with a store that is empty or that earlier processes of it wrote:
`WrittenByKernels` says what the second means (contiguous, accepted by replay, versions
that replay gives back, records whose answers are in the journal), and the assumption
`InitialStoreIsKernels` asks it of the constants; TLC evaluates it on each initial journal,
and the proofs show that the service leaves such a store behind.

### The gateway

```
RunStates, Filters -> ControlRoom -> GatewayCommands -> MCGateway
                                     GatewayCommands, SequenceProofs -> GatewayProofs
```

**ControlRoom** is the fold that clients are shown (`Shows` is one event of it),
what the phone takes from it, and the projection worker's read models. The tables
from a run's state to what users see are the code's.

**GatewayCommands** has one entry of `Calls` per handler: the awaited calls it
makes, in order. `requests[q].todo` is what is left of them; one action per kind
of call takes the first, changes the core and goes on. Calls that depend on what
a read answered are brought in when it answers: `AfterGet`, `GetLatestRun`,
`ReadRecovery`. Between two calls any other request takes steps, and agents move
runs. `GoesOnWith` is where a call's answer arrives, or is lost after the call took
effect; `CallFails` is where it never got there. Either way the handler
answers 400. A member of `Requests` is an *attempt*, a key and a number: the client may send the
request again with its key at any time (`Retry`), after a failure, after an answer it did not get, or while the
first attempt still runs because its connection broke; nothing in `withIdempotency` keeps
the two apart. `late` is history: whether a response was stored under the key when the attempt came.
The core here is what its refinement shows it to be (`ImplementsKernel` above):
each call one step, whole or not at all.

### The execution plane

```
CapacityAdmission -> WorkspaceRuntime
MethodPolicies    -> AppServer          } MCExecutionPlane
TenantFairQueue
CapacityAdmission, WorkspaceRuntime, AppServer, TenantFairQueue -> ExecutionPlaneProofs
```

**CapacityAdmission** is the controller: the reservations in the order they were
granted, one action per method. Time passes between calls (`Tick`) and nothing
expires by itself. **TenantFairQueue** is the Map of tenants in its insertion
order, and the cursor. **WorkspaceRuntime** has three parts that share only the process and the clock:
`provisionDockerSandbox` cut at its calls to Docker
(`list_networks`, `create_network`, `find`, `create`, `locate`, `start`), each of
which may be refused (`CallFails`) or take effect without an answer
(`AnswerLost`); the file leases of read and write; and the command plans, which
look at the copy of a reservation that the client sends. `RuntimeRestarts`
forgets the leases, starts counting them from 1, and breaks off what was under way.
**MethodPolicies** is the table of policies the platform ships. **AppServer** is the
adapter's registries, in which `registerModule` enters policies one by one and
stops at the first conflict, and the client, cut at its awaits of the transport. `observe` is the gate: it
lets a method pass or not, and notes `initialize` and `initialized`, from whichever caller they
come (`Initialize`, `Notify`, `request`).

**MCExecutionPlane** composes them. They share the clock, and the runtime reads
the reservations; no other variable is written by two parts. So a behaviour of
the whole is an interleaving of behaviours of the parts, and `atWork` picks the
part that runs while the others rest, instead of multiplying their states.
Commands are planned beside `capacity`, whose reservations they show.

### Deployment

```
Filters -> ReleasePlans -> DeploymentActivation -> MCDeployment
                           DeploymentActivation, SequenceProofs -> DeploymentProofs
```

**ReleasePlans** is the list of services with what each owns and depends on, the
services a change concerns, and the groups they are restarted in.
**DeploymentActivation** is one activation per request: `Copy` is synchronous,
then group by group `Restart` and `CheckHealth` for each service, then `Observe`
asks all services in any order and `Verify` compares. Nothing keeps
a second request from copying in between. A service loads whatever the directory
holds when it starts: by a restart, or because it ended and Docker starts it again
(`ServiceStops`, `ServiceStarts`). A copy that breaks off leaves `Damaged`.

### The browser pages

```
BrowserPage -> ControlRoomApp, MobileReview, Workbench -> BrowserApps -> MCBrowserApps
                                                  BrowserApps, SequenceProofs -> BrowserProofs
```

**BrowserPage** is a script's `state` object as a record, and the steps that the three scripts
share: `connectStream`, giving the stream up, `connectionState`. **ControlRoomApp**,
**MobileReview** and **Workbench** are the scripts: what each does with an
answer, an event and an error, what its `render` offers the user, and the calls that each
click comes to, in order.

**BrowserApps** runs one of them. A function of the page is a member of `tasks`, with the calls
it has still to make: the gateway answers the first (`GatewayAnswers`), refuses it, or it is lost before or
after its effect (`CallIsLost`), and some time later the function goes on (`Resumes`), so that answers overtake each
other. The stream (`StreamOpens`, `FrameArrives`, `StreamBreaks`), the timers it sets
(`ReloadFires`, `RedrawFires`) and the user start further functions in between. The gateway
appears as what these pages can tell of it: how many events and runs there are, the files on disk
and the leases.

### What is abstracted

- Payloads are reduced to what replay or a property reads. A seed's user and
  repository are folded into its workspace.
- Whether a payload looks like a secret, a contract or decision is well
  formed, or a context matches is a Boolean input.
- Ids of different kinds differ (`IdsAreDisjoint`): runs, contracts, tenants,
  other streams and audit ids never share an aggregate. The gateway builds its
  ids so, except for three that clients choose; this is recorded as a hazard.
- Clients store gateway responses under keys of their own (`ResponseKeys`).
- The gateway's seed routes are not requests of their own: `createRun` makes their calls when nothing is
  seeded yet (`EnsureSeed`).
- An event's version bound to an aggregate is unbounded in the specification;
  `MaxEvents` bounds the journal where a command would append (`HasRoom`). A
  command without room is not taken; everything else stays enabled.
- `AppendEvent` is given no version or version 0, the two that callers and tests use.
- A file append is whole or absent. Torn lines and the ordering of rows by
  `created_at` are not modelled (section 6).
- The kernel's capacity controller is not part of this state: no handler
  changes it.
- In the gateway, a run's version and the audit events are left out: that they
  agree with the journal is proved of the kernel. Events that no handler, projection or
  property reads back are merged with the one before them: a contract's hierarchy
  and lease, the notices of a setting. `writeFile`'s call to the runtime is
  the handler's failing before its first append.
- A method policy is its action; its family, reason and feature flag are dropped, so two policies of one method
  conflict in the model only when their actions differ.
- Names of networks and containers are tuples of ids. The code joins them and
  replaces what Docker refuses by `_`, which can merge two users (a hazard of its own).
- The copy of a reservation that a client shows is the granted reservation with its original times.
- Quotas are constants (no caller changes them). Of several overload signals the one
  that lasts longest decides, so `overloadUntil` is its expiry. Time is never 0.
- The fair queue's cursor is kept modulo a multiple of every number of tenants;
  the index it gives is the same.
- A page's projection is its offset, its role, and whether there are a workspace and runs. What one
  action of the page and another send is told apart only where its handling differs: all that
  answer a projection are `command`. A text is the file it was typed in and a number. That an
  approval, a hunk or a notification is there to be acted on is the user's choice.
- A workbench's lease and the runtime's expire at once: their clocks agree.
- Prepared releases have valid manifests. The record of the active release is
  written and not read by anything modelled.

## 3. Runs

| Run | Instance | Shows |
|---|---|---|
| `kernel_commands` | 2 runs, 1 of everything else, 2 command keys; from an empty journal up to 6 events, and from a run already in `integrating` up to 26 | nine properties of the kernel under every command sequence, from a run's beginning and to its end |
| `durable_postgres` | 1 run, 1 decision, 1 stream, 2 keys, journal up to 4 | atomicity (refinement), durability of answers, retries, restart |
| `durable_completion` | file store starting from a run in `integrating`, journal up to 25 | refused decisions do not complete runs; half commits keep versions contiguous |
| `durable_unreachable` | file store whose reload may fail, journal up to 3 | even then no version is stored twice or out of order |
| `gateway_requests` | 2 runs, 3 keys: one sent twice, at any time; one beside it; one for each of the other kinds of request, sent twice, alone | partial failure, retries, overlapping attempts and overtaking between core calls |
| `execution_plane` | 6 commands, 3 quotas, 3 reservations, clock to 3; 3 provisions, 2 failures, 3 reads, lease 2; 3 tenants of 2 slots, 2 priorities; 4 modules, 2 schemas, 2 callers, 5 messages | limits, the order of the sandbox's and the handshake's steps, fairness of the queue |
| `deployment` | 5 of the services, 2 releases, 2 activations that may overlap, 1 fault; no changed path, the gateway's, or the agent's | success is true and lasts; order of restarts; every activation ends |
| `browser_apps` | each page, before an empty core and one with a run; 2 functions under way at once, 2 files, 3 incidents (clicks, keys, failed calls, broken streams, expired leases, events of others) | locks, streams held and reopened, confirmations, leases of edited files |
| `reload_failure` | Postgres whose reload may fail | *violated*: `StoreIsReplayable` |
| `file_store_retry` | file store | *violated*: `StoredRunsAreRetryable` |
| `completion_bypass` | as `durable_completion`, but clients also ask `transitionRun` for `completed` | *violated*: `StoredCompletionHasDecision` |
| `deployment_mixed` | as `deployment`, 1 activation, no fault | *violated*: `NoMixedState` |

**Bounds.** Six events hold a creation and two audited transitions of one run,
or two runs created and one moved with a decision, contract or stream between
them; every pair of kinds of event meets in both orders. Two runs are enough to
show one run's event counted for another. Two keys allow
a retry with the same and with another key. For the service one
run suffices, since commands never overlap in the kernel; four events hold a
creation, a transition, and a third command that builds on a failed one. The
states that `integrating` needs are ten transitions deep, so
the second beginning of `kernel_commands` and `durable_completion` start from the journal those commands
write (`IntegratingJournal`, 21 events); 25 leaves room for a decision, a completion and its
audit, 26 for one more.
`durable_unreachable` needs two commands on one aggregate with a failure between.
Run ids and command keys are symmetric in `kernel_commands`.

`durable_completion` requests the states in `LateStates`, which lack
`completed`: there the only way to complete is `completeRun`. What happens with
it is the run `completion_bypass`.

`durable_unreachable` and the violated runs show what the service
does when its reload fails; the other two passing runs set `LoadMayFail` to
FALSE, which says that the store that could not commit can be read by the time
the catch block reads it. `durable_unreachable` turns off the deadlock check: a service whose
stored journal cannot be replayed stays down.

`gateway_requests` starts from an empty core, where a creation runs alone; from a
creation that still moves its run while it is sent again; from one
that broke off after each number of the eleven surface events, and is sent again with another request
beside it; from one in its last attempt beside another request; and from two runs under way, the first in each of the
states in which handlers behave differently (`running`, `waiting_for_approval`, `ready_for_review`), its surface
whole or broken off, with two requests or with one that is sent twice. Two handlers at once
meet every pair of calls in both orders, two attempts with one key among them; a
second attempt meets whatever the first one left, or is doing. An attempt that is spent
stands for a client that gave up.

In `execution_plane`, three reservations with a lifetime of 2 in a clock of 3 make each
kind of quota the narrow one, let one expire while another counts, and admit
again. Three provisions of two sandboxes with two failures reach a retry that
fails again. Three reads let a lease expire and be lost to a restart and two
readers hold one file. Three tenants are the least for a list that shrinks at both sides of the
cursor. Five messages are two handshakes and a call, or one and three calls; the methods asked for
include `initialize` and `initialized` themselves, which open the gate like a handshake's. In `deployment` the
five services have a chain of dependencies across groups and within one, and the agent, which is
never restarted; one fault is enough for each way to fail, and a service can end and be started again between
the steps of two activations.

In `browser_apps` two functions are the least for answers to overtake each other, and three incidents
for a sheet that is asked for and pressed twice, a stream that breaks beside a call that fails, or a file
that is opened, edited and saved around another's opening; what the page and the gateway do by themselves in between is not
counted. A run with three functions at once finds nothing else, in eight times as many states.

These runs turn the deadlock check off: clients stop asking, and the clock, the
bounds and the requests run out.

**Fairness.** `FairDurableSpec` assumes that a commit that was begun settles one way or
the other (an awaited promise of the pool or of `fs`), that the catch block's reload
settles, and that the container is restarted when it exits (the
compose files set a restart policy). Nothing is assumed of clients.
Only `ComesBack` uses it. `DeploymentSpec` assumes of each activation
that it goes on while it can: a call to Docker or a service answers or
fails, the agent's awaits resume, and the deadline of `waitForServiceHealth` passes. It assumes nothing
of operators, or that a service ever comes up again; `ActivationsEnd` rests on it. `AppsSpec` assumes that
the browser and the gateway go on while they can: an awaited `fetch` settles, its function resumes, a stream
that was asked for opens, what it received is handled and timers fire. It assumes nothing of the user, and nothing
that a call succeeds: `StreamComesBack` says nothing once one failed.

### Findings

1. **A failed reload poisons the store** (`server.ts:290`). Commit fails; the
   reload in the catch block throws too; `writeChain` swallows it and the next
   command runs on the kernel the failed one left. A `createRun` whose commit failed is
   then answered from memory, and the following transition is stored without `RunCreated`
   before it. From then on `replay` throws `Unknown run` and the service cannot start.
2. **The file store forgets creations** (`server.ts:345`). A crash between the
   append and the rename leaves the run without its key: the retry is refused.
3. **Completion without a decision** (`core-kernel/src/index.ts:255`).
   `transitionRun` walks `integrating -> completed` with no decision, although the
   docs promise that this is impossible.
4. **A partial activation leaves the mixed state the check is there to prevent**
   (`deployment-agent/src/server.ts:91`). With changed paths that concern one service, only
   that one is restarted, but every service of the manifest has to report the new
   version: the check fails always, and what was copied and restarted stays.

### Observed while modelling

These are what the code does, and the models follow it. In four of them the code does less than a
document says: two of `docs/workspace-runtime.md` (lines 7 and 10), and `docs/gateway-projection.md` and
`docs/app-server-official-facts.md`, quoted below. No run of the project shows these.

- `decideApproval` and `escalateConflict` act on the latest run, whatever run the
  approval or conflict belongs to; the final review in the projection is one for all runs.
- `decideFinalReview` that fails after the move to `integrating` cannot finish it: its
  retry finds the run no longer ready for review and answers.
- A `createRun` that broke off after its first contract is refused at that
  contract at every retry; before that, its retry resumes a run that was paused
  meanwhile, as the path's last step. A cancellation in between does not stop the remaining surface events.
- Two attempts with one key both act when the second comes before the first one's response is
  stored, which is what `withIdempotency` does last.
- The worker's approval inbox keeps decided approvals as "requested".
- A sandbox may be provisioned with a copy of an expired or released reservation,
  although line 7 says "Sandbox provision requires a matching active `CapacityReservation`".
- Two readers of one file may both write: the first write is lost.
- With slots held back by `retryAfter`, a tenant of the fair queue can be passed over for ever.
- A module registered over HTTP may allow methods that the matchers only route, `fs/*` among them,
  although line 10 says that these "must be converted into Core-governed Workspace Runtime operations";
  a restart of the adapter forgets modules and schema.
- Nothing repeats a load that failed after the stream broke: the page then has no stream until something
  else loads. The phone's `reportError` sets `connection` to `'offline'`, which
  `connectionState` takes for connected: a failed call unlocks the page although its stream is gone,
  while its banner promises that actions are locked.
- An open stream delivers nothing new (`gateway/src/server.ts:392`): the journal is read once, when the stream is opened, and
  after those events come only heartbeats. A page that is not locked *holds* a stream (`LockedWithoutStream`), which
  is not to say that it is told: with an event appended after `StreamOpens`, the page stays behind until something else
  makes it load. `docs/gateway-projection.md` calls the stream "realtime" (line 8) and "product event delivery" (line 9).
- A page whose stream broke stays locked, though another stream is open, until an event comes on it.
- The control room locks nothing. The workbench does not look at its connection again between
  making a run and sending the command to it.
- Two clicks before the first run is there make two runs. An answer that was overtaken puts the older projection back.
- `saveFile` takes what was sent for what is shown when its answer arrives: what was typed meanwhile counts
  as saved, and if another file was opened meanwhile, revert and save write the first one's text into it.
- A save uses its lease up and the page keeps it, so a second save is refused until the file is opened again.
  A workbench whose first load fails never listens to its user.
- `assertPublicResponseSafe` refuses a whole projection if any text in it contains a word like "token" or "password":
  once an event does, every handler that answers a projection fails after it has acted, and every page with it.
- The handshake gate notes `initialized` before the notification is awaited (`core-protocol/src/index.ts:590`), and
  `request("initialized")` opens it while `initialize` is unanswered. If the transport rejects the notification, `initialize()`
  throws and other methods pass all the same, although `docs/app-server-official-facts.md` says (line 14) that both
  "must complete before other app-server methods". `HandshakeFirst` is about the order in which messages are given to the
  transport, not about their being answered. Concurrent calls of `initialize` share an id.

## 4. Proofs

All for every value of the constants. The core's rest on the four named assumptions of
`CoreControlPlane` (ids disjoint, nulls distinct, requested states are states, `MaxEvents`
natural) and, for the service, on `InitialStoreIsKernels`; the others on the assumptions that
their modules state: sizes and times are numbers, ids differ from the nulls, requests are of
known kinds. TLC evaluates every one of them.

Where a theorem needs more, it says so as its own hypothesis, and the runs of the same
property use the same instance:

| Hypothesis | Of | Without it |
|---|---|---|
| `LoadMayFail = FALSE`: the catch block can read the store that could not commit | `KernelMirrorsStore`, `StoreReplays`, `StoreIsContiguous`, `AnswersAreStored`, `StoredRunsStayRetryable`, `StoredCompletionsAreDecided`, `StoreImplementsKernel` | run `reload_failure` |
| `StoreKind = "postgres"` | `StoredRunsStayRetryable`, `StoreImplementsKernel` | run `file_store_retry` |
| `"completed" \notin RequestedStates` | `StoredCompletionsAreDecided` | run `completion_bypass` |
| `AgentsDoNotComplete`: no agent asks the transition route for `completed` | `CompletionsAreOwn` | the same bypass, seen from the gateway |
| the initial store has the property, or is empty | `StoredRunsStayRetryable`, `StoredCompletionsAreDecided`, `StoreImplementsKernel` | nothing is known of what was there before |
| `InOrder(Manifest)`: the manifest lists services after those they depend on | `RestartsFollowDependencies` | `PlatformIsInOrder` proves it of the platform's own |

### The core

- **SequenceProofs**: appending, concatenating, taking the first; what a finite set of
  positions has (a last one, by well-foundedness of `<` on the naturals, used with a set instead of an
  operator); and what `Filtered` returns. It is a recursive function, unfolded by induction on the length
  with a set of naturals in the place of a predicate (`NatInductionOnSet`), since the library's induction
  theorems take an operator. `FilteredPlaces` says it all: an order-preserving map from the kept elements onto the positions of S.
- **CoreControlPlaneProofs**: an append sets its own aggregate's version and no other, and preserves
  `Contiguous`; `TypeCorrect`, one lemma per action. Then the inductive
  invariant

  `JournalInv == TypeOK /\ VersionsContiguous /\ RunVersionIsJournalVersion /\ AuditsBehind`

  `RunVersionIsJournalVersion` alone is not inductive: `transitionRun` might make its first
  append and be refused the second. `AuditsBehind` says that the audit
  aggregates of versions a run has not reached are empty, which rules that
  out (`TransitionIsAudited`). Theorems `JournalIsContiguous`, `RunVersionsAgree`.
- **KernelHistoryProofs**: from `JournalInv`, `StepShape` reduces `Next` to seven
  shapes (nothing, seed, create, move, decide, accept, stream), and each history property is proved over
  the shapes: `RunsStayRetryable`, `HistoryStays`, `OnceOnly`,
  `EveryTransitionAudited`, `RunHistoriesLegal`. The last needs
  `HistoryInv`: the story is legal *and* its last state event names the state
  in the run record, which links the next event's `from` to the one before.

  Then **replay**. `Replay` is a recursive function, and what it is on a longer journal is
  shown by induction on the length, as for `Filtered`.
  `ReplayOfAppend` says that replaying one more event is applying it to the replay of the others. With it each command
  is a function from kernel state to kernel state (`KernelStep`, `NextIsStep`) that commutes with replay
  (`StepReplays`), which gives `ReplayRestoresState`: runs and seeds as the commands left them, and of each decision what the
  journal's last event about it names. The map in memory may hold a decision that the journal refused
  until the kernel is thrown away, so it is not equal to the replayed one.
- **DurableCoreProofs**: `DurableTypeCorrect`; `StoredInOrder`, for either store and reloads that fail, from `VersionsInv` (what is
  stored and what memory holds are ordered, and memory *covers* the store: no stored version is above memory's);
  and, with the invariant

  `DurableInv`: `JournalInv` of the kernel, `image = Replay(stored)`, `WrittenByKernels(stored, storedKeys)`, the kernel
  is the stored state when idle, and *one kernel step away from it* in the middle of a commit,

  the theorems `KernelMirrorsStore`, `StoreReplays`, `StoreIsContiguous`, `AnswersAreStored`. The last
  conjunct makes it inductive: what is written later is what one command produced from the stored state, so a store that
  got all of it, or its events only, is again a kernel's.
  Over them stand `StoredRunsStayRetryable`, `StoredCompletionsAreDecided`, and
  `StoreImplementsKernel`, the refinement itself: `DurableSpec => ImplementsKernel`. Each of the service's steps changes
  nothing in the store, or commits the whole of the pending `KernelStep`, which is a step of
  `CoreControlPlane!Next` under the mapping.

### The gateway

**GatewayProofs**. The invariant `GatewayInv` is about what the handlers have *still to do*: every call in
`requests[q].todo` fits the request (`Fits`: no run event is written by a raw append, no move to
`completed` is asked for, a completion to come names a decision that the journal holds for the request's own run), the response is
stored by the last call only, and a *late* attempt, one that came after its key's response was stored, is over or about to read
that key (`Held`, `Silent`). It is inductive because
the calls that a read brings in fit as well (`AfterGetIsGood`), and because the journal only grows (`ProgramsStay`).

- `GatewayTypeCorrect`;
- `CompletionsAreOwn`: `CompletedByOwnDecision`. The run record's decision id is known to be one recorded for that run, and the handler
  read it from there;
- `LateAttemptsStaySilent`: `LateAttemptsAreSilent`. A late attempt has its whole program before it or none of it, and the first call of
  that program is the key's, which finds the response: responses are never taken back. Attempts that came before may all act;
- `ProjectionsAgree`: `ProjectionsShowCore`. `rebuildControlRoomProjection` is a recursive function over the journal;
  `RebuildOfAppend` unfolds it one event at a time, and `ViewInv` says of the view that each run is shown as the core has it,
  that the contracts shown are the accepted ones, and that the journal accepts each once. `WhatIsWritten` lists, for each event
  that a step can append, what the step does to the runs. The worker's list then has as many entries as there are contracts: it counts
  them without repetition (`RosterIsComplete`, by `FilteredPlaces` and a bijection);
- `ScopesStayDecided`: `ScopeApprovalsStayDecided`, of all requests together. `ScopeInv` calls a request *open* for a run when it still
  has to ask for the scope approval and has no planner to start before that. At most one request is open for a run, only after the planner's contract was
  accepted, and only while the approval was not asked for. The core accepts a contract once (`MayStart`), so of two creations, or of a creation and
  its retry, only the one that was accepted becomes open.

### The execution plane

**ExecutionPlaneProofs**, one invariant per property; the parts share only the clock and the reservations, so each
is proved of its own specification (`CapacitySpec`, `RuntimeSpec`, which composes the runtime with capacity, `AppServerSpec`, `QueueSpec`).

- `QuotasHold`: `CapacityTypeOK /\ WithinQuota`. The reservations must be known to be a
  sequence, so that what a quota counts is finite. Expiring and releasing shrink every
  counted set (`FewerIsWithin`); a grant adds one position to the sets of the
  quotas that cover the command, each found to have room, and of the sets by class only to its
  own (`GrantCounts`, `GrantIsWithin`), which is why a request need look at no other class.
- `PlansStayWithinQuota`: `PlannedInv` adds that a plan's reservation was granted to the plan's own command, so that planned
  commands inject into counted reservations.
- `SandboxesAreStarted`: `StartedInv`. A container that was started is never again merely created: it runs or
  has exited; and the step that answers has started it or found it so.
- `LeasesWriteOnce`: `LeaseInv`. Ids are pairs of a time and a sequence number: after a restart the sequence begins
  again, and what keeps ids apart is that a restart takes time.
- `DenialsHold`, `SchemaIsCovered`: `PolicyInv`, with `PoliciesExtend`: what `registerModule` enters never replaces an
  exact policy, however far it gets.
- `HandshakeComesFirst`: `HandshakeInv`. Each flag of the gate is a message that is already on the wire, whichever caller gave it
  and by whichever route, so what the gate lets pass comes after it (`OrderedAt`, `GivenAfterGate`).
- `WaitingIsBounded`: `QueueInv`, a variant: the dequeues a tenant was passed over plus those the cursor needs to reach it stay below a
  bound that its place in the line allows. The place only gets better while it waits, and each dequeue either brings
  the cursor closer or takes a tenant before it out of the line (`DequeueKeeps`).

### Deployment

**DeploymentProofs**:

- `SuccessIsServed`. `ServedInv` says, of the last one that wrote the directory, that everything it saw served
its release when it was seen still does: no other copy came after, and a service that restarts loads the directory.
- `PlatformIsInOrder`, by looking at the nine services of the platform; and `RestartsFollowDependencies` for any manifest in that order:
  `PlanRespectsDependencies` is about the plan, through what `Filtered` keeps, and `OrderInv` about how far an activation is
  in it: what its log has is what the plan lists before.

### The browser pages

**BrowserProofs**, of any number of functions under way and of incidents. `BrowserInv` has three parts; TLC
found each to hold on the instance of `browser_apps` first.

- `PagesInv`: what pages, calls and answers look like, with the file that each lease was given for. A lease is in three places, the
  page, a call to come and an answer that has not been read, and each must name its file: a page that names the file before
  the answer comes would break it. Leases are added and change state but never their file (`Grows`), so it lasts.
  Theorem `SavesFitTheirLease`.
- `OnceInv`: a confirmation is shown, or on its way in the first call of one function, or carried out, and in one of
  these places only. The only steps that move it are the sheet's button (`OnceSent`, which needs the sheet closed
  before the call goes out) and the gateway (`OnceCarried`); all others keep or lose it (`OnceKept`). A new one has a number not used
  before (`OnceAsked`). Theorem `ConfirmationsActOnce`.
- `StreamInv`: a page holds a stream or shows that it has none, or its first load is still to come. A load is in a function's calls
  until its answer opens the stream, and the workbench lets no one command before. Theorem `UnlockedPagesHoldAStream`.

### Only model-checked

- Liveness: `ComesBack`, `ActivationsEnd`, `StreamComesBack`. (`NobodyStarves` is the safety form of a liveness
  property, a bound, and is proved.)
- The violated properties, naturally.

## 5. Plan

What is left, in order of importance. Every safety property that a passing run checks is proved.

1. **JournalOrder**: loading by `created_at` with a clock that steps back, torn lines.
2. Budgets of `core-agent`, once something calls them.

## 6. Not modelled, and why

- Snapshots, `PostgresEventJournalRepository`, `AgentBudgetTracker` and
  the transition tables of `domain` have no caller outside tests and the simulated suite. Editor
  sessions are issued by the runtime and not kept; only the event that the gateway
  appends about one is modelled.
- `dispatchCommand` changes nothing.
- Torn file writes and clock steps wait for item 1.
- Of `core-operations`, rollout plans, migrations, preflight and backup checks, and of
  `core-protocol`, envelope validation, retry schedules and the normalisation of notifications
  are pure functions without a state that a behaviour could spoil.
- `core-security` is stateless; `core-durability` simulates scenarios and drives no service.
- The gateway's routes that read files, search or report health pass on what they are given.
- The pages' HTML and styles, the service worker's cache, the browser's search and palette, static
  serving, packaging and scripts have no protocol state. Markup and styles in `packages/ui` and
  the types and parsers of `api-contract` are a large share of the source.
