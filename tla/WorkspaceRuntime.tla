-------------------------- MODULE WorkspaceRuntime --------------------------
(***************************************************************************)
(* services/workspace-runtime and packages/core-workspace: sandboxes in    *)
(* Docker, file leases, and the plans of commands.  The service keeps      *)
(* nothing but its file leases; what a client knows (the reservation it    *)
(* was granted, the lease it was given) it sends back as a copy, and that  *)
(* copy is all the service looks at.                                       *)
(*                                                                         *)
(* Every call to Docker is awaited, so a provision is a sequence of steps, *)
(* any of which may fail, and provisions of one sandbox interleave.        *)
(***************************************************************************)
EXTENDS CapacityAdmission

CONSTANTS
  Provisions,   \* the commands that ask for a sandbox
  Paths,        \* files of the workspace
  LeaseTtl,     \* WORKSPACE_RUNTIME_FILE_LEASE_TTL_MS
  MaxReads,     \* bound: files read
  MaxFailures   \* bound: provisions that fail

ASSUME ProvisionsAreCommands == Provisions \subseteq Commands
ASSUME LeaseTtlIsNumber == LeaseTtl \in Nat

VARIABLES
  networks,    \* external, Docker's: the names of its networks
  containers,  \* external, Docker's: name -> state
  provision,   \* where each request for a sandbox stands
  failures,    \* history: how many failed
  fileLeases,  \* id -> [path, expiresAt], in memory
  nextFileLeaseSequence,
  reads,       \* history: what each reader was given, and when it wrote with it
  planned      \* history: the heavy commands planned, and the reservation each showed

dockerVars == <<networks, containers>>
leaseVars == <<fileLeases, nextFileLeaseSequence, reads>>
runtimeVars == <<dockerVars, provision, failures, leaseVars, planned>>

\* The map with one more entry, or another one for its key.
Put(map, key, value) == [k \in DOMAIN map \cup {key} |-> IF k = key THEN value ELSE map[k]]

-----------------------------------------------------------------------------
(* Sandboxes *)

\* createSandboxContainerSpec: a container for a user in a workspace, whatever the run.
ContainerName(p) == <<Request[p].tenant, Request[p].user, Request[p].workspace>>
NetworkName(p) == <<Request[p].tenant, Request[p].workspace>>

Exists(p) == ContainerName(p) \in DOMAIN containers
StateOf(p) == containers[ContainerName(p)]

SameIdentity(c, d) ==
  \A field \in {"tenant", "user", "workspace", "run"} : Request[c][field] = Request[d][field]

\* The copy of the reservation was made when it was granted: that it was released or has
\* expired since, it does not say.
createSandboxContainerSpec(p) == \E i \in DOMAIN reservations : SameIdentity(reservations[i].command, p)

Goes(p, phase) == provision' = [provision EXCEPT ![p] = phase]
OnlyGoes(p, phase) == Goes(p, phase) /\ UNCHANGED <<dockerVars, failures>>

\* POST /v1/workspace/provision; a failed one may be sent again.
Provision(p) ==
  /\ provision[p] \in {"asked", "failed", "answered"}
  /\ createSandboxContainerSpec(p)
  /\ OnlyGoes(p, "list_networks")

ListNetworks(p) ==
  /\ provision[p] = "list_networks"
  /\ OnlyGoes(p, IF NetworkName(p) \in networks THEN "find" ELSE "create_network")

\* CheckDuplicate: Docker refuses a name it has.
CreateNetwork(p) ==
  /\ provision[p] = "create_network"
  /\ NetworkName(p) \notin networks
  /\ networks' = networks \cup {NetworkName(p)}
  /\ Goes(p, "find")
  /\ UNCHANGED <<containers, failures>>

\* Mutant: a container that is there counts as started.
FindStarted(p) ==
  /\ provision[p] = "find"
  /\ OnlyGoes(p, IF Exists(p) THEN "answered" ELSE "create")

Find(p) ==
  /\ provision[p] = "find"
  /\ OnlyGoes(p, IF Exists(p) THEN "locate" ELSE "create")

Create(p) ==
  /\ provision[p] = "create"
  /\ ~ Exists(p)
  /\ containers' = Put(containers, ContainerName(p), "created")
  /\ Goes(p, "locate")
  /\ UNCHANGED <<networks, failures>>

Locate(p) ==
  /\ provision[p] = "locate"
  /\ Exists(p)
  /\ OnlyGoes(p, IF StateOf(p) = "running" THEN "answered" ELSE "start")

Start(p) ==
  /\ provision[p] = "start"
  /\ Exists(p)
  /\ containers' = [containers EXCEPT ![ContainerName(p)] = "running"]
  /\ Goes(p, "answered")
  /\ UNCHANGED <<networks, failures>>

Calling(p) == provision[p] \notin {"asked", "answered", "failed"}

\* Docker refuses, or cannot be reached: the call has no effect.
CallFails(p) ==
  /\ Calling(p)
  /\ failures < MaxFailures
  /\ Goes(p, "failed")
  /\ failures' = failures + 1
  /\ UNCHANGED dockerVars

\* The call has its effect and its answer is lost.
AnswerLost(p) ==
  /\ failures < MaxFailures
  /\ failures' = failures + 1
  /\ Goes(p, "failed")
  /\ \/ /\ provision[p] = "create_network"
        /\ networks' = networks \cup {NetworkName(p)}
        /\ UNCHANGED containers
     \/ /\ provision[p] = "create" /\ ~ Exists(p)
        /\ containers' = Put(containers, ContainerName(p), "created")
        /\ UNCHANGED networks
     \/ /\ provision[p] = "start" /\ Exists(p)
        /\ containers' = [containers EXCEPT ![ContainerName(p)] = "running"]
        /\ UNCHANGED networks

\* POST /v1/workspace/stop, or the sandbox ends by itself.
Stop(name) ==
  /\ containers[name] = "running"
  /\ containers' = [containers EXCEPT ![name] = "exited"]
  /\ UNCHANGED <<networks, provision, failures>>

SandboxStep ==
  /\ \/ \E p \in Provisions :
          \/ Provision(p) \/ ListNetworks(p) \/ CreateNetwork(p) \/ Find(p) \/ Create(p) \/ Locate(p) \/ Start(p)
          \/ CallFails(p) \/ AnswerLost(p)
     \/ \E name \in DOMAIN containers : Stop(name)
  /\ UNCHANGED <<leaseVars, planned>>

-----------------------------------------------------------------------------
(* Files *)

\* Mutant: the id is the sequence number alone.
LeaseIdBySequence(time, sequence) == <<0, sequence>>

LeaseId(time, sequence) == <<time, sequence>>

pruneExpiredFileLeases(leases) ==
  [id \in {held \in DOMAIN leases : leases[held].expiresAt > now} |-> leases[id]]

\* GET /v1/workspace/files/read
Read(path) ==
  LET id == LeaseId(now, nextFileLeaseSequence)
  IN  /\ Len(reads) < MaxReads
      /\ fileLeases' = Put(pruneExpiredFileLeases(fileLeases), id, [path |-> path, expiresAt |-> now + LeaseTtl])
      /\ nextFileLeaseSequence' = nextFileLeaseSequence + 1
      /\ reads' = Append(reads, [id |-> id, path |-> path, at |-> now, written |-> <<>>])

assertWriteFileAllowed(id, path) ==
  /\ id \in DOMAIN fileLeases
  /\ fileLeases[id].expiresAt > now
  /\ fileLeases[id].path = path

\* POST /v1/workspace/files/write by the reader of reads[k]
Write(k) ==
  /\ assertWriteFileAllowed(reads[k].id, reads[k].path)
  /\ fileLeases' = [id \in DOMAIN fileLeases \ {reads[k].id} |-> fileLeases[id]]
  /\ reads' = [reads EXCEPT ![k].written = Append(@, now)]
  /\ UNCHANGED nextFileLeaseSequence

FileStep ==
  /\ (\E path \in Paths : Read(path)) \/ (\E k \in DOMAIN reads : Write(k))
  /\ UNCHANGED <<dockerVars, provision, failures, planned>>

-----------------------------------------------------------------------------
(* Commands *)

\* Mutant: any reservation of the run's workspace will do.
MatchesWorkspace(c, r) ==
  /\ r.expiresAt > now
  /\ \A field \in {"tenant", "user", "workspace", "resourceClass"} : Request[r.command][field] = Request[c][field]

Matches(c, r) ==
  /\ r.expiresAt > now
  /\ r.command = c
  /\ \A field \in {"tenant", "user", "workspace", "resourceClass"} : Request[r.command][field] = Request[c][field]

\* POST /v1/workspace/command-plan with the copy made when the reservation was granted.
planRuntimeCommand(c, i) ==
  /\ isHeavyResourceClass(Request[c].resourceClass)
  /\ Matches(c, reservations[i])
  /\ planned' = planned \cup {[command |-> c, reservation |-> i]}
  /\ UNCHANGED <<dockerVars, provision, failures, leaseVars>>

CommandStep == \E c \in Commands, i \in DOMAIN reservations : planRuntimeCommand(c, i)

-----------------------------------------------------------------------------
\* A new process, some time later, with none of the leases; what was under way fails.
RuntimeRestarts ==
  /\ now < MaxTime
  /\ now' = now + 1
  /\ fileLeases' = <<>>
  /\ nextFileLeaseSequence' = 1
  /\ provision' = [p \in Provisions |-> IF Calling(p) THEN "failed" ELSE provision[p]]
  /\ UNCHANGED <<reservations, overloadUntil, dockerVars, failures, reads, planned>>

RuntimeInit ==
  /\ networks = {}
  /\ containers = <<>>
  /\ provision = [p \in Provisions |-> "asked"]
  /\ failures = 0
  /\ fileLeases = <<>>
  /\ nextFileLeaseSequence = 1
  /\ reads = <<>>
  /\ planned = {}

\* Beside the controller whose reservations the clients show it.
RuntimeNext ==
  \/ (CapacityNext \/ Tick) /\ UNCHANGED runtimeVars
  \/ (SandboxStep \/ FileStep \/ CommandStep) /\ UNCHANGED capacityVars
  \/ RuntimeRestarts

RuntimeSpec == CapacityInit /\ RuntimeInit /\ [][RuntimeNext]_<<capacityVars, runtimeVars>>

-----------------------------------------------------------------------------
(* Properties *)

\* A sandbox that was answered for exists and was started, although the request that made it may
\* have failed or died before it started it, and another, or a retry, found it (provisionDockerSandbox).
StartedSandboxes ==
  \A p \in Provisions : provision[p] = "answered" => Exists(p) /\ StateOf(p) # "created"

\* What was read is written back at most once, and only while the reader's own lease lasts: never on a
\* lease that another reader got, also when the service restarted and counts from 1 again (issueFileLease).
LeaseWritesOnce ==
  \A k \in DOMAIN reads :
    Len(reads[k].written) <= 1 /\ \A j \in DOMAIN reads[k].written : reads[k].written[j] < reads[k].at + LeaseTtl

Occupying == {plan.command : plan \in {q \in planned : reservations[q.reservation].releasedAt = NotReleased}}

\* The heavy commands planned on capacity that nobody gave back are never more than any quota allows,
\* although the runtime has only copies of the reservations to look at (planRuntimeCommand, checkQuota).
PlannedWithinQuota ==
  \A quota \in Quotas, class \in HEAVY_RESOURCE_CLASSES :
    Cardinality({c \in Occupying : Covers(quota, c) /\ Request[c].resourceClass = class}) <= Limit(quota, class)
=============================================================================
