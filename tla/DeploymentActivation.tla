------------------------ MODULE DeploymentActivation ------------------------
(***************************************************************************)
(* services/deployment-agent: POST /v1/deployments/activate copies a       *)
(* release over the directory every service is mounted from, restarts the  *)
(* services the change concerns group by group, waits until they are       *)
(* healthy, and answers once every service reports the release's version.  *)
(*                                                                         *)
(* Copying is synchronous; everything after it is awaited, and nothing     *)
(* keeps a second activation from starting in between.  Services load      *)
(* whatever the directory holds when they start, for whatever reason.      *)
(***************************************************************************)
EXTENDS Integers, FiniteSets, ReleasePlans

CONSTANTS
  Releases,    \* prepared releases whose manifests are valid
  First,       \* the release that runs at the start
  Version,     \* release -> the versions it reports: two releases may share them
  Manifest,    \* the services of every manifest
  Activations, \* requests to activate, numbered as they come
  Changes,     \* the changed paths they may name
  MaxFaults,   \* bound: failures of Docker, of services and of the agent
  Damaged,     \* what a copy leaves that did not end
  Down,        \* a service that does not run
  Nobody

ASSUME FirstIsPrepared == First \in Releases
ASSUME ActivationsAreNumbered == Activations \subseteq Nat /\ Nobody \notin Activations

VARIABLES
  current,  \* what the mounted directory holds
  running,  \* external: service -> the release it loaded when it started
  requests, \* where each activation stands
  copiedBy, \* history: the activation that copied last
  faults    \* history: failures so far

deploymentVars == <<current, running, requests, copiedBy, faults>>

Observed == Names(Manifest) \ {"deployment-agent"}

Idle == [phase |-> "idle", release |-> First, changed |-> {}, group |-> 0, todo |-> <<>>, log |-> <<>>, seen |-> <<>>]

Underway(a) == requests[a].phase \in {"restart", "health", "observe"}

\* planMountedReleaseActivation, for every change that can be named.
Plan == [changed \in Changes |-> RestartGroups(Manifest, changed)]
Groups(a) == Plan[requests[a].changed]

Fault == faults < MaxFaults /\ faults' = faults + 1
Fail(a) == requests' = [requests EXCEPT ![a].phase = "failed"]

-----------------------------------------------------------------------------
(* The activation *)

Begins(release, changed) ==
  LET groups == Plan[changed]
      begun  == [Idle EXCEPT !.release = release, !.changed = changed, !.group = 1]
  IN  IF groups = <<>> THEN [begun EXCEPT !.phase = "observe"]
                       ELSE [begun EXCEPT !.phase = "restart", !.todo = groups[1]]

Comes(a) == requests[a].phase = "idle" /\ \A b \in Activations : b < a => requests[b].phase # "idle"

\* planMountedReleaseActivation, replaceDirectoryContents, repairWorkspaceSymlinks.
Copy(a, release, changed) ==
  /\ Comes(a)
  /\ impactedServicesForChangedPaths(Manifest, changed) # {}
  /\ current' = release
  /\ copiedBy' = a
  /\ requests' = [requests EXCEPT ![a] = Begins(release, changed)]
  /\ UNCHANGED <<running, faults>>

\* An error between removing the old files and having copied the new ones.
CopyFails(a) ==
  /\ Comes(a)
  /\ Fault
  /\ current' = Damaged
  /\ copiedBy' = Nobody
  /\ Fail(a)
  /\ UNCHANGED running

Loaded == IF current = Damaged THEN Down ELSE current

\* restartComposeService of the next of its group.
Restart(a) ==
  LET r == requests[a]
      done == Tail(r.todo) = <<>>
  IN  /\ r.phase = "restart"
      /\ running' = [running EXCEPT ![Head(r.todo)] = Loaded]
      /\ requests' = [requests EXCEPT ![a] =
           [r EXCEPT !.log = Append(@, [did |-> "restart", service |-> Head(r.todo)]),
                     !.phase = IF done THEN "health" ELSE @,
                     !.todo = IF done THEN Groups(a)[r.group] ELSE Tail(@)]]
      /\ UNCHANGED <<current, copiedBy, faults>>

\* waitForServiceHealth, answered.
CheckHealth(a) ==
  LET r == requests[a]
      logged == [r EXCEPT !.log = Append(@, [did |-> "healthy", service |-> Head(r.todo)]), !.todo = Tail(@)]
  IN  /\ r.phase = "health"
      /\ running[Head(r.todo)] # Down
      /\ requests' = [requests EXCEPT ![a] =
           IF logged.todo # <<>> THEN logged
           ELSE IF r.group = Len(Groups(a)) THEN [logged EXCEPT !.phase = "observe"]
           ELSE [logged EXCEPT !.phase = "restart", !.group = @ + 1, !.todo = Groups(a)[r.group + 1]]]
      /\ UNCHANGED <<current, running, copiedBy, faults>>

\* Mutant: a service that is down is asked again, for ever.
HealthAskedAgain(a) ==
  /\ requests[a].phase = "health"
  /\ running[Head(requests[a].todo)] = Down
  /\ UNCHANGED deploymentVars

\* The deadline passes while the service is down, or runs and is not ready.
HealthTimesOut(a) ==
  /\ requests[a].phase = "health"
  /\ IF running[Head(requests[a].todo)] = Down THEN UNCHANGED faults ELSE Fault
  /\ Fail(a)
  /\ UNCHANGED <<current, running, copiedBy>>

Reports(service, release) == running[service] # Down /\ Version[running[service]] = Version[release]

\* The observation of one more service.
Seeing(seen, service, served) ==
  [s \in DOMAIN seen \cup {service} |-> IF s = service THEN served ELSE seen[s]]

\* observeServices: the services are asked at once and answer when they do.
Observe(a, service) ==
  /\ requests[a].phase = "observe"
  /\ service \in Observed \ DOMAIN requests[a].seen
  /\ requests' = [requests EXCEPT ![a].seen = Seeing(@, service, Reports(service, requests[a].release))]
  /\ UNCHANGED <<current, running, copiedBy, faults>>

\* Mutant: only the services this activation restarted are looked at.
ValidRestarted(r) ==
  \A service \in impactedServicesForChangedPaths(Manifest, r.changed) \cap Observed : r.seen[service]

\* validateServiceVersionObservations
Valid(r) == \A service \in Observed : r.seen[service]

\* The record of the active release, written before the answer, is left out: nothing reads it.
Verify(a) ==
  /\ requests[a].phase = "observe"
  /\ DOMAIN requests[a].seen = Observed
  /\ requests' = [requests EXCEPT ![a].phase = IF Valid(requests[a]) THEN "ok" ELSE "failed", ![a].seen = <<>>]
  /\ UNCHANGED <<current, running, copiedBy, faults>>

\* Docker refuses to restart a service, or has no container of it.
RestartFails(a) ==
  /\ requests[a].phase = "restart"
  /\ Fault
  /\ Fail(a)
  /\ UNCHANGED <<current, running, copiedBy>>

-----------------------------------------------------------------------------
(* Around it *)

\* A service ends by itself; Docker starts it again from what the directory holds by then.
ServiceStops(service) ==
  /\ running[service] # Down
  /\ Fault
  /\ running' = [running EXCEPT ![service] = Down]
  /\ UNCHANGED <<current, requests, copiedBy>>

ServiceStarts(service) ==
  /\ running[service] = Down
  /\ current # Damaged
  /\ running' = [running EXCEPT ![service] = current]
  /\ UNCHANGED <<current, requests, copiedBy, faults>>

\* The agent ends, perhaps while it copies; it remembers no activation.
AgentCrashes ==
  /\ \E a \in Activations : Underway(a)
  /\ Fault
  /\ requests' = [a \in Activations |-> IF Underway(a) THEN [requests[a] EXCEPT !.phase = "failed"] ELSE requests[a]]
  /\ \/ UNCHANGED <<current, copiedBy>>
     \/ (\E a \in Activations : requests[a].phase = "idle") /\ current' = Damaged /\ copiedBy' = Nobody
  /\ UNCHANGED running

-----------------------------------------------------------------------------
DeploymentInit ==
  /\ current = First
  /\ running = [service \in Observed |-> First]
  /\ requests = [a \in Activations |-> Idle]
  /\ copiedBy = Nobody
  /\ faults = 0

Proceeds(a) ==
  \/ Restart(a) \/ CheckHealth(a) \/ HealthTimesOut(a) \/ Verify(a)
  \/ \E service \in Observed : Observe(a, service)

DeploymentNext ==
  \/ \E a \in Activations : Proceeds(a) \/ CopyFails(a) \/ RestartFails(a)
  \/ \E a \in Activations, release \in Releases, changed \in Changes : Copy(a, release, changed)
  \/ \E service \in Observed : ServiceStops(service) \/ ServiceStarts(service)
  \/ AgentCrashes

\* Docker and the services answer or fail, and the agent's awaits resume: an activation goes on.
DeploymentSpec ==
  /\ DeploymentInit /\ [][DeploymentNext]_deploymentVars
  /\ \A a \in Activations : WF_deploymentVars(Proceeds(a))

-----------------------------------------------------------------------------
(* Properties *)

\* From the moment an activation is answered with success, and until the directory is written again, no
\* service runs another version, be it one that was not restarted, was started by Docker in between,
\* or took part in another activation that overlapped (activate, validateServiceVersionObservations).
AnsweredReleaseIsServed ==
  \A a \in Activations : requests[a].phase = "ok" /\ copiedBy = a =>
    \A service \in Observed :
      running[service] # Down => Version[running[service]] = Version[requests[a].release]

\* A service is restarted after the services it depends on that are restarted too, and, when these are of an
\* earlier group, after they were found healthy: the list of groups and the order in the manifest have to
\* agree with dependsOn (SERVICE_SANDBOX_SPECS, SERVICE_RESTART_GROUP_ORDER).
DependenciesRestartFirst ==
  \A a \in Activations : \A i \in DOMAIN requests[a].log :
    LET log == requests[a].log
        before(did, service) == \E j \in 1..(i - 1) : log[j] = [did |-> did, service |-> service]
        spec == SpecOf(Manifest, log[i].service)
    IN  log[i].did = "restart" =>
          \A service \in spec.dependsOn \cap impactedServicesForChangedPaths(Manifest, requests[a].changed) :
            /\ before("restart", service)
            /\ before("healthy", service) \/ SpecOf(Manifest, service).restartGroup = spec.restartGroup

\* Every activation is answered, also when a service never comes up again (waitForServiceHealth).
ActivationsEnd == \A a \in Activations : Underway(a) ~> ~ Underway(a)

\* docs/service-sandbox-deployment.md: verification "prevents a mixed state such as a new Gateway talking to
\* an old Core".  Between activations, a service and the ones it depends on run the same version.
NoMixedState ==
  (\A a \in Activations : ~ Underway(a)) =>
    \A service \in Observed : \A other \in SpecOf(Manifest, service).dependsOn \cap Observed :
      {running[service], running[other]} \subseteq Releases =>
        Version[running[service]] = Version[running[other]]
=============================================================================
