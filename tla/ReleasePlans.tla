---------------------------- MODULE ReleasePlans ----------------------------
(***************************************************************************)
(* What packages/core-operations says of the platform's services: who      *)
(* depends on whom, whom a changed path concerns, and in which order a     *)
(* release restarts them.                                                  *)
(***************************************************************************)
EXTENDS Filters, SequencesExt

Spec(service, group, owns, dependsOn) ==
  [service |-> service, restartGroup |-> group, owns |-> owns, dependsOn |-> dependsOn]

\* owns: the paths that are the service's own, beside the packages that all of them are built from.
SERVICE_SANDBOX_SPECS == <<
  Spec("core-control-plane", "core", {"services/core-control-plane/", "infra/db/"}, {}),
  Spec("app-server-adapter", "adapter", {"services/app-server-adapter/"}, {"core-control-plane"}),
  Spec("orchestrator", "adapter", {"services/orchestrator/"}, {"core-control-plane", "app-server-adapter"}),
  Spec("workspace-runtime", "runtime", {"services/workspace-runtime/", "infra/docker/sandbox.Dockerfile"}, {"core-control-plane"}),
  Spec("gateway", "gateway", {"apps/gateway/"}, {"core-control-plane", "workspace-runtime"}),
  Spec("projection-worker", "gateway", {"services/projection-worker/"}, {"core-control-plane"}),
  Spec("web", "client", {"apps/web/"}, {"gateway"}),
  Spec("ops-health", "ops", {"apps/web/"}, {"gateway"}),
  Spec("deployment-agent", "ops", {"services/deployment-agent/"}, {"core-control-plane"}) >>

\* Mutant: the clients first.
RestartGroupsFromTheFront == <<"client", "gateway", "core", "adapter", "runtime", "ops">>

SERVICE_RESTART_GROUP_ORDER == <<"core", "adapter", "runtime", "gateway", "client", "ops">>

\* Paths whose change concerns every service.
SharedPaths == {"packages/", "package.json", "package-lock.json", "tsconfig.json", "tsconfig.base.json"}

Names(specs) == {specs[i].service : i \in DOMAIN specs}
SpecOf(specs, service) == specs[CHOOSE i \in DOMAIN specs : specs[i].service = service]

impactedServicesForChangedPaths(specs, changedPaths) ==
  IF changedPaths = {} THEN Names(specs) \ {"deployment-agent"}
  ELSE IF changedPaths \cap SharedPaths # {} THEN Names(specs)
  ELSE {service \in Names(specs) : SpecOf(specs, service).owns \cap changedPaths # {}}

\* The services of a group that are concerned, in the manifest's order.
Members(specs, group, concerned) ==
  Filtered([i \in DOMAIN specs |-> specs[i].service],
           {service \in concerned : SpecOf(specs, service).restartGroup = group})

\* The groups a release restarts one after the other, each in the manifest's order, without the agent.
RestartGroups(specs, changedPaths) ==
  LET concerned == impactedServicesForChangedPaths(specs, changedPaths) \ {"deployment-agent"}
      groups    == [i \in DOMAIN SERVICE_RESTART_GROUP_ORDER |->
                      Members(specs, SERVICE_RESTART_GROUP_ORDER[i], concerned)]
  IN  Filtered(groups, ToSet(groups) \ {<<>>})
=============================================================================
