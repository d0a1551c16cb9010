--------------------------- MODULE MCExecutionPlane --------------------------
\* What stands between the core and the work it dispatches, on small instances: capacity, the fair queue,
\* the workspace runtime and the app-server adapter.  They share the clock, and the reservations, which
\* the runtime only reads: each is explored from a state the others rest in.
EXTENDS WorkspaceRuntime, TenantFairQueue, AppServer

CONSTANTS build1, build2, test1, edit1, edit2, edit3, ta, tb, tc

VARIABLE atWork  \* the part that takes steps

MCRequest ==
  LET asks(tenant, user, run, class) ==
        [tenant |-> tenant, user |-> user, workspace |-> "w", run |-> run, resourceClass |-> class]
  IN  build1 :> asks("ta", "u1", "r1", "build") @@ build2 :> asks("ta", "u1", "r2", "build")
      @@ test1 :> asks("tb", "u2", "r3", "test")
      @@ edit1 :> asks("ta", "u1", "r1", "interactive") @@ edit2 :> asks("ta", "u1", "r2", "interactive")
      @@ edit3 :> asks("ta", "u3", "r3", "interactive")

\* Room for two at once, one of them a build of user u1; tenant ta has no limits by class.
MCQuotas == {
  [scope |-> "global", id |-> "global", maxConcurrent |-> 3, maxByClass |-> [build |-> 2, test |-> 1]],
  [scope |-> "tenant", id |-> "ta", maxConcurrent |-> 2, maxByClass |-> <<>>],
  [scope |-> "user", id |-> "u1", maxConcurrent |-> 2, maxByClass |-> [build |-> 1]] }

Module(id, policies) == [id |-> id, policies |-> policies]
Policy(method, action) == [method |-> method, action |-> action]

\* A new method; the same again, before a policy that contradicts one of another module; a reader of
\* files; and one that asks for what is denied, after something harmless.
MCModules == {
  Module("canvas", <<Policy("canvas/open", "route")>>),
  Module("canvas.files", <<Policy("canvas/open", "route"), Policy("fs/readFile", "route"), Policy("canvas/close", "route")>>),
  Module("files", <<Policy("fs/readFile", "allow")>>),
  Module("shell", <<Policy("canvas/close", "allow"), Policy("thread/shellCommand", "allow")>>) }

MCSchemas == {
  [codexVersion |-> "next", methods |-> {"canvas/open"} \cup OFFICIAL_DOC_METHODS],
  [codexVersion |-> "later", methods |-> {"canvas/open", "canvas/close"} \cup OFFICIAL_DOC_METHODS] }

vars == <<capacityVars, runtimeVars, queueVars, appServerVars, atWork>>

\* Two sandboxes were admitted before: the same one for two runs, or two of one workspace.
Admitted(other) ==
  /\ overloadUntil = 0
  /\ now = 1
  /\ reservations = <<Granted(edit1), Granted(other)>>

MCInit ==
  /\ RuntimeInit
  /\ QueueInit
  /\ AppServerInit
  /\ \/ atWork \in {"capacity", "files", "queue", "app_server"} /\ CapacityInit
     \/ atWork = "sandboxes" /\ \E other \in {edit2, edit3} : Admitted(other)

MCNext ==
  /\ UNCHANGED atWork
  /\ \/ atWork = "capacity" /\ (CapacityNext \/ Tick) /\ UNCHANGED <<runtimeVars, queueVars, appServerVars>>
     \/ atWork = "capacity" /\ CommandStep /\ UNCHANGED <<capacityVars, queueVars, appServerVars>>
     \/ atWork = "sandboxes" /\ SandboxStep /\ UNCHANGED <<capacityVars, queueVars, appServerVars>>
     \/ atWork = "files" /\ FileStep /\ UNCHANGED <<capacityVars, queueVars, appServerVars>>
     \/ atWork = "files" /\ Tick /\ UNCHANGED <<runtimeVars, queueVars, appServerVars>>
     \/ atWork \in {"sandboxes", "files"} /\ RuntimeRestarts /\ UNCHANGED <<queueVars, appServerVars>>
     \/ atWork = "queue" /\ QueueNext(now, {0, now + 1}) /\ UNCHANGED <<capacityVars, runtimeVars, appServerVars>>
     \/ atWork = "app_server" /\ AppServerNext /\ UNCHANGED <<capacityVars, runtimeVars, queueVars>>

MCSpec == MCInit /\ [][MCNext]_vars
=============================================================================
