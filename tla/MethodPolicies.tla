--------------------------- MODULE MethodPolicies ---------------------------
(***************************************************************************)
(* The method policies packages/core-protocol ships: which app-server      *)
(* methods it denies by name, and which its matchers allow, or let Core    *)
(* route.  A matcher that goes by prefix stands for the official methods   *)
(* it takes; the matchers are asked in the order of PolicyOf.              *)
(***************************************************************************)
MethodPolicyAction == {"allow", "deny", "route"}

DeniedMethods == {
  "thread/shellCommand", "thread/backgroundTerminals/clean", "experimentalFeature/enablement/set", "marketplace/add",
  "plugin/install", "plugin/uninstall", "skills/config/write", "config/mcpServer/reload", "config/value/write",
  "config/batchWrite", "externalAgentConfig/import", "windowsSandbox/setupStart", "windowsSandbox/setupCompleted",
  "feedback/upload" }

EXACT_POLICIES ==
  [method \in {"initialize", "initialized"} \cup DeniedMethods |-> IF method \in DeniedMethods THEN "deny" ELSE "allow"]

workspaceSideEffect == {
  "command/exec", "command/exec/write", "command/exec/resize", "command/exec/terminate", "command/exec/outputDelta",
  "fs/readFile", "fs/writeFile", "fs/createDirectory", "fs/getMetadata", "fs/readDirectory", "fs/remove", "fs/copy",
  "fs/watch", "fs/unwatch", "fs/changed" }

approvalRelay == {"item/commandExecution/requestApproval", "serverRequest/resolved"}

turnControl == {"turn/start", "turn/steer", "turn/interrupt", "thread/inject_items", "review/start"}

threadControl == {
  "thread/start", "thread/resume", "thread/fork", "thread/name/set", "thread/metadata/update", "thread/archive",
  "thread/unarchive", "thread/unsubscribe", "thread/compact/start", "thread/rollback" }

stableRead == {
  "thread/read", "thread/list", "thread/turns/list", "thread/loaded/list", "model/list", "experimentalFeature/list",
  "collaborationMode/list", "skills/list", "plugin/list", "plugin/read", "app/list", "mcpServerStatus/list",
  "mcpServer/resource/read", "config/read", "configRequirements/read", "externalAgentConfig/detect" }

notification == {
  "thread/status/changed", "skills/changed", "fs/changed", "item/started", "item/completed",
  "command/exec/outputDelta", "mcpServer/startupStatus/updated" }

interactiveExternalAccess == {"mcpServer/oauth/login", "mcpServer/tool/call", "tool/requestUserInput"}

\* What the matchers of the baseline module say; the only ones, since a module that is registered over
\* HTTP is JSON and brings none.
Unclassified == "unclassified"

Matched(method) ==
  IF method \in workspaceSideEffect \cup approvalRelay \cup turnControl \cup threadControl THEN "route"
  ELSE IF method \in stableRead THEN "allow"
  ELSE IF method \in notification \cup interactiveExternalAccess THEN "route"
  ELSE Unclassified

PolicyOf(exactPolicies, method) ==
  IF method \in DOMAIN exactPolicies THEN exactPolicies[method] ELSE Matched(method)

classifyAppServerMethod(method) == PolicyOf(EXACT_POLICIES, method)

OFFICIAL_DOC_METHODS ==
  DOMAIN EXACT_POLICIES \cup workspaceSideEffect \cup approvalRelay \cup turnControl \cup threadControl
  \cup stableRead \cup notification \cup interactiveExternalAccess
=============================================================================
