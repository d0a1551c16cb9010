------------------------------ MODULE AppServer ------------------------------
(***************************************************************************)
(* services/app-server-adapter over packages/core-protocol: the registry   *)
(* of method policies, to which modules and schemas are added over HTTP    *)
(* and kept in memory only, and TypedAppServerClient, whose calls to the   *)
(* app server pass a handshake gate.                                       *)
(*                                                                         *)
(* A registration is synchronous: one step, also where it throws half way. *)
(* The client awaits its transport, which delivers in order or fails.      *)
(***************************************************************************)
EXTENDS MethodPolicies, Integers, Sequences

CONSTANTS
  Modules,   \* capability modules sent over HTTP: [id, policies], a sequence of [method, action]
  Schemas,   \* schema artifacts sent over HTTP: [codexVersion, methods]
  Callers,   \* who calls initialize()
  Methods,   \* the methods request() is called with
  MaxWire    \* bound: messages on the wire

ASSUME ModulesGivePolicies ==
  \A module \in Modules : module.policies \in Seq([method : STRING, action : MethodPolicyAction])

VARIABLES
  moduleIds,      \* modules.keys() of AppServerCapabilityRegistry
  exactPolicies,  \* method -> action
  artifact,       \* of AppServerSchemaRegistry
  initializeAccepted, initializedAccepted,  \* AppServerHandshakeGate
  initialized,    \* of the client
  initializing,   \* caller -> where its initialize() stands
  wire            \* what the transport was given, in order

registryVars == <<moduleIds, exactPolicies, artifact>>
clientVars == <<initializeAccepted, initializedAccepted, initialized, initializing, wire>>
appServerVars == <<registryVars, clientVars>>

officialDocsSchema == [codexVersion |-> "official-docs-2026-04-23", methods |-> OFFICIAL_DOC_METHODS]

-----------------------------------------------------------------------------
(* The registry *)

classify(method) == PolicyOf(exactPolicies, method)

\* Mutant: the last module to name a method decides.
AgreesAlways(exact, policy) == TRUE

Agrees(exact, policy) == policy.method \in DOMAIN exact => exact[policy.method] = policy.action

\* The policies of a module that are entered: those before the first that conflicts.
Entered(exact, policies) ==
  {i \in DOMAIN policies : \A j \in 1..i : Agrees(exact, policies[j])}

With(exact, policies, taken) ==
  [method \in DOMAIN exact \cup {policies[i].method : i \in taken} |->
     IF \E i \in taken : policies[i].method = method
     THEN policies[CHOOSE i \in taken : policies[i].method = method].action
     ELSE exact[method]]

\* Mutant: a module that conflicts is taken out again, with every method it entered.
PoliciesUndone(exact, policies) ==
  LET taken == Entered(exact, policies)
  IN  IF taken = DOMAIN policies
      THEN With(exact, policies, taken)
      ELSE [method \in DOMAIN exact \ {policies[i].method : i \in taken} |-> exact[method]]

Policies(exact, policies) == With(exact, policies, Entered(exact, policies))

\* A module that conflicts stays registered, with part of its policies.
registerModule(module) ==
  /\ module.id \notin moduleIds
  /\ moduleIds' = moduleIds \cup {module.id}
  /\ exactPolicies' = Policies(exactPolicies, module.policies)
  /\ UNCHANGED <<artifact, clientVars>>

register(schema) ==
  /\ \A method \in schema.methods : classify(method) # Unclassified
  /\ artifact' = schema
  /\ UNCHANGED <<moduleIds, exactPolicies, clientVars>>

Baseline ==
  [ids |-> {"app-server.official-docs-baseline"}, policies |-> EXACT_POLICIES, schema |-> officialDocsSchema]

\* What was registered over HTTP is forgotten.
AdapterRestarts ==
  /\ moduleIds' = Baseline.ids
  /\ exactPolicies' = Baseline.policies
  /\ artifact' = Baseline.schema
  /\ UNCHANGED clientVars

-----------------------------------------------------------------------------
(* The client *)

Gives(message) == Len(wire) < MaxWire /\ wire' = Append(wire, message)

Stands(c, phase) == initializing' = [initializing EXCEPT ![c] = phase]

\* Mutant: the gate opens with the request.
GateOpensEarly == initializeAccepted

GateOpens == initializeAccepted /\ initializedAccepted

\* The gate lets a method pass, and notes the two that open it; else it throws.
observe(method) ==
  /\ CASE method = "initialize"  -> TRUE
       [] method = "initialized" -> initializeAccepted
       [] OTHER                  -> GateOpens
  /\ initializeAccepted' = (initializeAccepted \/ method = "initialize")
  /\ initializedAccepted' = (initializedAccepted \/ method = "initialized")

\* initialize() up to its request.
Initialize(c) ==
  /\ initializing[c] \in {"no", "failed"}
  /\ observe("initialize")
  /\ Gives([method |-> "initialize", kind |-> "request"])
  /\ Stands(c, "requested")
  /\ UNCHANGED initialized

\* The answer arrives, and initialize() goes on up to its notification.
Notify(c) ==
  /\ initializing[c] = "requested"
  /\ observe("initialized")
  /\ Gives([method |-> "initialized", kind |-> "notification"])
  /\ Stands(c, "notified")
  /\ UNCHANGED initialized

Initialized(c) ==
  /\ initializing[c] = "notified"
  /\ initialized' = TRUE
  /\ Stands(c, "done")
  /\ UNCHANGED <<initializeAccepted, initializedAccepted, wire>>

\* The transport rejects the request or the notification; what the gate accepted stays accepted.
InitializeFails(c) ==
  /\ initializing[c] \in {"requested", "notified"}
  /\ Stands(c, "failed")
  /\ UNCHANGED <<initializeAccepted, initializedAccepted, initialized, wire>>

\* Any method may be asked for, the two that open the gate as well, which the policies allow.  The gate
\* is asked before the policy, unless the client is initialized, and again after it: both times the
\* same way, since what the policy refuses leaves the gate as it was.
request(method, coreAuthorized) ==
  /\ observe(method)
  /\ classifyAppServerMethod(method) \notin {"deny", Unclassified}
  /\ classifyAppServerMethod(method) = "route" => coreAuthorized
  /\ Gives([method |-> method, kind |-> "request"])
  /\ UNCHANGED <<initialized, initializing>>

-----------------------------------------------------------------------------
AppServerInit ==
  /\ moduleIds = Baseline.ids
  /\ exactPolicies = Baseline.policies
  /\ artifact = Baseline.schema
  /\ initializeAccepted = FALSE
  /\ initializedAccepted = FALSE
  /\ initialized = FALSE
  /\ initializing = [c \in Callers |-> "no"]
  /\ wire = <<>>

ClientStep ==
  /\ \/ \E c \in Callers : Initialize(c) \/ Notify(c) \/ Initialized(c) \/ InitializeFails(c)
     \/ \E method \in Methods, coreAuthorized \in BOOLEAN : request(method, coreAuthorized)
  /\ UNCHANGED registryVars

AppServerNext ==
  \/ \E module \in Modules : registerModule(module)
  \/ \E schema \in Schemas : register(schema)
  \/ AdapterRestarts
  \/ ClientStep

AppServerSpec == AppServerInit /\ [][AppServerNext]_appServerVars

-----------------------------------------------------------------------------
(* Properties *)

\* A method the platform denies is answered "deny" by every adapter, whatever modules were registered and
\* in whatever order, the ones that conflicted half way included (registerModule, classify).
DenialsStay == \A method \in DeniedMethods : classify(method) = "deny"

\* Every method of the current schema has a policy, also after modules that came later and failed
\* (register checks only once).
SchemaStaysCovered == \A method \in artifact.methods : classify(method) # Unclassified

\* The app server is never given another method before it was given `initialized`, nor that before an
\* `initialize` request, although several callers initialize at once, some fail, and others ask for
\* methods, these two among them, without waiting (AppServerHandshakeGate, TypedAppServerClient).
HandshakeFirst ==
  \A i \in DOMAIN wire :
    /\ wire[i].method = "initialized" => \E k \in 1..(i - 1) : wire[k].method = "initialize"
    /\ wire[i].method \notin {"initialize", "initialized"} => \E j \in 1..(i - 1) : wire[j].method = "initialized"
=============================================================================
