---------------------------- MODULE MCDeployment ----------------------------
\* The activation of releases on some of the platform's services.
EXTENDS DeploymentActivation

CONSTANTS r1, r2, MCServices

MCManifest == SelectSeq(SERVICE_SANDBOX_SPECS, LAMBDA spec : spec.service \in MCServices)

MCVersion == r1 :> "v1" @@ r2 :> "v2"

\* Nothing named, one service, or the agent.
MCChanges == {{}, {"apps/gateway/"}, {"services/deployment-agent/"}}
=============================================================================
