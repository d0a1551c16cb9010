------------------------------ MODULE MCGateway ------------------------------
(* Instances of GatewayCommands: an empty core in which a run is being     *)
(* created, and a core with two runs under way, one in each state in which *)
(* the handlers behave differently.                                        *)
EXTENDS GatewayCommands

CONSTANTS r1, r2, h1, c1, q1, q2, q3

MCItems ==
  {h1, c1} \cup ({"planner", "builder", "verifier", "initial", "approval", "notification", "conflict",
                  "recovery", "diff", "decision"} \X Runs) \cup {Derived("approval_hunk", h1)}

Asks(kind, r, item, choice) == [kind |-> kind, run |-> r, item |-> item, choice |-> choice]

Control(a) == Asks("controlSupervisor", r1, NoItem, a)
Review(d) == Asks("decideFinalReview", r1, NoItem, d)
Approval(d) == Asks("decideApproval", NoRun, Derived("approval", r1), d)

\* Key q1 may be sent twice, q2 once, at any time beside it; q3 asks, alone, for what only appends.
MCMenu ==
     q1 :> {Asks("createRun", r1, NoItem, NoItem), Review("approve"), Approval("approve"), Control("accept_report")}
  @@ q2 :> {Control("pause"), Control("cancel"), Review("approve"), Approval("reject")}
  @@ q3 :> {Control("retry"), Control("resume"), Control("reassign"), Review("request_changes"),
            Asks("enqueueCommand", r1, c1, "test"), Asks("decideHunk", NoRun, h1, "approve"),
            Asks("escalateConflict", NoRun, Derived("conflict", r1), NoItem),
            Asks("changeEditorSession", NoRun, NoItem, "ready"),
            Asks("registerMobilePush", NoRun, c1, "granted"), Asks("writeFile", NoRun, h1, NoItem),
            Asks("markNotificationRead", NoRun, c1, NoItem)}

MCAgentMoves == r1 :> {} @@ r2 :> {"waiting_for_approval"}

MCMaxAttempts == q1 :> 2 @@ q2 :> 1 @@ q3 :> 2

\* The ways from draft to the states the instance starts in.
WorkPath == <<"queued", "planning", "planned", "assigning", "preparing_workspace", "binding_app_server", "running">>
WayTo(s) ==
  IF s = "assigning" THEN SubSeq(WorkPath, 1, 4) ELSE
  WorkPath \o
  CASE s = "running"              -> <<>>
    [] s = "waiting_for_approval" -> <<"waiting_for_approval">>
    [] s = "ready_for_review"     -> <<"verifying", "ready_for_review">>

Created(r, s) ==
  <<AboutItem(NoItem, "RunCreated", r, NoItem, "draft")>>
    \o [i \in DOMAIN WayTo(s) |-> AboutItem(NoItem, "RunStateChanged", r, NoItem, WayTo(s)[i])]

Surface(r) ==
  << AboutItem(NoItem, "AgentTaskContractAccepted", r, Derived("planner", r), NoItem),
     AboutItem(NoItem, "AgentTaskContractAccepted", r, Derived("builder", r), NoItem),
     AboutItem(NoItem, "AgentTaskContractAccepted", r, Derived("verifier", r), NoItem),
     AboutItem(NoItem, "CommandQueued", r, Derived("initial", r), "ready"),
     AboutItem(NoItem, "ApprovalRequested", r, Derived("approval", r), NoItem),
     AboutItem(NoItem, "NotificationRaised", r, Derived("notification", r), NoItem),
     AboutItem(NoItem, "ConflictDetected", r, Derived("conflict", r), "detected"),
     AboutItem(NoItem, "RecoveryQueued", r, Derived("recovery", r), "ready_to_retry"),
     AboutItem(NoItem, "DiffUpdated", r, Derived("diff", r), "pending"),
     AboutItem(NoItem, "FinalReviewGateChanged", r, NoItem, "not_ready"),
     AboutItem(NoItem, "SupervisorDecisionRecorded", r, Derived("decision", r), NoItem) >>

Seeded == [i \in 1..3 |-> AboutItem(NoItem,
  <<"TenantUserWorkspaceSeeded", "WorkspaceCatalogSeeded", "WorkspaceRuntimeStateChanged">>[i], NoRun, NoItem, NoItem)]

Started(r, s, decision) == r :> [state |-> s, supervisorDecisionId |-> decision]

\* An attempt that was lost on its way.
Spent ==
  [asks |-> Asks("changeEditorSession", NoRun, NoItem, "ready"), todo |-> <<>>, latest |-> NoRun,
   status |-> "failed", late |-> FALSE]
Only(qs) == requests = [q \in Requests |-> IF q \in qs THEN Idle ELSE Spent]
Twice(k) == {<<k, 1>>, <<k, 2>>}

\* q1 is creating r1, which is in state s by now and has the first n events of its surface; the
\* attempt that is at it is the first, or a second one after a first that was lost.
Creating(s, n, attempt, status, todo, idle) ==
  LET its == [asks |-> Asks("createRun", r1, NoItem, NoItem), latest |-> NoRun,
                status |-> status, late |-> FALSE, todo |-> todo]
  IN  /\ journal = Seeded \o [Created(r1, s) EXCEPT ![1].by = <<q1, attempt>>] \o SubSeq(Surface(r1), 1, n)
      /\ runs = Started(r1, s, IF n = Len(Surface(r1)) THEN Derived("decision", r1) ELSE NoItem) @@ r2 :> NoRun
      /\ requests = [q \in Requests |->
           IF q = <<q1, attempt>> THEN its ELSE IF q \in idle THEN Idle ELSE Spent]

\* Its surface is to come; or the creation broke off and will be sent again; or it still moves the
\* run while the client sends it again.
ToCome == seedAgentControlSurface(r1) \o <<GetFor(NoItem)>>
LastAttempt == Creating("running", 0, 2, "running", ToCome, {<<q2, 1>>})
BrokenOff(n) == Creating("running", n, 1, "failed", <<>>, {<<q1, 2>>, <<q2, 1>>})
Moving == Creating("assigning", 0, 1, "running", SubSeq(transitionRunPath, 5, 7) \o ToCome, {<<q1, 2>>})

\* r1 is under way, its surface whole or broken off; r2 came later and waits for an approval.
Underway(s, whole) ==
  /\ journal = Seeded \o Created(r1, s)
                 \o (IF whole THEN Surface(r1) ELSE SubSeq(Surface(r1), 1, 2)) \o Created(r2, "waiting_for_approval")
  /\ runs = Started(r1, s, IF whole THEN Derived("decision", r1) ELSE NoItem) @@ Started(r2, "waiting_for_approval", NoItem)

States == {"running", "waiting_for_approval", "ready_for_review"}

\* A creation alone; one that is sent again while it goes on, or after it broke off and then with
\* another request beside it; two requests about runs under way, or one of them sent twice; and the
\* handlers that append, sent twice.
MCInit ==
  /\ responses = [k \in Keys |-> FALSE]
  /\ \/ journal = <<>> /\ runs = [r \in Runs |-> NoRun] /\ Only({<<q1, 1>>})
     \/ LastAttempt \/ Moving \/ \E n \in 0..Len(Surface(r1)) : BrokenOff(n)
     \/ \E s \in States, whole \in BOOLEAN :
          Underway(s, whole) /\ (Only({<<q1, 1>>, <<q2, 1>>}) \/ Only(Twice(q1)))
     \/ \E s \in States : Underway(s, TRUE) /\ Only(Twice(q3))
MCSpec == MCInit /\ [][Next]_vars
=============================================================================
