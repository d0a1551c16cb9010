----------------------------- MODULE ControlRoom -----------------------------
(***************************************************************************)
(* The control room of packages/api-contract: what clients are shown is a  *)
(* fold over the core's journal, rebuilt from the first event on every     *)
(* request; and the read models of packages/domain, which the projection   *)
(* worker rebuilds in the same way.  An event here is the part of a        *)
(* DomainEvent the folds read: its type, the run and the item it is about, *)
(* and one value.                                                          *)
(***************************************************************************)
EXTENDS RunStates, Filters, SequencesExt

CONSTANTS
  Runs,   \* run ids
  Items,  \* approvals, conflicts, recoveries, notifications, hunks, contracts, ...
  NoItem  \* an event about no item, a value that is missing

UserRunStatus ==
  {"accepted", "preparing", "in_progress", "needs_review", "completed", "failed", "cancelled"}

mapInternalRunStateToUserStatus ==
  [s \in RunState |->
     CASE s \in {"draft", "queued"} -> "accepted"
       [] s \in {"waiting_for_capacity", "planning", "planned", "assigning",
                 "preparing_workspace", "binding_app_server", "recovering"} -> "preparing"
       [] s \in {"running", "waiting_for_input", "blocked", "verifying", "integrating"} -> "in_progress"
       [] s \in {"waiting_for_approval", "ready_for_review"} -> "needs_review"
       [] OTHER -> s]

mapRunStateToStep ==
  [s \in RunState |->
     CASE s \in {"draft", "queued"} -> "accepted"
       [] s \in {"planning", "planned"} -> "analyzing"
       [] s \in {"assigning", "preparing_workspace", "binding_app_server", "waiting_for_capacity"} -> "preparing"
       [] s \in {"running", "waiting_for_input", "blocked", "recovering"} -> "executing"
       [] s \in {"waiting_for_approval", "verifying", "ready_for_review", "integrating"} -> "reviewing"
       [] OTHER -> "complete"]

RunSummary(s) == [userStatus |-> mapInternalRunStateToUserStatus[s], currentStep |-> mapRunStateToStep[s]]

EmptyView ==
  [runs          |-> [r \in Runs |-> NoItem],
   contracts     |-> {},
   decisions     |-> <<>>,   \* newest first
   commandQueue  |-> {},
   approvalInbox |-> [i \in Items |-> NoItem],
   conflictQueue |-> [i \in Items |-> NoItem],
   recoveryQueue |-> [i \in Items |-> NoItem],
   diff          |-> [i \in Items |-> NoItem],
   notifications |-> {},
   read          |-> {},
   editorSession |-> "not_issued",
   finalReview   |-> [run |-> NoItem, state |-> "not_ready"]]

\* One event of the forEach: updates of things never announced are dropped.
Shows(view, e) ==
  CASE e.type = "RunCreated"                 -> [view EXCEPT !.runs[e.run] = [RunSummary("draft") EXCEPT !.currentStep = "accepted"]]
    [] e.type = "RunStateChanged"            -> [view EXCEPT !.runs[e.run] = IF @ = NoItem THEN @ ELSE RunSummary(e.value)]
    [] e.type = "AgentTaskContractAccepted"  -> [view EXCEPT !.contracts = @ \cup {e.item}]
    [] e.type = "SupervisorDecisionRecorded" -> [view EXCEPT !.decisions = <<e.item>> \o @]
    [] e.type = "CommandQueued"              -> [view EXCEPT !.commandQueue = @ \cup {e.item}]
    [] e.type = "ApprovalRequested"          -> [view EXCEPT !.approvalInbox[e.item] = "requested"]
    [] e.type = "ApprovalDecided"            -> [view EXCEPT !.approvalInbox[e.item] =
                                                   IF @ = NoItem THEN @
                                                   ELSE IF e.value = "approve" THEN "approved" ELSE "rejected"]
    [] e.type \in {"ConflictDetected", "ConflictEscalated"} -> [view EXCEPT !.conflictQueue[e.item] = e.value]
    [] e.type \in {"RecoveryQueued", "RecoveryUpdated"} ->
         [view EXCEPT !.recoveryQueue[e.item] = [run |-> e.run, state |-> e.value]]
    [] e.type = "DiffUpdated"                -> [view EXCEPT !.diff[e.item] = e.value]
    [] e.type = "NotificationRaised"         -> [view EXCEPT !.notifications = @ \cup {e.item}]
    [] e.type = "NotificationRead"           -> [view EXCEPT !.read = @ \cup {e.item}]
    [] e.type = "EditorSessionChanged"       -> [view EXCEPT !.editorSession = e.value]
    [] e.type = "FinalReviewGateChanged"     -> [view EXCEPT !.finalReview = [run |-> e.run, state |-> e.value]]
    [] OTHER                                 -> view

rebuildControlRoomProjection(journal) ==
  LET view[n \in 0..Len(journal)] == IF n = 0 THEN EmptyView ELSE Shows(view[n - 1], journal[n])
  IN  view[Len(journal)]

\* The mobile projection reads the same view: unread notifications, and what asks for a decision.
Inbox(view) == view.notifications \ view.read

\* (the mobile page shows the first ten, and the first run when there is nothing to decide)
buildMobileNextActions(view) ==
  LET asked    == {i \in Items : view.approvalInbox[i] = "requested"}
      detected == {i \in Items : view.conflictQueue[i] = "detected"}
      open     == {i \in Items : view.recoveryQueue[i] # NoItem /\ view.recoveryQueue[i].state # "resolved"}
      review   == {r \in Runs : view.finalReview.run = r /\ view.finalReview.state \in {"ready", "changes_requested"}}
  IN  ({"approval"} \X asked) \cup ({"conflict"} \X detected) \cup ({"recovery"} \X open)
        \cup ({"final_review"} \X review) \cup ({"notification"} \X Inbox(view))

-----------------------------------------------------------------------------
\* The events of the aggregate Run.
RunEvent == {"RunCreated", "RunStateChanged", "SupervisorDecisionRecorded"}

OfRuns(journal) == Filtered(journal, {e \in ToSet(journal) : e.type \in RunEvent})

Listed(journal, type) == Filtered(journal, {e \in ToSet(journal) : e.type = type})

\* The worker's models only list: nothing is taken out or changed by a later event, an approval
\* stays "requested" after it was decided.
rebuildPlatformReadModels(journal) ==
  LET accepted == Listed(journal, "AgentTaskContractAccepted")
      asked    == Listed(journal, "ApprovalRequested")
      changed  == Listed(journal, "WorkspaceRuntimeStateChanged")
  IN  [timeline        |-> OfRuns(journal),
       agentRoster     |-> [i \in DOMAIN accepted |-> accepted[i].item],
       approvalInbox   |-> [i \in DOMAIN asked |-> [item |-> asked[i].item, state |-> "requested"]],
       workspaceStatus |-> IF changed = <<>> THEN NoItem ELSE Last(changed).value]
=============================================================================
