----------------------------- MODULE RunStates -----------------------------
(***************************************************************************)
(* The run state machine of packages/core-kernel: the states a run can be  *)
(* in and the table RUN_TRANSITIONS that transitionState consults.         *)
(***************************************************************************)

RunState ==
  {"draft", "queued", "waiting_for_capacity", "planning", "planned",
   "assigning", "preparing_workspace", "binding_app_server", "running",
   "waiting_for_input", "waiting_for_approval", "blocked", "recovering",
   "verifying", "ready_for_review", "integrating", "completed", "failed",
   "cancelled"}

\* A state the table gives no successor.
Terminal == {"completed", "cancelled"}

RUN_TRANSITIONS ==
  [s \in RunState |->
     CASE s = "draft"                -> {"queued", "cancelled"}
       [] s = "queued"               -> {"waiting_for_capacity", "planning", "cancelled"}
       [] s = "waiting_for_capacity" -> {"planning", "cancelled"}
       [] s = "planning"             -> {"planned", "blocked", "recovering", "cancelled"}
       [] s = "planned"              -> {"assigning", "cancelled"}
       [] s = "assigning"            -> {"preparing_workspace", "blocked", "cancelled"}
       [] s = "preparing_workspace"  -> {"binding_app_server", "recovering", "failed", "cancelled"}
       [] s = "binding_app_server"   -> {"running", "recovering", "failed", "cancelled"}
       [] s = "running"              -> {"waiting_for_input", "waiting_for_approval", "blocked",
                                         "recovering", "verifying", "cancelled"}
       [] s = "waiting_for_input"    -> {"running", "cancelled"}
       [] s = "waiting_for_approval" -> {"running", "blocked", "cancelled"}
       [] s = "blocked"              -> {"running", "recovering", "cancelled", "failed"}
       [] s = "recovering"           -> {"running", "blocked", "failed", "cancelled"}
       [] s = "verifying"            -> {"ready_for_review", "running", "failed", "cancelled"}
       [] s = "ready_for_review"     -> {"integrating", "running", "cancelled"}
       [] s = "integrating"          -> {"completed", "failed", "cancelled"}
       [] s = "failed"               -> {"recovering"}
       [] s \in Terminal             -> {}]

CanTransition(from, to) == to \in RUN_TRANSITIONS[from]
=============================================================================
