--------------------------- MODULE GatewayCommands ---------------------------
(***************************************************************************)
(* The command handlers of apps/gateway.  The gateway has no state of its  *)
(* own: a handler is a sequence of awaited calls to the core, and between  *)
(* two of them every other request may run.  Any call can fail, before or  *)
(* after it took effect; the handler then answers 400.  A client may send  *)
(* a request again with the same key at any time: after a failure, after   *)
(* an answer that was lost, or while the first attempt still runs because  *)
(* the connection broke.  Nothing in the gateway keeps two attempts with   *)
(* one key apart.                                                          *)
(*                                                                         *)
(* The core is seen as its refinement shows it: each call is one step.  A  *)
(* run's version is left out, since it always agrees with the journal, and *)
(* so are the audit events.  An event remembers the attempt that caused    *)
(* it; a guard reads only its key, which the core stores with a creation.  *)
(***************************************************************************)
EXTENDS ControlRoom

CONSTANTS
  Keys,         \* idempotency keys, one for each thing a client wants done
  Menu,         \* key -> what it may be used to ask: records [kind, run, item, choice]
  AgentMoves,   \* run -> the states its agents ask the core's transition route for
  MaxAttempts,  \* bound: key -> how often its client sends the request
  NoRun

ASSUME AttemptsAreNumbers == MaxAttempts \in [Keys -> Nat \ {0}]

\* The HTTP requests: the first, second, ... attempt with a key.
Requests == UNION {{k} \X (1..MaxAttempts[k]) : k \in Keys}

KeyOf(q) == q[1]
Previous(q) == <<q[1], q[2] - 1>>

ASSUME NothingIsNone ==
  /\ NoRun \notin Runs
  /\ NoItem \notin Items \cup Requests \cup RunState \cup {RunSummary(s) : s \in RunState} \cup {"approved", "rejected"}

\* What can be asked: one route each.  A menu names the run of a route that has one in its path.
Idempotent ==
  {"enqueueCommand", "decideApproval", "controlSupervisor", "escalateConflict", "changeEditorSession",
   "decideFinalReview", "decideHunk", "registerMobilePush", "markNotificationRead"}

Asking == Idempotent \cup {"createRun", "writeFile"}

ASSUME MenusAreRoutes == \A k \in Keys : \A m \in Menu[k] : m.kind \in Asking /\ m.run \in Runs \cup {NoRun}

VARIABLES
  journal,    \* the core's events
  runs,       \* run id -> [state, supervisorDecisionId], or NoRun
  responses,  \* idempotency key -> has a stored response
  requests    \* attempt -> what it asks and how far its handler got

vars == <<journal, runs, responses, requests>>

-----------------------------------------------------------------------------
(* Calls: what a handler still has to do, in order. *)

Call(op, type, item, value) == [op |-> op, type |-> type, item |-> item, value |-> value]

Read(op)                     == Call(op, "", NoItem, NoItem)
AppendCall(type, item, value) == Call("append", type, item, value)
GetFor(next)                 == Call("get", "", NoItem, next)
Move(to)                     == Call("move", "", NoItem, to)

\* transitionRunPath asks for the run before each move.
transitionRunPath ==
  LET path == <<"queued", "planning", "planned", "assigning", "preparing_workspace",
                "binding_app_server", "running">>
  IN  [i \in DOMAIN path |-> GetFor(path[i])]

\* Ids the gateway derives from a run: contract_<run>_<suffix>, approval_<run>_scope, ...
Derived(name, r) == <<name, r>>

\* The supervisor's decisions: the one a run's creation records, and those of control actions.
DecisionIds ==
  {NoItem} \cup {Derived("decision", r) : r \in Runs \cup {NoRun}} \cup ({"decision"} \X Keys \X Nat)

ASSUME NoRunIsNoRecord == NoRun \notin [state : RunState, supervisorDecisionId : DecisionIds]
ASSUME ScopeApprovalsAreItems == \A r \in Runs : Derived("approval", r) \in Items

\* Each contract's acceptance is followed by its hierarchy and lease events, which
\* no handler reads back; so are the run's other notices.
seedAgentControlSurface(r) ==
  << Call("start", "", Derived("planner", r), NoItem),
     Call("start", "", Derived("builder", r), NoItem),
     Call("start", "", Derived("verifier", r), NoItem),
     AppendCall("CommandQueued", Derived("initial", r), "ready"),
     AppendCall("ApprovalRequested", Derived("approval", r), NoItem),
     AppendCall("NotificationRaised", Derived("notification", r), NoItem),
     AppendCall("ConflictDetected", Derived("conflict", r), "detected"),
     AppendCall("RecoveryQueued", Derived("recovery", r), "ready_to_retry"),
     AppendCall("DiffUpdated", Derived("diff", r), "pending"),
     AppendCall("FinalReviewGateChanged", NoItem, "not_ready"),
     Call("decide", "", Derived("decision", r), NoItem) >>

createRun(m) ==
  <<Read("seeded"), Read("create"), AppendCall("RunObjectiveUpdated", NoItem, NoItem)>>
    \o transitionRunPath \o seedAgentControlSurface(m.run) \o <<GetFor(NoItem)>>

\* withIdempotency: read the key, execute, store the response.
withIdempotency(calls) == <<Read("key")>> \o calls \o <<Read("put")>>

\* What each handler does first; reads bring in the calls that depend on them.
enqueueCommand(m) ==
  <<AppendCall("CommandQueued", m.item, m.choice), AppendCall("TerminalOutputAppended", NoItem, NoItem)>>
    \o (IF m.choice = "test" THEN <<AppendCall("ArtifactCreated", m.item, NoItem)>> ELSE <<>>)

decideApproval(m) ==
  <<Read("latest"), AppendCall("ApprovalDecided", m.item, m.choice), Read("latest"), Read("getLatest")>>

controlSupervisor(m) ==
  <<GetFor("decide"), Read("recovery"), AppendCall("SupervisorControlActionRecorded", NoItem, m.choice)>>

escalateConflict(m) == <<Read("latest"), AppendCall("ConflictEscalated", m.item, "escalated")>>

changeEditorSession(m) == <<AppendCall("EditorSessionChanged", NoItem, m.choice)>>

decideFinalReview(m) ==
  <<AppendCall("FinalReviewGateChanged", NoItem, IF m.choice = "approve" THEN "approved" ELSE "changes_requested"),
    GetFor("integrating")>>

decideHunk(m) ==
  LET approval == Derived("approval_hunk", m.item)
  IN  <<Read("hunk"), Read("latest"), AppendCall("ApprovalRequested", approval, NoItem),
        Read("latest"), AppendCall("ApprovalDecided", approval, m.choice), Read("latest"),
        AppendCall("TerminalOutputAppended", NoItem, NoItem)>>

\* registerMobilePush, and updateNotificationSettings with another event of the same kind.
registerMobilePush(m) ==
  <<AppendCall("MobileNotificationChanged", NoItem, m.choice), AppendCall("NotificationRaised", m.item, NoItem)>>

markNotificationRead(m) == <<AppendCall("NotificationRead", m.item, NoItem)>>

\* Not under withIdempotency: a retry would write with a lease that is used.
writeFile(m) ==
  <<Read("latest"), AppendCall("WorkspaceFileWritten", m.item, NoItem), AppendCall("DiffUpdated", m.item, "pending")>>

\* The route's handler.
Calls(m) ==
  CASE m.kind = "createRun"            -> createRun(m)
    [] m.kind = "writeFile"            -> writeFile(m)
    [] m.kind = "enqueueCommand"       -> withIdempotency(enqueueCommand(m))
    [] m.kind = "decideApproval"       -> withIdempotency(decideApproval(m))
    [] m.kind = "controlSupervisor"    -> withIdempotency(controlSupervisor(m))
    [] m.kind = "escalateConflict"     -> withIdempotency(escalateConflict(m))
    [] m.kind = "changeEditorSession"  -> withIdempotency(changeEditorSession(m))
    [] m.kind = "decideFinalReview"    -> withIdempotency(decideFinalReview(m))
    [] m.kind = "decideHunk"           -> withIdempotency(decideHunk(m))
    [] m.kind = "registerMobilePush"   -> withIdempotency(registerMobilePush(m))
    [] m.kind = "markNotificationRead" -> withIdempotency(markNotificationRead(m))

\* The state a supervisor's action asks for, by the state the run was read in.
nextByAction(action, state) ==
  CASE action = "pause"         -> "waiting_for_input"
    [] action = "cancel"        -> "cancelled"
    [] action = "retry"         -> IF state = "failed" THEN "recovering" ELSE "running"
    [] action = "accept_report" -> "verifying"
    [] action \in {"resume", "reject_report"} -> "running"
    [] OTHER                    -> NoItem

\* Moves asked for because the table allows them from the state that was read.
MoveIfListed(run, to) == IF to # NoItem /\ CanTransition(run.state, to) THEN <<Move(to)>> ELSE <<>>

\* The calls a handler makes after getRun answered `run` to a call for `purpose`.
AfterGet(m, purpose, run) ==
  IF run = NoRun \/ purpose = NoItem THEN <<>>
  ELSE IF m.kind = "createRun" THEN MoveIfListed(run, purpose)
  ELSE CASE purpose = "decide"      -> <<Call("decide", "", NoItem, NoItem), GetFor("act")>>
         [] purpose = "act"         -> MoveIfListed(run, nextByAction(m.choice, run.state))
         [] purpose = "integrating" ->
              IF m.choice = "approve" /\ run.state = "ready_for_review"
              THEN <<Move("integrating"), GetFor("complete")>>
              ELSE <<>>
         [] purpose = "complete"    -> <<Call("complete", "", run.supervisorDecisionId, NoItem)>>
         [] OTHER                   -> <<>>

-----------------------------------------------------------------------------
(* One request's step. *)

Asked(q) == requests[q].asks
Running(q, op) == requests[q].status = "running" /\ Head(requests[q].todo).op = op
Next1(q) == Head(requests[q].todo)

\* Mutant: the response is never sent.
GoesOnUnanswered(q, more, latest) ==
  requests' = [requests EXCEPT ![q].todo = more \o Tail(@), ![q].latest = latest]

\* The answer arrives and the handler goes on, first with the calls it now knows it needs;
\* or the answer is lost and the handler throws.
GoesOnWith(q, more, latest) ==
  LET todo == more \o Tail(requests[q].todo)
  IN  \/ requests' = [requests EXCEPT ![q].todo = todo, ![q].latest = latest,
                                      ![q].status = IF todo = <<>> THEN "answered" ELSE "running"]
      \/ requests' = [requests EXCEPT ![q].todo = <<>>, ![q].status = "failed"]
GoesOn(q, more) == GoesOnWith(q, more, requests[q].latest)

Fails(q) == requests' = [requests EXCEPT ![q].todo = <<>>, ![q].status = "failed"]

AboutItem(q, type, r, item, value) ==
  [type |-> type, run |-> r, item |-> item, value |-> value, by |-> q]
Appends(q, type, r, item, value) ==
  journal' = Append(journal, AboutItem(q, type, r, item, value))

Recorded(type, item) == \E i \in DOMAIN journal : journal[i].type = type /\ journal[i].item = item

\* What the projection worker answers: it asks the core for every event, and keeps nothing.
readModels == rebuildPlatformReadModels(journal)

\* The run of the timeline's last entry.
LatestRunId ==
  LET timeline == {i \in DOMAIN journal : journal[i].type \in RunEvent}
  IN  IF timeline = {} THEN NoRun ELSE journal[Max(timeline)].run

\* Events about "the" run name the latest one; the others name the run of the request.
SubjectRun(q) ==
  IF Asked(q).kind \in {"decideApproval", "escalateConflict", "decideHunk", "writeFile"}
  THEN requests[q].latest
  ELSE Asked(q).run

-----------------------------------------------------------------------------
\* The handler of an attempt starts.  late is history: whether a response was stored under its
\* key when the attempt came.
Arrives(q, m) ==
  /\ requests[q].status = "idle"
  /\ requests' = [requests EXCEPT ![q] =
       [asks |-> m, todo |-> Calls(m), latest |-> NoRun, status |-> "running", late |-> responses[KeyOf(q)]]]
  /\ UNCHANGED <<journal, runs, responses>>

Receive(q, m) == q[2] = 1 /\ Arrives(q, m)

\* The same request again, whatever became of the attempt before: failed, answered, still running.
Retry(q) ==
  /\ q[2] > 1
  /\ requests[Previous(q)].status # "idle"
  /\ Arrives(q, Asked(Previous(q)))

\* A call is lost on the way, or refused for a reason the model leaves out.
CallFails(q) ==
  /\ requests[q].status = "running"
  /\ Fails(q)
  /\ UNCHANGED <<journal, runs, responses>>

\* Mutant: a stored response does not stop the handler.
GetIdempotencyIgnored(q) ==
  /\ Running(q, "key")
  /\ GoesOn(q, <<>>)
  /\ UNCHANGED <<journal, runs, responses>>

GetIdempotency(q) ==
  /\ Running(q, "key")
  /\ IF responses[KeyOf(q)]
     THEN requests' = [requests EXCEPT ![q].todo = <<>>, ![q].status = "answered"]
     ELSE GoesOn(q, <<>>)
  /\ UNCHANGED <<journal, runs, responses>>

PutIdempotency(q) ==
  /\ Running(q, "put")
  /\ responses' = [responses EXCEPT ![KeyOf(q)] = TRUE]
  /\ GoesOn(q, <<>>)
  /\ UNCHANGED <<journal, runs>>

ReadLatestRun(q) ==
  /\ Running(q, "latest")
  /\ GoesOnWith(q, <<>>, LatestRunId)
  /\ UNCHANGED <<journal, runs, responses>>

GetRun(q) ==
  /\ Running(q, "get")
  /\ GoesOn(q, IF Asked(q).run = NoRun THEN <<>> ELSE AfterGet(Asked(q), Next1(q).value, runs[Asked(q).run]))
  /\ UNCHANGED <<journal, runs, responses>>

\* decideApproval resumes the latest run, if it was found waiting.
GetLatestRun(q) ==
  LET r == requests[q].latest
  IN  /\ Running(q, "getLatest")
      /\ GoesOn(q, IF /\ r # NoRun /\ Asked(q).choice = "approve"
                      /\ runs[r] # NoRun /\ runs[r].state = "waiting_for_approval"
                   THEN <<Move("running")>>
                   ELSE <<>>)
      /\ UNCHANGED <<journal, runs, responses>>

\* ensureDefaultSeed, and the two appendIfMissing of seedIdentity.
EnsureSeed(q) ==
  /\ Running(q, "seeded")
  /\ IF Recorded("TenantUserWorkspaceSeeded", NoItem)
     THEN GoesOn(q, <<>>)
     ELSE GoesOn(q, <<Call("ifMissing", "TenantUserWorkspaceSeeded", NoItem, NoItem),
                      Call("ifMissing", "WorkspaceCatalogSeeded", NoItem, NoItem),
                      Call("ifMissing", "WorkspaceRuntimeStateChanged", NoItem, "ready")>>)
  /\ UNCHANGED <<journal, runs, responses>>

AppendIfMissing(q) ==
  LET c == Next1(q)
  IN  /\ Running(q, "ifMissing")
      /\ IF Recorded(c.type, c.item) THEN UNCHANGED journal ELSE Appends(q, c.type, NoRun, c.item, c.value)
      /\ GoesOn(q, <<>>)
      /\ UNCHANGED <<runs, responses>>

AppendEvent(q) ==
  LET c == Next1(q)
  IN  /\ Running(q, "append")
      /\ Appends(q, c.type, SubjectRun(q), c.item, c.value)
      /\ GoesOn(q, <<>>)
      /\ UNCHANGED <<runs, responses>>

\* The core answers a creation it has the key of with the stored run.
CreateRun(q) ==
  LET r == Asked(q).run
      mine == \E i \in DOMAIN journal :
                /\ journal[i].type = "RunCreated" /\ journal[i].run = r
                /\ journal[i].by # NoItem /\ KeyOf(journal[i].by) = KeyOf(q)
  IN  /\ Running(q, "create")
      /\ CASE mine                     -> UNCHANGED <<journal, runs>> /\ GoesOn(q, <<>>)
           [] ~mine /\ runs[r] # NoRun -> UNCHANGED <<journal, runs>> /\ Fails(q)
           [] OTHER                    ->
                /\ Appends(q, "RunCreated", r, NoItem, "draft")
                /\ runs' = [runs EXCEPT ![r] = [state |-> "draft", supervisorDecisionId |-> NoItem]]
                /\ GoesOn(q, <<>>)
      /\ UNCHANGED responses

MayMove(r, to) == r # NoRun /\ runs[r] # NoRun /\ CanTransition(runs[r].state, to)

MovesRun(q, r, to) ==
  /\ Appends(q, "RunStateChanged", r, NoItem, to)
  /\ runs' = [runs EXCEPT ![r].state = to]

TransitionRun(q) ==
  LET r  == SubjectRun(q)
      to == Next1(q).value
  IN  /\ Running(q, "move")
      /\ IF MayMove(r, to)
         THEN MovesRun(q, r, to) /\ GoesOn(q, <<>>)
         ELSE UNCHANGED <<journal, runs>> /\ Fails(q)
      /\ UNCHANGED responses

\* Mutant: a contract can be accepted again.
IsNewContract(c) == TRUE

MayStart(c) == ~Recorded("AgentTaskContractAccepted", c)

StartAgentWork(q) ==
  LET c == Next1(q).item
  IN  /\ Running(q, "start")
      /\ IF MayStart(c)
         THEN Appends(q, "AgentTaskContractAccepted", Asked(q).run, c, NoItem) /\ GoesOn(q, <<>>)
         ELSE UNCHANGED journal /\ Fails(q)
      /\ UNCHANGED <<runs, responses>>

\* A control action's decision id is made of the time: new in every attempt.
DecisionId(q) ==
  IF Next1(q).item # NoItem THEN Next1(q).item ELSE <<"decision", q[1], q[2]>>

RecordSupervisorDecision(q) ==
  LET r == Asked(q).run
  IN  /\ Running(q, "decide")
      /\ IF runs[r] # NoRun
         THEN /\ Appends(q, "SupervisorDecisionRecorded", r, DecisionId(q), NoItem)
              /\ runs' = [runs EXCEPT ![r].supervisorDecisionId = DecisionId(q)]
              /\ GoesOn(q, <<>>)
         ELSE UNCHANGED <<journal, runs>> /\ Fails(q)
      /\ UNCHANGED responses

\* Mutant: completion asks for no decision.
MayCompleteAlways(r, d) == runs[r] # NoRun /\ runs[r].state = "integrating"

MayComplete(r, d) ==
  /\ d # NoItem
  /\ Recorded("SupervisorDecisionRecorded", d)
  /\ runs[r] # NoRun
  /\ runs[r].state = "integrating"

CompleteRun(q) ==
  LET r == Asked(q).run
  IN  /\ Running(q, "complete")
      /\ IF MayComplete(r, Next1(q).item)
         THEN MovesRun(q, r, "completed") /\ GoesOn(q, <<>>)
         ELSE UNCHANGED <<journal, runs>> /\ Fails(q)
      /\ UNCHANGED responses

\* controlSupervisor's retry resolves the run's first open recovery, as it was projected.
ReadRecovery(q) ==
  LET queue == rebuildControlRoomProjection(journal).recoveryQueue
      open  == {i \in Items : queue[i] # NoItem /\ queue[i].run = Asked(q).run /\ queue[i].state # "resolved"}
  IN  /\ Running(q, "recovery")
      /\ IF Asked(q).choice = "retry" /\ open # {}
         THEN \E i \in open : GoesOn(q, <<AppendCall("RecoveryUpdated", i, "resolved")>>)
         ELSE GoesOn(q, <<>>)
      /\ UNCHANGED <<journal, runs, responses>>

\* decideHunk rewrites the file's hunks as they were projected, with one of them decided.
ReadHunk(q) ==
  /\ Running(q, "hunk")
  /\ GoesOn(q, <<AppendCall("DiffUpdated", Asked(q).item,
                            IF Asked(q).choice = "approve" THEN "approved" ELSE "changes_requested")>>)
  /\ UNCHANGED <<journal, runs, responses>>

\* Agents report through the core's transition route.
AgentMovesRun(r, to) ==
  /\ MayMove(r, to)
  /\ MovesRun(NoItem, r, to)
  /\ UNCHANGED <<responses, requests>>

-----------------------------------------------------------------------------
Idle == [asks |-> NoItem, todo |-> <<>>, latest |-> NoRun, status |-> "idle", late |-> FALSE]

Init ==
  /\ journal = <<>>
  /\ runs = [r \in Runs |-> NoRun]
  /\ responses = [k \in Keys |-> FALSE]
  /\ requests = [q \in Requests |-> Idle]

Step(q) ==
  \/ CallFails(q) \/ GetIdempotency(q) \/ PutIdempotency(q) \/ ReadLatestRun(q) \/ GetRun(q)
  \/ GetLatestRun(q) \/ EnsureSeed(q) \/ AppendIfMissing(q) \/ AppendEvent(q) \/ CreateRun(q)
  \/ TransitionRun(q) \/ StartAgentWork(q) \/ RecordSupervisorDecision(q) \/ CompleteRun(q)
  \/ ReadRecovery(q) \/ ReadHunk(q)

Next ==
  \/ \E q \in Requests : \E m \in Menu[KeyOf(q)] : Receive(q, m)
  \/ \E q \in Requests : Retry(q)
  \/ \E q \in Requests : Step(q)
  \/ \E r \in Runs : \E to \in AgentMoves[r] : AgentMovesRun(r, to)

Spec == Init /\ [][Next]_vars

-----------------------------------------------------------------------------
(* Properties *)

RequestStatus == {"idle", "running", "answered", "failed"}

\* The variables hold what the handlers put there.
GatewayTypeOK ==
  /\ \A i \in DOMAIN journal : journal[i].run \in Runs \cup {NoRun} /\ journal[i].by \in Requests \cup {NoItem}
  /\ \A r \in Runs : runs[r] # NoRun => runs[r].state \in RunState
  /\ responses \in [Keys -> BOOLEAN]
  /\ \A q \in Requests :
       /\ requests[q].status \in RequestStatus
       /\ requests[q].status = "running" <=> requests[q].todo # <<>>
       /\ requests[q].late => responses[KeyOf(q)]

\* A run is completed only on a decision recorded for that very run before: completeRun would take
\* any recorded decision, and decideFinalReview reads the run again to name its own
\* (server.ts decideFinalReview, core-kernel completeRun).
CompletedByOwnDecision ==
  \A i \in DOMAIN journal : (journal[i].type = "RunStateChanged" /\ journal[i].value = "completed") =>
    \E j \in 1..(i - 1) : journal[j].type = "SupervisorDecisionRecorded" /\ journal[j].run = journal[i].run

\* What clients are shown of a run is its state in the core, although one is folded from events and the
\* other kept beside them; and the worker's roster, which takes out no repetitions, lists the contracts
\* the control room shows, each once (rebuildControlRoomProjection, rebuildPlatformReadModels).
ProjectionsShowCore ==
  LET view   == rebuildControlRoomProjection(journal)
      roster == readModels.agentRoster
  IN  /\ \A r \in Runs : view.runs[r] = IF runs[r] = NoRun THEN NoItem ELSE RunSummary(runs[r].state)
      /\ ToSet(roster) = view.contracts
      /\ Len(roster) = Cardinality(view.contracts)

\* Once a scope approval is decided no user is asked for it again, on the desk or on the phone, however
\* often the creation of its run is sent again: the surface stops at the contract it finds accepted.
ScopeApprovalsStayDecided ==
  [][LET before == rebuildControlRoomProjection(journal).approvalInbox
         after  == rebuildControlRoomProjection(journal')
     IN  \A r \in Runs : before[Derived("approval", r)] \in {"approved", "rejected"} =>
           /\ after.approvalInbox[Derived("approval", r)] # "requested"
           /\ <<"approval", Derived("approval", r)>> \notin buildMobileNextActions(after)]_vars

\* Of the attempts with one key, only those act that came before its response was stored: an
\* attempt that comes later is answered from the store and leaves no event, even when the answer
\* to the storing call was lost.  Attempts that overlap may all act (withIdempotency).
LateAttemptsAreSilent ==
  \A q \in Requests : (requests[q].late /\ Asked(q).kind \in Idempotent) =>
    \A i \in DOMAIN journal : journal[i].by # q
=============================================================================
