----------------------------- MODULE BrowserApps -----------------------------
(***************************************************************************)
(* One open page of apps/web, its user, and the gateway as the page meets  *)
(* it.  Functions overlap: while one awaits an answer, the stream, timers  *)
(* and further clicks start others, and answers may arrive in any order.   *)
(* A call takes effect at the gateway in one step here; GatewayCommands    *)
(* opens it up.                                                            *)
(***************************************************************************)
EXTENDS ControlRoomApp, MobileReview, Workbench

CONSTANTS
  Apps,         \* the pages looked at
  NoAnswer,
  MaxTasks,     \* bound: functions of the page awaiting at once
  MaxIncidents  \* bound: clicks, keys, failures, broken streams, leases that expire and commands
                \* of others, taken together

ASSUME AppsAreKnown == Apps \subseteq {"control_room", "mobile", "workbench"}
ASSUME NothingIsNoAnswer == NoAnswer \notin [projection : Projections, run : Nat, lease : Nat, text : Texts]

VARIABLES
  app,    \* the page
  page,   \* its state
  tasks,  \* its functions under way: the calls left, and the first one's answer if it is there
  core,   \* what the gateway answers from
  spent   \* incidents so far, by kind

appVars == <<app, page, tasks, core, spent>>

-----------------------------------------------------------------------------
(* The gateway, with the runtime's file leases. *)

Projection(k) == [offset |-> k.events, seeded |-> k.seeded, runs |-> k.runs, role |-> "user"]

\* A command appends, among others; a creation seeds what is not seeded.
Effect(k, c) ==
  CASE c.op = "seed" /\ ~k.seeded -> [k EXCEPT !.seeded = TRUE, !.events = @ + 1]
    [] c.op = "createRun"         -> [k EXCEPT !.seeded = TRUE, !.runs = @ + 1, !.events = @ + 1]
    [] c.op = "command"           -> [k EXCEPT !.events = @ + 1,
                                               !.applied = IF c.confirm = 0 THEN @ ELSE Append(@, c.confirm)]
    [] c.op = "readFile"          -> [k EXCEPT !.leases = Append(@, [file |-> c.file, state |-> "live"])]
    [] c.op = "writeFile"         -> [k EXCEPT !.leases[c.lease].state = "used", !.disk[c.file] = c.text,
                                               !.events = @ + 1]
    [] OTHER                      -> k

Refuses(k, c) ==
  c.op = "writeFile" /\ k.leases[c.lease] # [file |-> c.file, state |-> "live"]

AnswerTo(k, c) ==
  [projection |-> [Projection(k) EXCEPT !.role = c.role], run |-> k.runs, lease |-> Len(k.leases),
   text |-> IF c.op = "readFile" THEN k.disk[c.file] ELSE NoText]

-----------------------------------------------------------------------------
(* The page's scheduler. *)

Task(p, calls, boots) == [todo |-> Sent(p, calls), answer |-> NoAnswer, boots |-> boots]

\* A function is called; it runs to its first await.
Starts(d) ==
  /\ page' = d.page
  /\ tasks' = IF d.calls = <<>> THEN tasks ELSE Append(tasks, Task(d.page, d.calls, FALSE))

HasRoom == Len(tasks) < MaxTasks

Throws(i) ==
  /\ tasks' = RemoveAt(tasks, i)
  /\ page' = IF app = "mobile" THEN mobileReportError(page) ELSE page

Kinds == {"clicks", "edits", "failures", "breaks", "expiries", "others"}

Incidents == FoldSet(LAMBDA k, n : spent[k] + n, 0, Kinds)

Happens(kind) ==
  /\ Incidents < MaxIncidents
  /\ spent' = [spent EXCEPT ![kind] = @ + 1]

InFlight(i) == tasks[i].answer = NoAnswer

GatewayAnswers(i) ==
  LET c == Head(tasks[i].todo)
  IN  /\ InFlight(i)
      /\ ~Refuses(core, c)
      /\ core' = Effect(core, c)
      /\ tasks' = [tasks EXCEPT ![i].answer = AnswerTo(core', c)]
      /\ UNCHANGED <<app, page, spent>>

GatewayRefuses(i) ==
  /\ InFlight(i)
  /\ Refuses(core, Head(tasks[i].todo))
  /\ Throws(i)
  /\ UNCHANGED <<app, core, spent>>

\* A call or its answer is lost.
CallIsLost(i) ==
  LET c == Head(tasks[i].todo)
  IN  /\ InFlight(i)
      /\ Happens("failures")
      /\ core' \in {core} \cup (IF Refuses(core, c) THEN {} ELSE {Effect(core, c)})
      /\ Throws(i)
      /\ UNCHANGED app

Answered(p, c, a) ==
  CASE app = "control_room" -> controlRoomAnswered(p, c, a)
    [] app = "mobile"       -> mobileAnswered(p, c, a)
    [] app = "workbench"    -> workbenchAnswered(p, c, a)

Then(p, c) == IF app = "workbench" THEN workbenchThen(p, c) ELSE {Does(p, <<>>)}

\* boot() ends: the workbench begins to listen to its user.
Ends(i, p) ==
  /\ tasks' = RemoveAt(tasks, i)
  /\ page' = IF tasks[i].boots THEN [p EXCEPT !.bound = TRUE] ELSE p

Resumes(i) ==
  LET t == tasks[i]
      c == Head(t.todo)
  IN  /\ ~InFlight(i)
      /\ \E d \in Then(Answered(page, c, t.answer), c) :
           LET todo == d.calls \o Tail(t.todo)
           IN  IF todo = <<>>
               THEN Ends(i, d.page)
               ELSE /\ tasks' = [tasks EXCEPT ![i].todo = Sent(d.page, todo), ![i].answer = NoAnswer]
                    /\ page' = d.page
      /\ UNCHANGED <<app, core, spent>>

-----------------------------------------------------------------------------
(* The stream and the timers. *)

\* The gateway writes the events after the offset as it finds them, and only heartbeats from then on.
StreamOpens ==
  /\ page.stream = "connecting"
  /\ page' = [page EXCEPT !.stream = "open", !.frames = core.events - page.after]
  /\ UNCHANGED <<app, tasks, core, spent>>

FrameArrives ==
  LET p == [page EXCEPT !.frames = @ - 1]
  IN  /\ page.stream = "open" /\ page.frames > 0
      /\ IF app = "control_room"
         THEN Starts(Does(controlRoomEvent(p), <<>>))
         ELSE HasRoom /\ Starts(Does(IF app = "mobile" THEN mobileEvent(p) ELSE workbenchEvent(p), <<load>>))
      /\ UNCHANGED <<app, core, spent>>

StreamBreaks ==
  /\ page.stream \in {"connecting", "open"}
  /\ Happens("breaks")
  /\ page' = CASE app = "control_room" -> controlRoomOnerror(page)
               [] app = "mobile"       -> mobileOnerror(page)
               [] app = "workbench"    -> workbenchOnerror(page)
  /\ UNCHANGED <<app, tasks, core>>

ReloadFires ==
  /\ page.reloads > 0 /\ HasRoom
  /\ Starts(Does([page EXCEPT !.reloads = @ - 1], <<load>>))
  /\ UNCHANGED <<app, core, spent>>

RedrawFires ==
  /\ page.redraw /\ HasRoom
  /\ Starts(Does([page EXCEPT !.redraw = FALSE], <<load>>))
  /\ UNCHANGED <<app, core, spent>>

-----------------------------------------------------------------------------
(* The user, the network and the others. *)

UsersTurn ==
  /\ page.bound /\ HasRoom
  /\ Happens("clicks")
  /\ UNCHANGED <<app, core>>

ClicksControlRoom ==
  /\ app = "control_room" /\ UsersTurn
  /\ \E offer \in controlRoomOffers(page) : Starts(controlRoomClick(page, offer))

ClicksMobile ==
  /\ app = "mobile" /\ UsersTurn
  /\ \E offer \in mobileOffers(page) :
       /\ offer \in Unlocked \/ canExecute(page)
       /\ Starts(mobileClick(page, offer, spent'.clicks))

\* A lease that has expired keeps the page from saving: saveFile throws before it asks.
ClicksWorkbench ==
  /\ app = "workbench" /\ UsersTurn
  /\ \/ \E offer \in workbenchOffers(page) :
          /\ offer = "save" => core.leases[page.lease].state # "expired"
          /\ Starts(workbenchClick(page, offer))
     \/ \E f \in Files : Starts(openFile(page, f))

UserTypes ==
  /\ app = "workbench"
  /\ Happens("edits")
  /\ page' = Types(page, spent'.edits)
  /\ UNCHANGED <<app, tasks, core>>

\* The control room does not listen to these.
GoesOffline ==
  /\ app # "control_room" /\ page.online /\ UsersTurn
  /\ page' = [page EXCEPT !.online = FALSE]
  /\ UNCHANGED tasks

GoesOnline ==
  /\ app # "control_room" /\ page.bound /\ ~page.online /\ HasRoom
  /\ Starts(Does([page EXCEPT !.online = TRUE], <<load>>))
  /\ UNCHANGED <<app, core, spent>>

OthersWrite ==
  /\ Happens("others")
  /\ core' = [core EXCEPT !.events = @ + 1]
  /\ UNCHANGED <<app, page, tasks>>

LeaseExpires ==
  /\ \E l \in DOMAIN core.leases :
       /\ core.leases[l].state = "live"
       /\ core' = [core EXCEPT !.leases[l].state = "expired"]
  /\ Happens("expiries")
  /\ UNCHANGED <<app, page, tasks>>

-----------------------------------------------------------------------------
Empty == [events |-> 0, seeded |-> FALSE, runs |-> 0, applied |-> <<>>, leases |-> <<>>,
          disk |-> [f \in Files |-> <<f, 0>>]]

\* The script is loaded: its first load() is under way.
AppsInit ==
  /\ app \in Apps
  /\ page = [NewPage EXCEPT !.bound = app # "workbench"]
  /\ tasks = <<Task(page, <<load>>, TRUE)>>
  /\ core \in {Empty, [Empty EXCEPT !.seeded = TRUE, !.runs = 1, !.events = 1]}
  /\ spent = [k \in Kinds |-> 0]

\* What the browser and the gateway do by themselves.
Works ==
  \/ \E i \in DOMAIN tasks : GatewayAnswers(i) \/ GatewayRefuses(i) \/ Resumes(i)
  \/ StreamOpens \/ FrameArrives \/ ReloadFires \/ RedrawFires

AppsNext ==
  \/ Works
  \/ \E i \in DOMAIN tasks : CallIsLost(i)
  \/ StreamBreaks
  \/ ClicksControlRoom \/ ClicksMobile \/ ClicksWorkbench \/ UserTypes
  \/ GoesOffline \/ GoesOnline \/ OthersWrite \/ LeaseExpires

AppsSpec == AppsInit /\ [][AppsNext]_appVars /\ WF_appVars(Works)

-----------------------------------------------------------------------------
(* Properties *)

\* A page whose first load is over and that lets its user command holds a stream, opened or opening,
\* whatever broke before: the workbench always, the phone until a call of its fails (onerror,
\* connectionState, reportError).  A page that has given its stream up is locked until it has another.  Nothing
\* is said of what arrives on the stream: events appended after it was opened do not (StreamOpens).
LockedWithoutStream ==
  \/ app = "control_room"
  \/ app = "mobile" /\ spent.failures > 0
  \/ ~page.bound \/ \E i \in DOMAIN tasks : tasks[i].boots
  \/ canExecute(page) => page.stream # "none"

\* As long as no call fails, a page whose stream broke, or is not there yet, opens one: onerror lets the
\* next load find none, and some load always comes (onerror, connectStream).
StreamComesBack ==
  (page.stream \notin {"connecting", "open"} /\ spent.failures = 0)
    ~> (page.stream \in {"connecting", "open"} \/ spent.failures > 0)

\* A dangerous action is carried out once for each time its user confirmed it, however often the sheet's
\* button is pressed while the first press is under way (handleClick, closeConfirm).
ConfirmedOnce == IsInjective(core.applied)

\* What the workbench saves goes to the file its lease was given for, with another file being opened
\* and answers overtaking each other (openFile, saveFile).
WritesFitTheirLease ==
  \A i \in DOMAIN tasks : Head(tasks[i].todo).op = "writeFile" =>
    core.leases[Head(tasks[i].todo).lease].file = Head(tasks[i].todo).file
=============================================================================
