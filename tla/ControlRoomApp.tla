--------------------------- MODULE ControlRoomApp ---------------------------
(* The script of the web control room (renderControlRoomAppJs). *)
EXTENDS BrowserPage

controlRoomLoad(p, a) ==
  connectStream(FirstRun([p EXCEPT !.projection = a.projection, !.role = a.projection.role,
                                   !.workspace = @ \/ a.projection.seeded]))

\* A load, a run, or a command was answered.
controlRoomAnswered(p, c, a) ==
  CASE c.op = "load"      -> controlRoomLoad(p, a)
    [] c.op = "createRun" -> [p EXCEPT !.projection = a.projection, !.run = a.run]
    [] c.op = "command"   -> [p EXCEPT !.projection = a.projection]
    [] OTHER              -> p

\* Events that come together are drawn once.
controlRoomEvent(p) == [p EXCEPT !.redraw = TRUE]

\* Only what is shown says that the stream is gone: nothing is locked.
controlRoomOnerror(p) == GivesUp(p)

\* The forms and the buttons render() puts on the page: those of approvals, agents, the editor and
\* the final review are there once there is a projection.
controlRoomOffers(p) ==
  {"seed", "role", "run"} \cup (IF p.projection # NoProjection THEN {"command"} ELSE {})

controlRoomClick(p, offer) ==
  CASE offer = "seed"    -> Does(p, <<seed, load>>)
    [] offer = "role"    -> Does([p EXCEPT !.role = IF @ = "operator" THEN "user" ELSE "operator"], <<load>>)
    [] offer = "run"     -> Does(p, IF p.projection # NoProjection /\ p.projection.seeded
                                    THEN <<newRun>> ELSE <<seed, load, newRun>>)
    [] offer = "command" -> Does(p, <<command>>)
=============================================================================
