------------------------------ MODULE Workbench ------------------------------
(* The script of the tablet workbench (renderTabletWorkbenchAppJs). *)
EXTENDS BrowserPage

workbenchLoad(p, a) ==
  connectStream(FirstRun([p EXCEPT !.projection = a.projection, !.workspace = @ \/ a.projection.seeded]))

\* Mutant: the page names the file as soon as it asks for it.
openFileNamed(p, f) == Does([p EXCEPT !.file = f], <<readFile(f)>>)

\* openFile before its await: a user with unsaved changes may refuse to lose them.
openFile(p, f) == Does(p, <<readFile(f)>>)

mayOpen(p) == IF p.dirty THEN BOOLEAN ELSE {TRUE}

\* ... and after it.
fileOpened(p, c, a) ==
  [p EXCEPT !.file = c.file, !.lease = a.lease, !.original = a.text, !.doc = a.text, !.dirty = FALSE]

\* saveFile's write was answered: what was sent is now the original, whatever the editor shows by now.
fileSaved(p, c, a) == [p EXCEPT !.projection = a.projection, !.original = c.text, !.dirty = FALSE]

workbenchAnswered(p, c, a) ==
  CASE c.op = "load"      -> workbenchLoad(p, a)
    [] c.op = "createRun" -> [p EXCEPT !.projection = a.projection, !.run = a.run]
    [] c.op = "command"   -> [p EXCEPT !.projection = a.projection]
    [] c.op = "readFile"  -> fileOpened(p, c, a)
    [] c.op = "writeFile" -> fileSaved(p, c, a)
    [] OTHER              -> p

\* load() opens a file when none is open; what a function does next, and with which page.
workbenchThen(p, c) ==
  IF c.op = "load" /\ p.file = NoFile
  THEN {IF opens THEN openFile(p, Preferred) ELSE Does(p, <<>>) : opens \in mayOpen(p)}
  ELSE {Does(p, <<>>)}

workbenchEvent(p) == [p EXCEPT !.connection = "connected"]

workbenchOnerror(p) == [GivesUp(p) EXCEPT !.connection = "reconnecting"]

\* A key is pressed in the editor.
Types(p, n) == [p EXCEPT !.doc = <<p.file, n>>, !.dirty = <<p.file, n>> # p.original]

revertFile(p) == Does([p EXCEPT !.doc = p.original, !.dirty = FALSE], <<>>)

saveFile(p) ==
  Does(p, <<[Fetch("writeFile") EXCEPT !.file = p.file, !.text = p.doc, !.lease = p.lease]>>)

workbenchEnsureRun(p) ==
  CASE p.run # 0                 -> <<>>
    [] p.run = 0 /\ p.workspace  -> <<newRun>>
    [] p.run = 0 /\ ~p.workspace -> <<seed, load, newRun>>

\* The buttons render() puts on the page, as renderGuard and the handlers leave them; those of the IDE and
\* of the seed are never locked.
workbenchOffers(p) ==
  {"seed"} \cup (IF p.projection # NoProjection THEN {"ide"} ELSE {})
           \cup (IF p.file # NoFile /\ p.dirty THEN {"revert"} ELSE {})
           \cup (IF canExecute(p) THEN {"run", "decideHunk"} ELSE {})
           \cup (IF canExecute(p) /\ p.file # NoFile /\ p.lease # 0 THEN {"save"} ELSE {})

workbenchClick(p, offer) ==
  CASE offer = "seed"                   -> Does(p, <<seed, load>>)
    [] offer \in {"ide", "decideHunk"}  -> Does(p, <<command>>)
    [] offer = "run"                    -> Does(p, workbenchEnsureRun(p) \o <<command>>)
    [] offer = "revert"                 -> revertFile(p)
    [] offer = "save"                   -> saveFile(p)
=============================================================================
