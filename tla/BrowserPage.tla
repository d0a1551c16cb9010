----------------------------- MODULE BrowserPage -----------------------------
(***************************************************************************)
(* What the three pages of packages/ui have in common.  A page is its      *)
(* script's `state` object, with the EventSource it holds; a function it   *)
(* runs is the sequence of calls to the gateway it awaits.  The steps here *)
(* are pure: what a page becomes.  The scripts' own steps are in           *)
(* ControlRoomApp, MobileReview and Workbench, and BrowserApps runs them.  *)
(***************************************************************************)
EXTENDS Naturals, Sequences, SequencesExt

CONSTANTS
  Files,        \* paths of the files a user may open
  Preferred,    \* the one the workbench opens by itself
  NoFile,
  NoProjection  \* state.projection before the first load

Roles == {"user", "operator"}

\* What a page keeps of the projection it was answered.
Projections == [offset : Nat, seeded : BOOLEAN, runs : Nat, role : Roles]

ASSUME PageAssumption == Preferred \in Files /\ NoFile \notin Files /\ NoProjection \notin Projections

\* A text is known by the file it was typed in or read from, and a number.
Texts  == (Files \cup {NoFile}) \X Nat
NoText == <<NoFile, 0>>

\* Runs are numbered as they were created; leases as they were given; 0 is none.
NewPage ==
  [projection |-> NoProjection, role |-> "user", workspace |-> FALSE, run |-> 0,
   online |-> TRUE, connection |-> "connected",
   stream  |-> "none",  \* state.stream: none, connecting, open
   after   |-> 0,       \* the offset it was opened with
   frames  |-> 0,       \* events sent on it that have not been handled
   reloads |-> 0,       \* timers set by onerror
   redraw  |-> FALSE,   \* the control room's reconnectTimer
   confirm |-> 0,       \* pendingConfirm: the number of the confirmation shown
   file |-> NoFile, lease |-> 0, original |-> NoText, doc |-> NoText, dirty |-> FALSE,
   bound |-> TRUE]      \* the script listens to its user

-----------------------------------------------------------------------------
(* The client's calls, and what a click comes to. *)

Fetch(op) ==
  [op |-> op, role |-> "user", confirm |-> 0, file |-> NoFile, text |-> NoText, lease |-> 0]

load      == Fetch("load")
seed      == Fetch("seed")
newRun    == Fetch("createRun")
command   == Fetch("command")  \* one of the client's other POSTs: it answers a projection
readFile(f) == [Fetch("readFile") EXCEPT !.file = f]

Does(p, calls) == [page |-> p, calls |-> calls]

\* load() takes its role from the page when it is called.
Sent(p, todo) ==
  IF todo # <<>> /\ Head(todo).op = "load" THEN [todo EXCEPT ![1].role = p.role] ELSE todo

-----------------------------------------------------------------------------
(* Steps the scripts share. *)

\* state.run = state.run || projection.runs[0]
FirstRun(p) == IF p.run = 0 /\ p.projection.runs > 0 THEN [p EXCEPT !.run = 1] ELSE p

connectStream(p) ==
  IF p.projection = NoProjection \/ p.stream # "none"
  THEN p
  ELSE [p EXCEPT !.stream = "connecting", !.after = p.projection.offset]

\* Mutant: the closed stream is kept, so that no load opens another.
GivesUpKeeping(p) == [p EXCEPT !.stream = "closed", !.frames = 0, !.reloads = @ + 1]

\* The stream is given up, and the page loaded again 1200 ms later.
GivesUp(p) == [p EXCEPT !.stream = "none", !.frames = 0, !.reloads = @ + 1]

connectionState(p) ==
  CASE ~p.online                       -> "offline"
    [] p.online /\ p.connection = "reconnecting" -> "reconnecting"
    [] OTHER                           -> "connected"

canExecute(p) == connectionState(p) = "connected"
=============================================================================
