---------------------------- MODULE MobileReview ----------------------------
(* The script of the mobile page (renderMobileCommandReviewAppJs). *)
EXTENDS BrowserPage

mobileLoad(p, a) == connectStream(FirstRun([p EXCEPT !.projection = a.projection]))

\* Each action shows the answer and then loads; createRun's answer gives the run only.
mobileAnswered(p, c, a) ==
  CASE c.op = "load"      -> mobileLoad(p, a)
    [] c.op = "createRun" -> [p EXCEPT !.run = a.run]
    [] c.op = "command"   -> [p EXCEPT !.projection = a.projection]
    [] OTHER              -> p

mobileEvent(p) == [p EXCEPT !.connection = "connected"]

\* Mutant: the page is not locked.
mobileOnerrorUnlocked(p) == GivesUp(p)

mobileOnerror(p) == [GivesUp(p) EXCEPT !.connection = "reconnecting"]

\* connectionState knows no "offline" here: the page is unlocked again.
mobileReportError(p) == [p EXCEPT !.connection = "offline"]

\* Commands are about the run in the select, or the one the page made; a new one is made if there is none.
mobileEnsureRun(p) ==
  IF p.run # 0 \/ (p.projection # NoProjection /\ p.projection.runs > 0)
  THEN <<>>
  ELSE <<seed, newRun, load>>

\* What render() puts on the page; setActionDisabled enables all of it or nothing. Approvals that need
\* no confirmation, and other actions without one, are "decide"; destructive ones are asked for like cancelRun.
mobileOffers(p) ==
  {"quickCommand", "push"}
    \cup (IF p.projection # NoProjection THEN {"decide", "settings", "finalReview"} ELSE {})
    \cup (IF p.projection # NoProjection /\ p.projection.runs > 0 THEN {"cancelRun"} ELSE {})
    \cup (IF p.confirm # 0 THEN {"confirm", "dismiss"} ELSE {})

\* Not locked while the page is not connected.
Unlocked == {"push", "settings", "dismiss"}

openConfirm(p, n) == [p EXCEPT !.confirm = n]
closeConfirm(p) == [p EXCEPT !.confirm = 0]

\* Mutant: the sheet stays until its action is done.
confirmOpen(p) == Does(p, <<[command EXCEPT !.confirm = p.confirm], load>>)

confirmApply(p) == Does(closeConfirm(p), <<[command EXCEPT !.confirm = p.confirm], load>>)

\* The nth click of the behaviour; a confirmation is known by the click that asked for it.
mobileClick(p, offer, n) ==
  CASE offer \in {"decide", "push", "settings"}       -> Does(p, <<command, load>>)
    [] offer \in {"quickCommand", "finalReview"}      -> Does(p, mobileEnsureRun(p) \o <<command, load>>)
    [] offer = "cancelRun"                            -> Does(openConfirm(p, n), <<>>)
    [] offer = "confirm"                              -> confirmApply(p)
    [] offer = "dismiss"                              -> Does(closeConfirm(p), <<>>)
=============================================================================
