------------------------- MODULE MCCoreControlPlane -------------------------
(***************************************************************************)
(* Small instances of the kernel for TLC: one from the empty journal and   *)
(* one from a run that is about to complete.                               *)
(***************************************************************************)
EXTENDS CoreControlPlane, Integers

\* The first states of a run and its two ends, for instances with several runs.
EarlyStates == {"queued", "planning", "cancelled", "completed"}

\* The states around the end of a run, without completed.
LateStates == {"failed", "running", "recovering", "cancelled"}

MCStates == EarlyStates \cup LateStates

\* Bound: events of the behaviours that begin with an empty journal.
EarlyEvents == 6

\* Run ids and keys are interchangeable.
MCSymmetry == Permutations(Runs) \cup Permutations(CommandKeys)

-----------------------------------------------------------------------------
(* A run that was created and walked the whole path to integrating.        *)

WorkPath ==
  <<"draft", "queued", "planning", "planned", "assigning", "preparing_workspace",
    "binding_app_server", "running", "verifying", "ready_for_review", "integrating">>

\* The journal its commands wrote: each change with its audit event.
IntegratingJournal ==
  LET r == CHOOSE r \in Runs : TRUE
      Step(n) == [from |-> WorkPath[n], to |-> WorkPath[n + 1]]
  IN  <<Event(r, 1, "RunCreated", NewRun)>> \o
      [i \in 1..(2 * (Len(WorkPath) - 1)) |->
         LET n == (i + 1) \div 2
         IN  IF i % 2 = 1
             THEN Event(r, n + 1, "RunStateChanged", Step(n))
             ELSE Event(AuditId(r, n + 1), 1, "StateTransitionAudited", Step(n))]

\* The record its creation left.
CreationRecord ==
  LET r == CHOOSE r \in Runs : TRUE
      first == CHOOSE k \in CommandKeys : TRUE
  IN  [k \in Keys |-> IF k = first
                      THEN [commandName |-> "createRun", result |-> Done(r, 1)]
                      ELSE NoRecord]

\* The kernel as it stands after those commands.
LateInit ==
  LET image == Replay(IntegratingJournal)
  IN  /\ events = IntegratingJournal
      /\ runs = image.runs
      /\ supervisorDecisions = image.supervisorDecisions
      /\ identitySeeds = image.identitySeeds
      /\ idempotency = CreationRecord
      /\ reply = Nothing

\* From either beginning: a few commands on an empty journal, or a few around the end of a run.
CommandsInit == Init \/ LateInit

CommandsNext ==
  /\ Next
  /\ Len(events) < Len(IntegratingJournal) => Len(events') <= EarlyEvents

CommandsSpec == CommandsInit /\ [][CommandsNext]_vars
=============================================================================
