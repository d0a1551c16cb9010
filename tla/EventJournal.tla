---------------------------- MODULE EventJournal ----------------------------
(***************************************************************************)
(* The append-only journal of packages/core-events as a sequence of        *)
(* events.  An event belongs to an aggregate and carries that aggregate's  *)
(* version: append refuses a writer whose expected version is not the      *)
(* current one and stamps the new event with the next.  The event id       *)
(* (evt_N) is abstracted to the event's position in the journal.           *)
(***************************************************************************)
EXTENDS Naturals, Sequences

\* readAggregate, as the positions of the aggregate's events.
Positions(journal, aggregate) ==
  {i \in DOMAIN journal : journal[i].aggregateId = aggregate}

LastPosition(journal, aggregate) ==
  CHOOSE i \in Positions(journal, aggregate) :
    \A j \in Positions(journal, aggregate) : j <= i

\* Mutant: the last event of the whole journal is taken.
LastVersionOfAny(journal, aggregate) ==
  IF journal = <<>> THEN 0 ELSE journal[Len(journal)].aggregateVersion

\* readAggregate(a).at(-1)?.aggregateVersion ?? 0
CurrentVersion(journal, aggregate) ==
  IF Positions(journal, aggregate) = {}
  THEN 0
  ELSE journal[LastPosition(journal, aggregate)].aggregateVersion

Event(aggregate, version, type, payload) ==
  [aggregateId |-> aggregate, aggregateVersion |-> version, type |-> type, payload |-> payload]

\* Mutant: only a writer that expects too much is refused.
CanAppendAtOrAfter(journal, aggregate, expected) == CurrentVersion(journal, aggregate) >= expected

CanAppend(journal, aggregate, expected) == CurrentVersion(journal, aggregate) = expected

\* The journal after a successful append.
Appended(journal, aggregate, type, payload) ==
  Append(journal, Event(aggregate, CurrentVersion(journal, aggregate) + 1, type, payload))

-----------------------------------------------------------------------------
(* What a journal written only through append looks like. *)

\* The versions of one aggregate are 1, 2, 3, ... in journal order.
Contiguous(journal) ==
  \A i \in DOMAIN journal :
    /\ \A j \in DOMAIN journal :
         (i < j /\ journal[i].aggregateId = journal[j].aggregateId)
           => journal[i].aggregateVersion < journal[j].aggregateVersion
    /\ \/ journal[i].aggregateVersion = 1
       \/ \E h \in 1..(i - 1) :
            /\ journal[h].aggregateId = journal[i].aggregateId
            /\ journal[h].aggregateVersion + 1 = journal[i].aggregateVersion
=============================================================================
