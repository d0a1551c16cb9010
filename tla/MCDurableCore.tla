--------------------------- MODULE MCDurableCore ---------------------------
(***************************************************************************)
(* Small instances of the durable service for TLC.                         *)
(***************************************************************************)
EXTENDS DurableCore, MCCoreControlPlane

EmptyJournal == <<>>
NoRecords == [k \in Keys |-> NoRecord]

\* The run states clients ask for where short histories are enough.
FirstStates == {"queued", "cancelled"}
LateAndCompleted == LateStates \cup {"completed"}
=============================================================================
