------------------------ MODULE KernelHistoryProofs ------------------------
(***************************************************************************)
(* Theorems about the story the kernel's journal tells: nothing is taken   *)
(* back, transitions are audited, what must happen once happens once, a    *)
(* created run can be asked for again, and replaying the journal gives     *)
(* back the state it was written from.                                     *)
(***************************************************************************)
EXTENDS CoreControlPlaneProofs

-----------------------------------------------------------------------------
(* The seven ways a step can look to the journal and the run records. *)

Silent == UNCHANGED <<events, runs>>

Seeds(t, w) == events' = Appended(events, t, "TenantUserWorkspaceSeeded", w) /\ runs' = runs

Creates(r) ==
  /\ CanCreateRun(r)
  /\ events' = Appended(events, r, "RunCreated", NewRun)
  /\ runs' = [runs EXCEPT ![r] = NewRun]

Change(r, to) == [from |-> runs[r].state, to |-> to]

Moves(r, to) ==
  /\ runs[r] \in RunRecord
  /\ CanTransition(runs[r].state, to)
  /\ CurrentVersion(events, r) = runs[r].version
  /\ Appended(events, r, "RunStateChanged", Change(r, to)) \in Seq(DomainEvent)
  /\ CurrentVersion(Appended(events, r, "RunStateChanged", Change(r, to)), AuditId(r, runs[r].version + 1)) = 0
  /\ events' = Appended(Appended(events, r, "RunStateChanged", Change(r, to)),
                        AuditId(r, runs[r].version + 1), "StateTransitionAudited", Change(r, to))
  /\ runs' = [runs EXCEPT ![r] = Moved(runs[r], to, runs[r].version + 1)]

Decides(r, d) ==
  /\ runs[r] \in RunRecord
  /\ events' = Appended(events, r, "SupervisorDecisionRecorded", d)
  /\ runs' = [runs EXCEPT ![r] = Decided(@, d, @.version + 1)]

Accepts(c) ==
  /\ CanAppend(events, c, 0)
  /\ events' = Appended(events, c, "AgentTaskContractAccepted", c)
  /\ runs' = runs

Grows(s, type) ==
  /\ type = "StreamSeeded" => \A i \in Positions(events, s) : events[i].type # "StreamSeeded"
  /\ events' = Appended(events, s, type, s)
  /\ runs' = runs

\* A transition either throws or moves the run and audits the move.
LEMMA TransitionShape ==
  ASSUME JournalInv, NEW r \in Runs, NEW to \in RunState, TransitionRun(r, to)
  PROVE  Silent \/ Moves(r, to)
<1>1. CASE Throws  BY <1>1 DEF Throws, core, Silent
<1>2. CASE ~Throws
  BY <1>2, TransitionIsAudited DEF Moves, Change
<1> QED  BY <1>1, <1>2

LEMMA StepShape ==
  ASSUME JournalInv, [Next]_vars
  PROVE  \/ Silent
         \/ \E t \in Tenants, w \in Workspaces : Seeds(t, w)
         \/ \E r \in Runs : Creates(r)
         \/ \E r \in Runs, to \in RunState : Moves(r, to)
         \/ \E r \in Runs, d \in Decisions : Decides(r, d)
         \/ \E c \in Contracts : Accepts(c)
         \/ \E s \in Streams, type \in {"StreamSeeded", "StreamUpdated"} : Grows(s, type)
<1>1. CASE UNCHANGED vars  BY <1>1 DEF vars, Silent
<1>2. CASE \E k \in CommandKeys, t \in Tenants, w \in Workspaces, m \in BOOLEAN : SeedIdentity(k, t, w, m)
  BY <1>2 DEF SeedIdentity, RepliesFromCache, Throws, core, Silent, Seeds
<1>3. CASE \E k \in CommandKeys, r \in Runs : CreateRun(k, r)
  BY <1>3 DEF CreateRun, RepliesFromCache, Throws, core, Silent, Creates
<1>4. CASE \E r \in Runs, to \in RequestedStates : TransitionRun(r, to)
  BY <1>4, TransitionShape, RequestedAreStates
<1>5. CASE \E d \in Decisions, r \in Runs, c \in BOOLEAN, f \in BOOLEAN : RecordSupervisorDecision(d, r, c, f)
  <2>1. PICK d \in Decisions, r \in Runs, c \in BOOLEAN, f \in BOOLEAN : RecordSupervisorDecision(d, r, c, f)
    BY <1>5
  <2>2. CASE Throws  BY <2>2 DEF Throws, core, Silent
  <2>3. CASE UNCHANGED <<events, runs>>  BY <2>3 DEF Silent
  <2>4. CASE /\ CanJournalDecision(r, f)
             /\ events' = Appended(events, r, "SupervisorDecisionRecorded", d)
             /\ runs' = [runs EXCEPT ![r] = Decided(@, d, @.version + 1)]
    <3>1. runs[r] \in RunRecord  BY <2>4 DEF CanJournalDecision, JournalInv, TypeOK
    <3>2. Decides(r, d)  BY <2>4, <3>1 DEF Decides
    <3> QED  BY <3>2
  <2> QED  BY <2>1, <2>2, <2>3, <2>4 DEF RecordSupervisorDecision
<1>6. CASE \E r \in Runs, d \in Decisions \cup {NoDecision} : CompleteRun(r, d)
  <2>1. "completed" \in RunState  BY DEF RunState
  <2> QED  BY <1>6, <2>1, TransitionShape DEF CompleteRun, Throws, core, Silent
<1>7. CASE \E c \in Contracts, v \in BOOLEAN : StartAgentWork(c, v)
  BY <1>7 DEF StartAgentWork, Throws, core, Silent, Accepts
<1>8. CASE \E s \in Streams, e \in {NoVersion, 0}, f \in BOOLEAN : AppendEvent(s, e, f)
  BY <1>8 DEF AppendEvent, AppendStream, Throws, core, Silent, Grows
<1>9. CASE \E s \in Streams : AppendIfMissing(s)
  BY <1>9 DEF AppendIfMissing, AppendStream, core, Silent, Grows
<1>10. CASE \E k \in ResponseKeys : PutIdempotency(k)
  BY <1>10 DEF PutIdempotency, Silent
<1> QED  BY <1>1, <1>2, <1>3, <1>4, <1>5, <1>6, <1>7, <1>8, <1>9, <1>10 DEF Next

-----------------------------------------------------------------------------
(* What one append does to the journal. *)

LEMMA OneLonger ==
  ASSUME NEW journal \in Seq(DomainEvent), NEW a, NEW type, NEW payload
  PROVE  LET longer == Appended(journal, a, type, payload)
             last   == Len(journal) + 1
         IN  /\ Len(journal) \in Nat
             /\ DOMAIN journal = 1..Len(journal)
             /\ Len(longer) = last
             /\ DOMAIN longer = 1..last
             /\ \A i \in DOMAIN journal : longer[i] = journal[i]
             /\ longer[last].aggregateId = a
             /\ longer[last].aggregateVersion = CurrentVersion(journal, a) + 1
             /\ longer[last].type = type
             /\ longer[last].payload = payload
<1> DEFINE e == Event(a, CurrentVersion(journal, a) + 1, type, payload)
<1>1. /\ Len(journal) \in Nat
      /\ DOMAIN journal = 1..Len(journal)
      /\ Len(Append(journal, e)) = Len(journal) + 1
      /\ DOMAIN Append(journal, e) = 1..(Len(journal) + 1)
      /\ \A i \in DOMAIN journal : Append(journal, e)[i] = journal[i]
      /\ Append(journal, e)[Len(journal) + 1] = e
  OBVIOUS
<1>2. /\ e.aggregateId = a
      /\ e.aggregateVersion = CurrentVersion(journal, a) + 1
      /\ e.type = type
      /\ e.payload = payload
  BY DEF Event
<1> QED  BY <1>1, <1>2 DEF Appended

\* Whatever a step does, the events there were stay where they were.
Keeps(journal, longer) ==
  /\ Len(journal) <= Len(longer)
  /\ \A i \in DOMAIN journal : i \in DOMAIN longer /\ longer[i] = journal[i]

LEMMA JournalGrows ==
  ASSUME JournalInv, [Next]_vars
  PROVE  Keeps(events, events')
<1>0. events \in Seq(DomainEvent)  BY DEF JournalInv, TypeOK
<1>1. ASSUME NEW a, NEW type, NEW payload, events' = Appended(events, a, type, payload)
      PROVE  Keeps(events, events')
  BY <1>0, <1>1, OneLonger DEF Keeps
<1>2. ASSUME NEW r \in Runs, NEW to \in RunState, Moves(r, to)
      PROVE  Keeps(events, events')
  <2> DEFINE changed == Appended(events, r, "RunStateChanged", Change(r, to))
  <2>1. changed \in Seq(DomainEvent)  BY <1>2 DEF Moves
  <2>2. /\ Len(events) \in Nat
        /\ DOMAIN events = 1..Len(events)
        /\ Len(changed) = Len(events) + 1
        /\ DOMAIN changed = 1..(Len(events) + 1)
        /\ \A i \in DOMAIN events : changed[i] = events[i]
    BY <1>0, OneLonger
  <2>3. /\ Len(events') = Len(changed) + 1
        /\ DOMAIN events' = 1..(Len(changed) + 1)
        /\ \A i \in DOMAIN changed : events'[i] = changed[i]
    BY <1>2, <2>1, OneLonger DEF Moves
  <2> QED  BY <2>2, <2>3 DEF Keeps
<1>3. CASE Silent  BY <1>0, <1>3 DEF Silent, Keeps
<1> QED  BY <1>1, <1>2, <1>3, StepShape DEF Seeds, Creates, Decides, Accepts, Grows


-----------------------------------------------------------------------------
(* The answers stored under the keys of commands. *)

\* Remembering under an unused key changes no answer that was stored.
LEMMA AnswersStay ==
  ASSUME JournalInv, [Next]_vars
  PROVE  /\ \A k \in Keys : idempotency[k] # NoRecord => idempotency'[k] # NoRecord
         /\ \A k \in CommandKeys : idempotency[k] # NoRecord => idempotency'[k] = idempotency[k]
<1>0. idempotency \in [Keys -> IdempotencyRecord \cup {NoRecord}] /\ NoRecord \notin IdempotencyRecord
  BY NullsAreDistinct DEF JournalInv, TypeOK
<1>1. TypeOK'  BY NextKeepsJournal DEF JournalInv
<1>2. CASE idempotency' = idempotency  BY <1>2
<1>3. ASSUME NEW k \in Keys, NEW command, NEW result, Remember(k, command, result),
             [commandName |-> command, result |-> result] # NoRecord,
             k \in CommandKeys => idempotency[k] = NoRecord
      PROVE  /\ \A l \in Keys : idempotency[l] # NoRecord => idempotency'[l] # NoRecord
             /\ \A l \in CommandKeys : idempotency[l] # NoRecord => idempotency'[l] = idempotency[l]
  <2>1. /\ idempotency'[k] = [commandName |-> command, result |-> result]
        /\ \A l \in Keys : l # k => idempotency'[l] = idempotency[l]
    BY <1>0, <1>3 DEF Remember
  <2> QED  BY <1>3, <2>1 DEF Keys
<1>4. \A command \in {"seedIdentity", "createRun", "response"} :
        [commandName |-> command, result |-> reply'] # NoRecord
  BY <1>0, <1>1 DEF TypeOK, IdempotencyRecord
<1>5. \A k \in CommandKeys : k \in Keys  BY DEF Keys
<1>6. \A k \in ResponseKeys : k \in Keys /\ k \notin CommandKeys
  BY IdsAreDisjoint DEF Keys
<1>7. CASE UNCHANGED vars  BY <1>2, <1>7 DEF vars
<1>8. CASE \E k \in CommandKeys, t \in Tenants, w \in Workspaces, m \in BOOLEAN : SeedIdentity(k, t, w, m)
  BY <1>2, <1>3, <1>4, <1>5, <1>8 DEF SeedIdentity, RepliesFromCache, Throws, core
<1>9. CASE \E k \in CommandKeys, r \in Runs : CreateRun(k, r)
  BY <1>2, <1>3, <1>4, <1>5, <1>9 DEF CreateRun, RepliesFromCache, Throws, core
<1>10. CASE \E r \in Runs, to \in RequestedStates : TransitionRun(r, to)
  BY <1>2, <1>10 DEF TransitionRun, Throws, core
<1>11. CASE \E d \in Decisions, r \in Runs, c \in BOOLEAN, f \in BOOLEAN : RecordSupervisorDecision(d, r, c, f)
  BY <1>2, <1>11 DEF RecordSupervisorDecision, Throws, core
<1>12. CASE \E r \in Runs, d \in Decisions \cup {NoDecision} : CompleteRun(r, d)
  BY <1>2, <1>12 DEF CompleteRun, TransitionRun, Throws, core
<1>13. CASE \E c \in Contracts, v \in BOOLEAN : StartAgentWork(c, v)
  BY <1>2, <1>13 DEF StartAgentWork, Throws, core
<1>14. CASE \E s \in Streams, e \in {NoVersion, 0}, f \in BOOLEAN : AppendEvent(s, e, f)
  BY <1>2, <1>14 DEF AppendEvent, AppendStream, Throws, core
<1>15. CASE \E s \in Streams : AppendIfMissing(s)
  BY <1>2, <1>15 DEF AppendIfMissing, AppendStream, core
<1>16. CASE \E k \in ResponseKeys : PutIdempotency(k)
  <2>1. PICK k \in ResponseKeys : PutIdempotency(k)  BY <1>16
  <2> QED  BY <1>3, <1>4, <1>6, <2>1 DEF PutIdempotency
<1> QED
  BY <1>7, <1>8, <1>9, <1>10, <1>11, <1>12, <1>13, <1>14, <1>15, <1>16 DEF Next

\* A run appears only together with the answer that names it.
LEMMA RunsAppearAnswered ==
  ASSUME JournalInv, [Next]_vars, NEW r \in Runs, runs'[r] # NoRun
  PROVE  \/ runs[r] # NoRun
         \/ \E k \in CommandKeys :
              /\ idempotency'[k] # NoRecord
              /\ idempotency'[k].commandName = "createRun"
              /\ idempotency'[k].result.aggregateId = r
<1> SUFFICES ASSUME runs[r] = NoRun
             PROVE  \E k \in CommandKeys :
                      /\ idempotency'[k] # NoRecord
                      /\ idempotency'[k].commandName = "createRun"
                      /\ idempotency'[k].result.aggregateId = r
  OBVIOUS
<1>0. /\ runs \in [Runs -> RunRecord \cup {NoRun}]
      /\ idempotency \in [Keys -> IdempotencyRecord \cup {NoRecord}]
      /\ NoRecord \notin IdempotencyRecord
      /\ NoRun \notin RunRecord
  BY NullsAreDistinct DEF JournalInv, TypeOK
<1>1. runs' # runs  OBVIOUS
<1>2. ASSUME NEW q \in Runs, NEW run, runs[q] # NoRun, runs' = [runs EXCEPT ![q] = run]
      PROVE  FALSE
  BY <1>0, <1>2
<1>3. CASE \E k \in CommandKeys, q \in Runs : CreateRun(k, q)
  <2>1. PICK k \in CommandKeys, q \in Runs : CreateRun(k, q)  BY <1>3
  <2>2. /\ runs' = [runs EXCEPT ![q] = NewRun]
        /\ reply' = Done(q, 1)
        /\ Remember(k, "createRun", reply')
    BY <1>1, <2>1 DEF CreateRun, RepliesFromCache, Throws, core
  <2>3. q = r  BY <1>0, <2>2
  <2>4. idempotency'[k] = [commandName |-> "createRun", result |-> Done(r, 1)]
    BY <1>0, <2>2, <2>3 DEF Remember, Keys
  <2>5. [commandName |-> "createRun", result |-> Done(r, 1)] \in IdempotencyRecord
    BY ReplyTypes DEF IdempotencyRecord, Aggregates
  <2>6. Done(r, 1).aggregateId = r  BY DEF Done
  <2> QED  BY <1>0, <2>4, <2>5, <2>6
<1>4. CASE \E q \in Runs, to \in RequestedStates : TransitionRun(q, to)
  BY <1>1, <1>2, <1>4 DEF TransitionRun, CanTransitionRun, Throws, core
<1>5. CASE \E d \in Decisions, q \in Runs, c \in BOOLEAN, f \in BOOLEAN : RecordSupervisorDecision(d, q, c, f)
  <2>1. PICK d \in Decisions, q \in Runs, c \in BOOLEAN, f \in BOOLEAN : RecordSupervisorDecision(d, q, c, f)
    BY <1>5
  <2>2. /\ runs[q] # NoRun
        /\ runs' = [runs EXCEPT ![q] = Decided(runs[q], d, runs[q].version + 1)]
    BY <1>1, <2>1 DEF RecordSupervisorDecision, CanJournalDecision, Throws, core
  <2> QED  BY <1>2, <2>2
<1>6. CASE \E q \in Runs, d \in Decisions \cup {NoDecision} : CompleteRun(q, d)
  BY <1>1, <1>2, <1>6 DEF CompleteRun, TransitionRun, CanTransitionRun, Throws, core
<1>7. CASE UNCHANGED runs  BY <1>1, <1>7
<1>8. CASE UNCHANGED vars  BY <1>7, <1>8 DEF vars
<1>9. CASE \/ \E k \in CommandKeys, t \in Tenants, w \in Workspaces, m \in BOOLEAN : SeedIdentity(k, t, w, m)
           \/ \E c \in Contracts, v \in BOOLEAN : StartAgentWork(c, v)
           \/ \E s \in Streams, e \in {NoVersion, 0}, f \in BOOLEAN : AppendEvent(s, e, f)
           \/ \E s \in Streams : AppendIfMissing(s)
           \/ \E k \in ResponseKeys : PutIdempotency(k)
  BY <1>7, <1>9 DEF SeedIdentity, RepliesFromCache, StartAgentWork, AppendEvent, AppendIfMissing,
                    AppendStream, PutIdempotency, Throws, core
<1> QED  BY <1>3, <1>4, <1>5, <1>6, <1>8, <1>9 DEF Next

\* A client whose answer to createRun was lost can always ask again: some key of its kind
\* answers with the run, so it is never refused as already existing.
THEOREM RunsStayRetryable == Spec => []CreatedRunsAreRetryable
<1>1. Init => CreatedRunsAreRetryable
  BY DEF Init, EmptyImage, CreatedRunsAreRetryable
<1>2. ASSUME JournalInv, CreatedRunsAreRetryable, [Next]_vars
      PROVE  CreatedRunsAreRetryable'
  BY <1>2, AnswersStay, RunsAppearAnswered DEF CreatedRunsAreRetryable
<1> QED  BY <1>1, <1>2, JournalInvariant, PTL DEF Spec


-----------------------------------------------------------------------------
(* History is kept. *)

LEMMA KeepsIsPrefix ==
  ASSUME NEW S, NEW journal \in Seq(S), NEW longer \in Seq(S), Keeps(journal, longer)
  PROVE  IsPrefix(journal, longer)
<1> DEFINE n == Len(journal)
           s == SubSeq(journal, 1, n)
           t == SubSeq(longer, 1, n)
<1>1. /\ n \in Nat
      /\ \A i \in 1..n : journal[i] \in S /\ longer[i] \in S /\ longer[i] = journal[i]
  BY DEF Keeps
<1>2. /\ s \in Seq(S)
      /\ Len(s) = IF 1 <= n THEN n - 1 + 1 ELSE 0
      /\ \A i \in 1..(n - 1 + 1) : s[i] = journal[1 + i - 1]
  BY <1>1, SubSeqProperties, 1 \in Int, n \in Int
<1>3. /\ t \in Seq(S)
      /\ Len(t) = IF 1 <= n THEN n - 1 + 1 ELSE 0
      /\ \A i \in 1..(n - 1 + 1) : t[i] = longer[1 + i - 1]
  BY <1>1, SubSeqProperties, 1 \in Int, n \in Int
<1>4. Len(s) = n /\ Len(t) = n
  BY <1>1, <1>2, <1>3
<1>5. \A i \in 1..n : s[i] = t[i]
  <2> TAKE i \in 1..n
  <2>1. i \in 1..(n - 1 + 1) /\ 1 + i - 1 = i  BY <1>1
  <2>2. s[i] = journal[i] /\ t[i] = longer[i]  BY <1>2, <1>3, <2>1
  <2> QED  BY <1>1, <2>2
<1>6. s = t
  BY <1>2, <1>3, <1>4, <1>5, SeqEqual
<1> QED  BY <1>6 DEF IsPrefix, Keeps

\* A finished run has nowhere to go.
LEMMA TerminalStays == \A from \in Terminal, to \in RunState : ~CanTransition(from, to)
<1> SUFFICES ASSUME NEW from \in Terminal PROVE RUN_TRANSITIONS[from] = {}
  BY DEF CanTransition
<1>1. from \in RunState  BY DEF Terminal, RunState
<1>2. CASE from = "completed"  BY <1>1, <1>2 DEF RUN_TRANSITIONS, Terminal
<1>3. CASE from = "cancelled"  BY <1>1, <1>3 DEF RUN_TRANSITIONS, Terminal
<1> QED  BY <1>2, <1>3 DEF Terminal

LEMMA FinishedRunsStay ==
  ASSUME JournalInv, [Next]_vars, NEW r \in Runs, runs[r] # NoRun, runs[r].state \in Terminal
  PROVE  runs'[r] # NoRun /\ runs'[r].state = runs[r].state
<1>0. /\ runs \in [Runs -> RunRecord \cup {NoRun}]
      /\ runs[r] \in RunRecord
      /\ NoRun \notin RunRecord
  BY NullsAreDistinct DEF JournalInv, TypeOK
<1>1. CASE runs' = runs  BY <1>1
<1>2. ASSUME NEW q \in Runs, Creates(q) PROVE runs'[r] = runs[r]
  BY <1>0, <1>2 DEF Creates, CanCreateRun
<1>3. ASSUME NEW q \in Runs, NEW to \in RunState, Moves(q, to) PROVE runs'[r] = runs[r]
  BY <1>0, <1>3, TerminalStays DEF Moves
<1>4. ASSUME NEW q \in Runs, NEW d \in Decisions, Decides(q, d)
      PROVE  runs'[r] # NoRun /\ runs'[r].state = runs[r].state
  <2>1. CASE q # r  BY <1>0, <1>4, <2>1 DEF Decides
  <2>2. CASE q = r
    <3>1. runs'[r] = Decided(runs[r], d, runs[r].version + 1)  BY <1>0, <1>4, <2>2 DEF Decides
    <3>2. runs[r].version + 1 \in Nat  BY <1>0 DEF RunRecord
    <3>3. runs'[r] \in RunRecord  BY <1>0, <3>1, <3>2, RunRecordTypes
    <3>4. runs'[r].state = runs[r].state  BY <1>0, <3>1 DEF Decided, RunRecord
    <3> QED  BY <1>0, <3>3, <3>4
  <2> QED  BY <2>1, <2>2
<1> QED  BY <1>1, <1>2, <1>3, <1>4, StepShape DEF Silent, Seeds, Accepts, Grows

\* No command takes back an event or a stored answer, and none moves a run that is completed
\* or cancelled (the append-only journal, the map of stored results and the empty rows of
\* RUN_TRANSITIONS).
THEOREM HistoryStays == Spec => HistoryIsKept
<1>1. ASSUME JournalInv, JournalInv', [Next]_vars PROVE [KeepsHistory]_vars
  <2>1. IsPrefix(events, events')
    <3>1. events \in Seq(DomainEvent) /\ events' \in Seq(DomainEvent)
      BY <1>1 DEF JournalInv, TypeOK
    <3> QED  BY <1>1, <3>1, JournalGrows, KeepsIsPrefix
  <2> QED  BY <1>1, <2>1, AnswersStay, FinishedRunsStay DEF KeepsHistory
<1> QED  BY <1>1, JournalInvariant, PTL DEF Spec, HistoryIsKept


-----------------------------------------------------------------------------
(* What must be recorded once is recorded once. *)

OnceTypes == {"AgentTaskContractAccepted", "StreamSeeded"}

OnceIn(journal) ==
  \A i, j \in DOMAIN journal :
    /\ journal[i].aggregateId = journal[j].aggregateId
    /\ journal[i].type = journal[j].type
    /\ journal[i].type \in OnceTypes
    => i = j

\* An aggregate whose version is 0 has no event.
LEMMA VersionZeroIsEmpty ==
  ASSUME JournalInv, NEW a, CurrentVersion(events, a) = 0
  PROVE  Positions(events, a) = {}
<1> SUFFICES ASSUME Positions(events, a) # {} PROVE FALSE
  OBVIOUS
<1>1. events \in Seq(DomainEvent)  BY DEF JournalInv, TypeOK
<1>2. LastPosition(events, a) \in Positions(events, a)
  BY <1>1, LastPositionIsLast
<1>3. events[LastPosition(events, a)] \in DomainEvent
  BY <1>1, <1>2 DEF Positions
<1>4. events[LastPosition(events, a)].aggregateVersion \in Version
  BY <1>3 DEF DomainEvent
<1> QED  BY <1>4 DEF CurrentVersion, Version

\* An append keeps OnceIn if the event is of another type or the first of its kind.
LEMMA OnceStays ==
  ASSUME NEW journal \in Seq(DomainEvent), OnceIn(journal), NEW a, NEW type, NEW payload,
         type \in OnceTypes => \A i \in Positions(journal, a) : journal[i].type # type
  PROVE  OnceIn(Appended(journal, a, type, payload))
<1> DEFINE longer == Appended(journal, a, type, payload)
           last   == Len(journal) + 1
<1>1. /\ Len(journal) \in Nat
      /\ DOMAIN journal = 1..Len(journal)
      /\ DOMAIN longer = 1..last
      /\ \A i \in DOMAIN journal : longer[i] = journal[i]
      /\ longer[last].aggregateId = a
      /\ longer[last].type = type
  BY OneLonger
<1>2. DOMAIN longer = DOMAIN journal \cup {last} /\ last \notin DOMAIN journal
  BY <1>1
<1> HIDE DEF longer, last
<1>3. \A i \in DOMAIN journal :
        ~(longer[i].aggregateId = a /\ longer[i].type = type /\ type \in OnceTypes)
  BY <1>1 DEF Positions
<1>4. OnceIn(longer)
  <2> SUFFICES ASSUME NEW i \in DOMAIN longer, NEW j \in DOMAIN longer,
                      longer[i].aggregateId = longer[j].aggregateId,
                      longer[i].type = longer[j].type,
                      longer[i].type \in OnceTypes
               PROVE  i = j
    BY DEF OnceIn
  <2>1. CASE i \in DOMAIN journal /\ j \in DOMAIN journal
    BY <1>1, <2>1 DEF OnceIn
  <2>2. CASE i = last \/ j = last
    BY <1>1, <1>2, <1>3, <2>2
  <2> QED  BY <1>2, <2>1, <2>2
<1> QED  BY <1>4 DEF longer

LEMMA StepKeepsOnce ==
  ASSUME JournalInv, OnceIn(events), [Next]_vars
  PROVE  OnceIn(events')
<1>0. events \in Seq(DomainEvent)  BY DEF JournalInv, TypeOK
<1>1. CASE Silent  BY <1>1 DEF Silent
<1>2. ASSUME NEW t \in Tenants, NEW w \in Workspaces, Seeds(t, w) PROVE OnceIn(events')
  <2>1. "TenantUserWorkspaceSeeded" \notin OnceTypes  BY DEF OnceTypes
  <2> QED  BY <1>0, <1>2, <2>1, OnceStays DEF Seeds
<1>3. ASSUME NEW r \in Runs, Creates(r) PROVE OnceIn(events')
  <2>1. "RunCreated" \notin OnceTypes  BY DEF OnceTypes
  <2> QED  BY <1>0, <1>3, <2>1, OnceStays DEF Creates
<1>4. ASSUME NEW r \in Runs, NEW to \in RunState, Moves(r, to) PROVE OnceIn(events')
  <2> DEFINE changed == Appended(events, r, "RunStateChanged", Change(r, to))
  <2>1. "RunStateChanged" \notin OnceTypes /\ "StateTransitionAudited" \notin OnceTypes
    BY DEF OnceTypes
  <2>2. OnceIn(changed)  BY <1>0, <2>1, OnceStays
  <2>3. changed \in Seq(DomainEvent)  BY <1>4 DEF Moves
  <2> QED  BY <1>4, <2>1, <2>2, <2>3, OnceStays DEF Moves
<1>5. ASSUME NEW r \in Runs, NEW d \in Decisions, Decides(r, d) PROVE OnceIn(events')
  <2>1. "SupervisorDecisionRecorded" \notin OnceTypes  BY DEF OnceTypes
  <2> QED  BY <1>0, <1>5, <2>1, OnceStays DEF Decides
<1>6. ASSUME NEW c \in Contracts, Accepts(c) PROVE OnceIn(events')
  <2>1. Positions(events, c) = {}
    BY <1>6, VersionZeroIsEmpty DEF Accepts, CanAppend
  <2> QED  BY <1>0, <1>6, <2>1, OnceStays DEF Accepts
<1>7. ASSUME NEW s \in Streams, NEW type \in {"StreamSeeded", "StreamUpdated"}, Grows(s, type)
      PROVE  OnceIn(events')
  <2>1. "StreamUpdated" \notin OnceTypes  BY DEF OnceTypes
  <2> QED  BY <1>0, <1>7, <2>1, OnceStays DEF Grows
<1> QED  BY <1>1, <1>2, <1>3, <1>4, <1>5, <1>6, <1>7, StepShape

\* However often startAgentWork and appendIfMissing are retried, a contract is accepted once
\* and a stream is seeded once.
THEOREM OnceOnly == Spec => []RecordedOnce
<1>1. Init => OnceIn(events)  BY DEF Init, OnceIn
<1>2. ASSUME JournalInv, OnceIn(events), [Next]_vars PROVE OnceIn(events)'
  BY <1>2, StepKeepsOnce DEF OnceIn
<1>3. OnceIn(events) => RecordedOnce  BY DEF OnceIn, OnceTypes, RecordedOnce
<1> QED  BY <1>1, <1>2, <1>3, JournalInvariant, PTL DEF Spec

-----------------------------------------------------------------------------
(* Transitions and their audit events. *)

IsAuditOf(audit, event) ==
  /\ audit.aggregateId = AuditId(event.aggregateId, event.aggregateVersion)
  /\ audit.payload = event.payload

AuditedIn(journal) ==
  /\ \A i \in DOMAIN journal : journal[i].type = "RunStateChanged" =>
       i + 1 \in DOMAIN journal /\ IsAuditOf(journal[i + 1], journal[i])
  /\ \A i \in DOMAIN journal : journal[i].type = "StateTransitionAudited" =>
       i > 1 /\ journal[i - 1].type = "RunStateChanged"

\* An event of any other type leaves the pairs as they are.
LEMMA AuditedStays ==
  ASSUME NEW journal \in Seq(DomainEvent), AuditedIn(journal), NEW a, NEW type, NEW payload,
         type \notin {"RunStateChanged", "StateTransitionAudited"}
  PROVE  AuditedIn(Appended(journal, a, type, payload))
<1> DEFINE longer == Appended(journal, a, type, payload)
           n      == Len(journal)
<1>1. /\ n \in Nat
      /\ DOMAIN journal = 1..n
      /\ DOMAIN longer = 1..(n + 1)
      /\ \A i \in DOMAIN journal : longer[i] = journal[i]
      /\ longer[n + 1].type = type
  BY OneLonger
<1> HIDE DEF longer, n
<1>2. ASSUME NEW i \in DOMAIN longer, longer[i].type = "RunStateChanged"
      PROVE  i + 1 \in DOMAIN longer /\ IsAuditOf(longer[i + 1], longer[i])
  <2>1. i \in DOMAIN journal /\ journal[i].type = "RunStateChanged"  BY <1>1, <1>2
  <2>2. i + 1 \in DOMAIN journal /\ IsAuditOf(journal[i + 1], journal[i])  BY <2>1 DEF AuditedIn
  <2> QED  BY <1>1, <2>1, <2>2
<1>3. ASSUME NEW i \in DOMAIN longer, longer[i].type = "StateTransitionAudited"
      PROVE  i > 1 /\ longer[i - 1].type = "RunStateChanged"
  <2>1. i \in DOMAIN journal /\ journal[i].type = "StateTransitionAudited"  BY <1>1, <1>3
  <2>2. i > 1 /\ journal[i - 1].type = "RunStateChanged"  BY <2>1 DEF AuditedIn
  <2>3. i - 1 \in DOMAIN journal  BY <1>1, <2>1, <2>2
  <2> QED  BY <1>1, <2>2, <2>3
<1>4. AuditedIn(longer)  BY <1>2, <1>3 DEF AuditedIn
<1> QED  BY <1>4 DEF longer

\* A change followed by its audit event makes one more pair.
LEMMA PairIsAudited ==
  ASSUME NEW journal \in Seq(DomainEvent), AuditedIn(journal), NEW r, NEW payload,
         Appended(journal, r, "RunStateChanged", payload) \in Seq(DomainEvent)
  PROVE  AuditedIn(Appended(Appended(journal, r, "RunStateChanged", payload),
                            AuditId(r, CurrentVersion(journal, r) + 1), "StateTransitionAudited", payload))
<1> DEFINE changed == Appended(journal, r, "RunStateChanged", payload)
           audit   == AuditId(r, CurrentVersion(journal, r) + 1)
           longer  == Appended(changed, audit, "StateTransitionAudited", payload)
           n       == Len(journal)
<1>1. /\ n \in Nat
      /\ DOMAIN journal = 1..n
      /\ Len(changed) = n + 1
      /\ DOMAIN changed = 1..(n + 1)
      /\ \A i \in DOMAIN journal : changed[i] = journal[i]
      /\ changed[n + 1].aggregateId = r
      /\ changed[n + 1].aggregateVersion = CurrentVersion(journal, r) + 1
      /\ changed[n + 1].type = "RunStateChanged"
      /\ changed[n + 1].payload = payload
  BY OneLonger
<1>2. /\ DOMAIN longer = 1..(Len(changed) + 1)
      /\ \A i \in DOMAIN changed : longer[i] = changed[i]
      /\ longer[Len(changed) + 1].aggregateId = audit
      /\ longer[Len(changed) + 1].type = "StateTransitionAudited"
      /\ longer[Len(changed) + 1].payload = payload
  BY OneLonger
<1>3. IsAuditOf(longer[n + 2], longer[n + 1])
  <2>1. Len(changed) + 1 = n + 2 /\ n + 1 \in DOMAIN changed  BY <1>1
  <2> QED  BY <1>1, <1>2, <2>1 DEF IsAuditOf
<1>4. /\ DOMAIN longer = 1..(n + 2)
      /\ \A i \in 1..n : longer[i] = journal[i]
      /\ longer[n + 1].type = "RunStateChanged"
      /\ longer[n + 2].type = "StateTransitionAudited"
  BY <1>1, <1>2
<1> HIDE DEF changed, audit, longer, n
<1>5. ASSUME NEW i \in DOMAIN longer, longer[i].type = "RunStateChanged"
      PROVE  i + 1 \in DOMAIN longer /\ IsAuditOf(longer[i + 1], longer[i])
  <2>1. CASE i \in 1..n
    <3>1. i \in DOMAIN journal /\ journal[i].type = "RunStateChanged"  BY <1>1, <1>4, <1>5, <2>1
    <3>2. i + 1 \in DOMAIN journal /\ IsAuditOf(journal[i + 1], journal[i])  BY <3>1 DEF AuditedIn
    <3> QED  BY <1>1, <1>4, <2>1, <3>2
  <2>2. CASE i = n + 1
    <3>1. i + 1 = n + 2 /\ i + 1 \in DOMAIN longer  BY <1>1, <1>4, <2>2
    <3> QED  BY <1>3, <2>2, <3>1
  <2>3. i # n + 2  BY <1>4, <1>5
  <2> QED  BY <1>1, <1>4, <2>1, <2>2, <2>3
<1>6. ASSUME NEW i \in DOMAIN longer, longer[i].type = "StateTransitionAudited"
      PROVE  i > 1 /\ longer[i - 1].type = "RunStateChanged"
  <2>1. CASE i \in 1..n
    <3>1. i \in DOMAIN journal /\ journal[i].type = "StateTransitionAudited"  BY <1>1, <1>4, <1>6, <2>1
    <3>2. i > 1 /\ journal[i - 1].type = "RunStateChanged"  BY <3>1 DEF AuditedIn
    <3>3. i - 1 \in 1..n  BY <1>1, <2>1, <3>2
    <3> QED  BY <1>4, <3>2, <3>3
  <2>2. CASE i = n + 2
    <3>1. i - 1 = n + 1 /\ i > 1  BY <1>1, <2>2
    <3> QED  BY <1>4, <3>1
  <2>3. i # n + 1  BY <1>4, <1>6
  <2> QED  BY <1>1, <1>4, <2>1, <2>2, <2>3
<1>7. AuditedIn(longer)  BY <1>5, <1>6 DEF AuditedIn
<1> QED  BY <1>7 DEF longer, changed, audit

LEMMA StepKeepsAudited ==
  ASSUME JournalInv, AuditedIn(events), [Next]_vars
  PROVE  AuditedIn(events')
<1>0. events \in Seq(DomainEvent)  BY DEF JournalInv, TypeOK
<1>1. CASE Silent  BY <1>1 DEF Silent
<1>2. ASSUME NEW a, NEW type, NEW payload, events' = Appended(events, a, type, payload),
             type \notin {"RunStateChanged", "StateTransitionAudited"}
      PROVE  AuditedIn(events')
  BY <1>0, <1>2, AuditedStays
<1>3. ASSUME NEW r \in Runs, NEW to \in RunState, Moves(r, to) PROVE AuditedIn(events')
  BY <1>0, <1>3, PairIsAudited DEF Moves
<1> QED  BY <1>1, <1>2, <1>3, StepShape DEF Seeds, Creates, Decides, Accepts, Grows

\* No change of a run goes unaudited and no audit event is made up: the second append of
\* transitionRun is never refused once the first one was made.
THEOREM EveryTransitionAudited == Spec => []TransitionsAudited
<1>1. Init => AuditedIn(events)  BY DEF Init, AuditedIn
<1>2. ASSUME JournalInv, AuditedIn(events), [Next]_vars PROVE AuditedIn(events)'
  BY <1>2, StepKeepsAudited DEF AuditedIn, IsAuditOf, AuditId
<1>3. AuditedIn(events) => TransitionsAudited
  BY DEF AuditedIn, IsAuditOf, TransitionsAudited
<1> QED  BY <1>1, <1>2, <1>3, JournalInvariant, PTL DEF Spec


-----------------------------------------------------------------------------
(* The story a journal tells of each run is legal. *)

StateTypes == {"RunCreated", "RunStateChanged"}

StatesIn(journal, r, n) ==
  {i \in 1..n : journal[i].aggregateId = r /\ journal[i].type \in StateTypes}

\* What the event at position i must look like, given the ones before it.
LegalAt(journal, i) ==
  LET e == journal[i]
      earlier == StatesIn(journal, e.aggregateId, i - 1)
  IN  /\ e.type = "RunCreated" =>
           /\ Positions(journal, e.aggregateId) \cap 1..(i - 1) = {}
           /\ e.payload.state = "draft"
      /\ e.type = "RunStateChanged" =>
           /\ earlier # {}
           /\ e.payload.from = StateAfter(journal[Max(earlier)])
           /\ CanTransition(e.payload.from, e.payload.to)

LegalIn(journal) == \A i \in DOMAIN journal : LegalAt(journal, i)

\* The last state event of a run names the state its record is in.
TellsState(journal, r, run) ==
  LET told == StatesIn(journal, r, Len(journal))
  IN  run # NoRun => told # {} /\ StateAfter(journal[Max(told)]) = run.state

LEMMA MaxOfPositions ==
  ASSUME NEW n \in Nat, NEW S \in SUBSET (1..n), S # {}
  PROVE  Max(S) \in S /\ \A i \in S : Max(S) >= i
<1>1. \E i \in S : \A j \in S : i >= j
  BY LastExists
<1> QED  BY <1>1 DEF Max

\* Appending does not change what was told before.
LEMMA EarlierStates ==
  ASSUME NEW journal, NEW longer, NEW n \in Nat, NEW r,
         \A i \in 1..n : longer[i] = journal[i]
  PROVE  /\ StatesIn(longer, r, n) = StatesIn(journal, r, n)
         /\ StatesIn(journal, r, n) # {} =>
              longer[Max(StatesIn(journal, r, n))] = journal[Max(StatesIn(journal, r, n))]
<1>1. StatesIn(longer, r, n) = StatesIn(journal, r, n)  BY DEF StatesIn
<1>2. StatesIn(journal, r, n) \in SUBSET (1..n)  BY DEF StatesIn
<1>3. ASSUME StatesIn(journal, r, n) # {} PROVE Max(StatesIn(journal, r, n)) \in 1..n
  BY <1>2, <1>3, MaxOfPositions
<1> QED  BY <1>1, <1>3

\* One append keeps the story legal when the new event is legal where it stands.
LEMMA LegalStays ==
  ASSUME NEW journal \in Seq(DomainEvent), LegalIn(journal), NEW a, NEW type, NEW payload,
         type = "RunCreated" => Positions(journal, a) = {} /\ payload.state = "draft",
         type = "RunStateChanged" =>
           /\ StatesIn(journal, a, Len(journal)) # {}
           /\ payload.from = StateAfter(journal[Max(StatesIn(journal, a, Len(journal)))])
           /\ CanTransition(payload.from, payload.to)
  PROVE  LegalIn(Appended(journal, a, type, payload))
<1> DEFINE longer == Appended(journal, a, type, payload)
           n      == Len(journal)
<1>1. /\ n \in Nat
      /\ DOMAIN journal = 1..n
      /\ DOMAIN longer = 1..(n + 1)
      /\ \A i \in 1..n : longer[i] = journal[i]
      /\ longer[n + 1].aggregateId = a
      /\ longer[n + 1].type = type
      /\ longer[n + 1].payload = payload
  BY OneLonger
<1> HIDE DEF longer
<1>2. ASSUME NEW i \in 1..n PROVE LegalAt(longer, i)
  <2> DEFINE e == journal[i]
             b == e.aggregateId
  <2>1. longer[i] = e /\ i - 1 \in Nat /\ \A j \in 1..(i - 1) : longer[j] = journal[j]
    BY <1>1
  <2>2. /\ StatesIn(longer, b, i - 1) = StatesIn(journal, b, i - 1)
        /\ StatesIn(journal, b, i - 1) # {} =>
             longer[Max(StatesIn(journal, b, i - 1))] = journal[Max(StatesIn(journal, b, i - 1))]
    BY <2>1, EarlierStates
  <2>3. Positions(longer, b) \cap 1..(i - 1) = Positions(journal, b) \cap 1..(i - 1)
    BY <1>1, <2>1 DEF Positions
  <2>4. LegalAt(journal, i)  BY <1>1 DEF LegalIn
  <2> QED  BY <2>1, <2>2, <2>3, <2>4 DEF LegalAt
<1>3. LegalAt(longer, n + 1)
  <2>1. n + 1 - 1 = n  BY <1>1
  <2>2. /\ StatesIn(longer, a, n) = StatesIn(journal, a, n)
        /\ StatesIn(journal, a, n) # {} =>
             longer[Max(StatesIn(journal, a, n))] = journal[Max(StatesIn(journal, a, n))]
    BY <1>1, EarlierStates
  <2>3. Positions(longer, a) \cap 1..n = Positions(journal, a)
    BY <1>1 DEF Positions
  <2> QED  BY <1>1, <2>1, <2>2, <2>3 DEF LegalAt
<1>4. LegalIn(longer)  BY <1>1, <1>2, <1>3 DEF LegalIn
<1> QED  BY <1>4 DEF longer

\* What is told of a run stays, unless the event is a state event of that run.
LEMMA ToldStays ==
  ASSUME NEW journal \in Seq(DomainEvent), NEW a, NEW type, NEW payload, NEW r, NEW run,
         TellsState(journal, r, run), a # r \/ type \notin StateTypes
  PROVE  TellsState(Appended(journal, a, type, payload), r, run)
<1> DEFINE longer == Appended(journal, a, type, payload)
           n      == Len(journal)
<1>1. /\ n \in Nat
      /\ Len(longer) = n + 1
      /\ \A i \in 1..n : longer[i] = journal[i]
      /\ longer[n + 1].aggregateId = a
      /\ longer[n + 1].type = type
  BY OneLonger
<1> HIDE DEF longer
<1>2. StatesIn(longer, r, n + 1) = StatesIn(longer, r, n)
  BY <1>1 DEF StatesIn
<1>3. /\ StatesIn(longer, r, n) = StatesIn(journal, r, n)
      /\ StatesIn(journal, r, n) # {} =>
           longer[Max(StatesIn(journal, r, n))] = journal[Max(StatesIn(journal, r, n))]
  BY <1>1, EarlierStates
<1>4. TellsState(longer, r, run)  BY <1>1, <1>2, <1>3 DEF TellsState
<1> QED  BY <1>4 DEF longer

\* A state event of a run tells its new state.
LEMMA NewStateTold ==
  ASSUME NEW journal \in Seq(DomainEvent), NEW type \in StateTypes, NEW payload, NEW r, NEW run,
         run.state = IF type = "RunCreated" THEN payload.state ELSE payload.to
  PROVE  TellsState(Appended(journal, r, type, payload), r, run)
<1> DEFINE longer == Appended(journal, r, type, payload)
           n      == Len(journal)
           told   == StatesIn(longer, r, n + 1)
<1>1. /\ n \in Nat
      /\ Len(longer) = n + 1
      /\ longer[n + 1].aggregateId = r
      /\ longer[n + 1].type = type
      /\ longer[n + 1].payload = payload
  BY OneLonger
<1> HIDE DEF longer, n
<1>2. n + 1 \in told /\ told \in SUBSET (1..(n + 1)) /\ n + 1 \in Nat
  BY <1>1 DEF StatesIn
<1>3. Max(told) = n + 1
  <2>1. Max(told) \in told /\ Max(told) >= n + 1  BY <1>2, MaxOfPositions
  <2> QED  BY <1>1, <1>2, <2>1
<1>4. StateAfter(longer[n + 1]) = run.state  BY <1>1 DEF StateAfter
<1>5. TellsState(longer, r, run)  BY <1>1, <1>2, <1>3, <1>4 DEF TellsState
<1> QED  BY <1>5 DEF longer

HistoryInv ==
  /\ LegalIn(events)
  /\ \A r \in Runs : TellsState(events, r, runs[r])

LEMMA StepKeepsHistory ==
  ASSUME JournalInv, HistoryInv, [Next]_vars
  PROVE  HistoryInv'
<1>0. /\ events \in Seq(DomainEvent)
      /\ runs \in [Runs -> RunRecord \cup {NoRun}]
      /\ NoRun \notin RunRecord
  BY NullsAreDistinct DEF JournalInv, TypeOK
<1>1. ASSUME LegalIn(events'), \A r \in Runs : TellsState(events', r, runs'[r])
      PROVE  HistoryInv'
  BY <1>1 DEF HistoryInv, LegalIn, LegalAt, StatesIn, TellsState, Positions
<1>2. CASE Silent
  BY <1>1, <1>2 DEF Silent, HistoryInv
<1>3. ASSUME NEW a, NEW type, NEW payload, type \notin StateTypes,
             events' = Appended(events, a, type, payload), runs' = runs
      PROVE  HistoryInv'
  <2>1. LegalIn(events')
    BY <1>0, <1>3, LegalStays DEF HistoryInv, StateTypes
  <2>2. \A r \in Runs : TellsState(events', r, runs'[r])
    BY <1>0, <1>3, ToldStays DEF HistoryInv
  <2> QED  BY <1>1, <2>1, <2>2
<1>4. ASSUME NEW r \in Runs, Creates(r) PROVE HistoryInv'
  <2>1. Positions(events, r) = {}
    BY <1>4, VersionZeroIsEmpty DEF Creates, CanCreateRun, CanAppend
  <2>2. LegalIn(events')
    <3>1. NewRun.state = "draft"  BY DEF NewRun
    <3> QED  BY <1>0, <1>4, <2>1, <3>1, LegalStays DEF HistoryInv, Creates
  <2>3. runs'[r] = NewRun /\ \A s \in Runs : s # r => runs'[s] = runs[s]
    BY <1>0, <1>4 DEF Creates
  <2>4. TellsState(events', r, NewRun)
    BY <1>0, <1>4, NewStateTold DEF Creates, StateTypes
  <2>5. \A s \in Runs : s # r => TellsState(events', s, runs[s])
    BY <1>0, <1>4, ToldStays DEF HistoryInv, Creates
  <2> QED  BY <1>1, <2>2, <2>3, <2>4, <2>5
<1>5. ASSUME NEW r \in Runs, NEW to \in RunState, Moves(r, to) PROVE HistoryInv'
  <2> DEFINE step    == Change(r, to)
             changed == Appended(events, r, "RunStateChanged", step)
             version == runs[r].version + 1
             audit   == AuditId(r, version)
             next    == Moved(runs[r], to, version)
  <2>1. /\ runs[r] \in RunRecord
        /\ CanTransition(runs[r].state, to)
        /\ changed \in Seq(DomainEvent)
        /\ events' = Appended(changed, audit, "StateTransitionAudited", step)
        /\ runs' = [runs EXCEPT ![r] = next]
    BY <1>5 DEF Moves
  <2>2. step.from = runs[r].state /\ step.to = to  BY DEF Change
  <2>3. next.state = to  BY <2>1 DEF Moved, RunRecord
  <2>4. /\ StatesIn(events, r, Len(events)) # {}
        /\ StateAfter(events[Max(StatesIn(events, r, Len(events)))]) = runs[r].state
    BY <1>0, <2>1 DEF HistoryInv, TellsState
  <2>5. LegalIn(changed)
    BY <1>0, <2>1, <2>2, <2>4, LegalStays DEF HistoryInv
  <2>6. LegalIn(events')
    BY <2>1, <2>5, LegalStays
  <2>7. TellsState(changed, r, next)
    BY <1>0, <2>2, <2>3, NewStateTold DEF StateTypes
  <2>8. \A s \in Runs : s # r => TellsState(changed, s, runs[s])
    BY <1>0, ToldStays DEF HistoryInv
  <2>9. runs'[r] = next /\ \A s \in Runs : s # r => runs'[s] = runs[s]
    BY <1>0, <2>1
  <2>10. "StateTransitionAudited" \notin StateTypes  BY DEF StateTypes
  <2>11. \A s \in Runs : TellsState(events', s, runs'[s])
    BY <2>1, <2>7, <2>8, <2>9, <2>10, ToldStays
  <2> QED  BY <1>1, <2>6, <2>11
<1>6. ASSUME NEW r \in Runs, NEW d \in Decisions, Decides(r, d) PROVE HistoryInv'
  <2> DEFINE next == Decided(runs[r], d, runs[r].version + 1)
  <2>1. /\ runs[r] \in RunRecord
        /\ events' = Appended(events, r, "SupervisorDecisionRecorded", d)
        /\ runs' = [runs EXCEPT ![r] = next]
    BY <1>6 DEF Decides
  <2>2. "SupervisorDecisionRecorded" \notin StateTypes  BY DEF StateTypes
  <2>3. LegalIn(events')
    BY <1>0, <2>1, LegalStays DEF HistoryInv
  <2>4. \A s \in Runs : TellsState(events', s, runs[s])
    BY <1>0, <2>1, <2>2, ToldStays DEF HistoryInv
  <2>5. next.state = runs[r].state  BY <2>1 DEF Decided, RunRecord
  <2>6. TellsState(events', r, next)
    BY <1>0, <2>1, <2>4, <2>5 DEF TellsState
  <2>7. runs'[r] = next /\ \A s \in Runs : s # r => runs'[s] = runs[s]
    BY <1>0, <2>1
  <2> QED  BY <1>1, <2>3, <2>4, <2>6, <2>7
<1>7. {"TenantUserWorkspaceSeeded", "AgentTaskContractAccepted", "StreamSeeded", "StreamUpdated"}
        \cap StateTypes = {}
  BY DEF StateTypes
<1> QED  BY <1>2, <1>3, <1>4, <1>5, <1>6, <1>7, StepShape DEF Seeds, Accepts, Grows

\* The journal of every run is a path of RUN_TRANSITIONS from its single creation on,
\* each change starting where the one before it ended.
THEOREM RunHistoriesLegal == Spec => []RunHistoryLegal
<1>1. Init => HistoryInv
  BY DEF Init, EmptyImage, HistoryInv, LegalIn, TellsState
<1>2. JournalInv /\ HistoryInv /\ [Next]_vars => HistoryInv'
  BY StepKeepsHistory
<1>3. HistoryInv => RunHistoryLegal
  BY DEF HistoryInv, LegalIn, LegalAt, StatesIn, StateTypes, RunHistoryLegal, StatePositions
<1> QED  BY <1>1, <1>2, <1>3, JournalInvariant, PTL DEF Spec

-----------------------------------------------------------------------------
(* What replay computes.  Replay is a recursive function over the journal: *)
(* the lemmas below unfold it one event at a time, by induction on the     *)
(* length with a set of naturals in the place of a predicate.              *)

\* f is the recursive function of Replay for the first n events.
Unfolds(f, journal, n) ==
  f = [i \in 0..n |-> IF i = 0 THEN EmptyImage ELSE ApplyEvent(f[i - 1], journal[i])]

LEMMA UnfoldsAt ==
  ASSUME NEW journal, NEW n \in Nat, NEW f
  PROVE  Unfolds(f, journal, n) <=>
           /\ f = [i \in 0..n |-> f[i]]
           /\ f[0] = EmptyImage
           /\ \A i \in 1..n : f[i] = ApplyEvent(f[i - 1], journal[i])
<1> DEFINE g == [i \in 0..n |-> IF i = 0 THEN EmptyImage ELSE ApplyEvent(f[i - 1], journal[i])]
<1>1. g[0] = EmptyImage /\ \A i \in 1..n : g[i] = ApplyEvent(f[i - 1], journal[i])
  OBVIOUS
<1>2. ASSUME f = g PROVE /\ f = [i \in 0..n |-> f[i]]
                         /\ f[0] = EmptyImage
                         /\ \A i \in 1..n : f[i] = ApplyEvent(f[i - 1], journal[i])
  <2> HIDE DEF g
  <2>1. g = [i \in 0..n |-> g[i]]  BY DEF g
  <2> QED  BY <1>1, <1>2, <2>1
<1>3. ASSUME f = [i \in 0..n |-> f[i]], f[0] = EmptyImage,
             \A i \in 1..n : f[i] = ApplyEvent(f[i - 1], journal[i])
      PROVE  f = g
  <2>1. \A i \in 0..n : f[i] = g[i]  BY <1>1, <1>3
  <2> QED  BY <1>3, <2>1
<1> QED  BY <1>2, <1>3 DEF Unfolds

\* There is such a function, for every length.
LEMMA UnfoldingExists ==
  ASSUME NEW journal
  PROVE  \A n \in Nat : \E f : Unfolds(f, journal, n)
<1> DEFINE S == {n \in Nat : \E f : Unfolds(f, journal, n)}
<1>1. 0 \in S
  <2> DEFINE f == [i \in 0..0 |-> EmptyImage]
  <2>1. f = [i \in 0..0 |-> IF i = 0 THEN EmptyImage ELSE ApplyEvent(f[i - 1], journal[i])]
    OBVIOUS
  <2> QED  BY <2>1 DEF Unfolds
<1>2. ASSUME NEW n \in Nat, n \in S PROVE n + 1 \in S
  <2>1. PICK f : Unfolds(f, journal, n)  BY <1>2
  <2> DEFINE g == [i \in 0..(n + 1) |-> IF i = n + 1 THEN ApplyEvent(f[n], journal[n + 1]) ELSE f[i]]
  <2>2. g[n + 1] = ApplyEvent(f[n], journal[n + 1]) /\ \A i \in 0..n : g[i] = f[i]
    OBVIOUS
  <2>3. g = [i \in 0..(n + 1) |-> g[i]]  OBVIOUS
  <2> HIDE DEF g
  <2>4. g[0] = EmptyImage  BY <2>1, <2>2, UnfoldsAt
  <2>5. \A i \in 1..(n + 1) : g[i] = ApplyEvent(g[i - 1], journal[i])
    <3> TAKE i \in 1..(n + 1)
    <3>1. CASE i = n + 1  BY <2>2, <3>1
    <3>2. CASE i \in 1..n  BY <2>1, <2>2, <3>2, UnfoldsAt
    <3> QED  BY <3>1, <3>2
  <2>6. n + 1 \in Nat  OBVIOUS
  <2>7. Unfolds(g, journal, n + 1)  BY <2>3, <2>4, <2>5, <2>6, UnfoldsAt, Zenon
  <2> QED  BY <2>6, <2>7
<1> HIDE DEF S
<1>3. Nat \subseteq S  BY <1>1, <1>2, NatInductionOnSet
<1> QED  BY <1>3 DEF S

\* And only one.
LEMMA UnfoldingsAgree ==
  ASSUME NEW journal, NEW longer, NEW n \in Nat, NEW m \in Nat, NEW f, NEW g, n <= m,
         \A i \in 1..n : journal[i] = longer[i],
         Unfolds(f, journal, n), Unfolds(g, longer, m)
  PROVE  \A i \in 0..n : f[i] = g[i]
<1> DEFINE S == {i \in Nat : i <= n => f[i] = g[i]}
<1>1. 0 \in S  BY UnfoldsAt
<1>2. ASSUME NEW i \in Nat, i \in S PROVE i + 1 \in S
  BY <1>2, UnfoldsAt
<1> HIDE DEF S
<1>3. Nat \subseteq S  BY <1>1, <1>2, NatInductionOnSet
<1> QED  BY <1>3 DEF S

\* Replay's recursive function, written out.
LEMMA ReplayUnfolded ==
  ASSUME NEW journal \in Seq(DomainEvent)
  PROVE  \E f : Unfolds(f, journal, Len(journal)) /\ Replay(journal) = f[Len(journal)]
<1>1. Len(journal) \in Nat  OBVIOUS
<1>2. \E f : Unfolds(f, journal, Len(journal))  BY <1>1, UnfoldingExists
<1> DEFINE h == CHOOSE f : Unfolds(f, journal, Len(journal))
<1>3. Unfolds(h, journal, Len(journal))  BY <1>2
<1>4. Replay(journal) = h[Len(journal)]  BY DEF Replay, Unfolds
<1> QED  BY <1>3, <1>4

LEMMA ReplayOfNothing == Replay(<<>>) = EmptyImage
<1>1. <<>> \in Seq(DomainEvent) /\ Len(<<>>) = 0  OBVIOUS
<1>2. PICK f : Unfolds(f, <<>>, 0) /\ Replay(<<>>) = f[0]  BY <1>1, ReplayUnfolded
<1> QED  BY <1>2, UnfoldsAt

\* One event more.
LEMMA ReplayOfAppend ==
  ASSUME NEW journal \in Seq(DomainEvent), NEW e \in DomainEvent
  PROVE  Replay(Append(journal, e)) = ApplyEvent(Replay(journal), e)
<1> DEFINE longer == Append(journal, e)
           n == Len(journal)
<1>1. /\ n \in Nat
      /\ longer \in Seq(DomainEvent)
      /\ Len(longer) = n + 1
      /\ n + 1 \in Nat
      /\ longer[n + 1] = e
      /\ \A i \in 1..n : journal[i] = longer[i]
  OBVIOUS
<1> HIDE DEF longer, n
<1>2. PICK f : Unfolds(f, journal, n) /\ Replay(journal) = f[n]
  BY ReplayUnfolded DEF n
<1>3. PICK g : Unfolds(g, longer, n + 1) /\ Replay(longer) = g[n + 1]
  BY <1>1, ReplayUnfolded
<1>4. f[n] = g[n]  BY <1>1, <1>2, <1>3, UnfoldingsAgree
<1>5. n + 1 \in 1..(n + 1) /\ (n + 1) - 1 = n  BY <1>1
<1>6. g[n + 1] = ApplyEvent(g[n], e)  BY <1>1, <1>3, <1>5, UnfoldsAt
<1> QED  BY <1>2, <1>3, <1>4, <1>6 DEF longer

-----------------------------------------------------------------------------
(* Types of the replayed state. *)

Image == [ok : BOOLEAN,
          runs : [Runs -> RunRecord \cup {NoRun}],
          supervisorDecisions : [Decisions -> Runs \cup {NoRun}],
          identitySeeds : SUBSET (Tenants \X Workspaces)]

\* An event's kind says whose it is.
LEMMA EventKinds ==
  ASSUME NEW e \in DomainEvent
  PROVE  /\ e.type = "TenantUserWorkspaceSeeded" => e.aggregateId \in Tenants /\ e.payload \in Workspaces
         /\ e.type = "RunCreated" => e.aggregateId \in Runs /\ e.payload \in RunRecord
         /\ e.type = "RunStateChanged" =>
              e.aggregateId \in Runs /\ e.payload \in [from : RunState, to : RunState]
         /\ e.type = "SupervisorDecisionRecorded" => e.aggregateId \in Runs /\ e.payload \in Decisions
         /\ e.aggregateVersion \in Nat
  BY DEF DomainEvent, Version

LEMMA ApplyEventType ==
  ASSUME NEW image \in Image, NEW e \in DomainEvent
  PROVE  ApplyEvent(image, e) \in Image
<1> DEFINE a == e.aggregateId
<1>0. NoRun \notin RunRecord  BY NullsAreDistinct
<1>1. CASE ~image.ok  BY <1>1 DEF ApplyEvent
<1>2. CASE image.ok /\ e.type = "TenantUserWorkspaceSeeded"
  BY <1>2, EventKinds DEF ApplyEvent, Image
<1>3. CASE image.ok /\ e.type = "RunCreated"
  BY <1>3, EventKinds DEF ApplyEvent, Image
<1>4. CASE image.ok /\ e.type = "RunStateChanged"
  <2>1. a \in Runs /\ e.payload.to \in RunState /\ e.aggregateVersion \in Nat  BY <1>4, EventKinds
  <2>2. image.runs[a] # NoRun => Moved(image.runs[a], e.payload.to, e.aggregateVersion) \in RunRecord
    BY <2>1, RunRecordTypes DEF Image
  <2> QED  BY <1>4, <2>1, <2>2 DEF ApplyEvent, Image
<1>5. CASE image.ok /\ e.type = "SupervisorDecisionRecorded"
  <2>1. a \in Runs /\ e.payload \in Decisions /\ e.aggregateVersion \in Nat  BY <1>5, EventKinds
  <2>2. image.runs[a] # NoRun => Decided(image.runs[a], e.payload, e.aggregateVersion) \in RunRecord
    BY <2>1, RunRecordTypes DEF Image
  <2> QED  BY <1>5, <2>1, <2>2 DEF ApplyEvent, Image
<1>6. CASE image.ok /\ e.type \notin {"TenantUserWorkspaceSeeded", "RunCreated", "RunStateChanged",
                                      "SupervisorDecisionRecorded"}
  BY <1>6 DEF ApplyEvent
<1> QED  BY <1>1, <1>2, <1>3, <1>4, <1>5, <1>6

LEMMA EmptyImageType == EmptyImage \in Image
  BY DEF EmptyImage, Image

\* Whatever the journal holds, replay gives a state of the right type.
LEMMA ReplayType ==
  ASSUME NEW journal \in Seq(DomainEvent)
  PROVE  Replay(journal) \in Image
<1> DEFINE n == Len(journal)
<1>1. n \in Nat  OBVIOUS
<1>2. PICK f : Unfolds(f, journal, n) /\ Replay(journal) = f[n]  BY ReplayUnfolded
<1> DEFINE S == {i \in Nat : i <= n => f[i] \in Image}
<1>3. 0 \in S  BY <1>1, <1>2, UnfoldsAt, EmptyImageType
<1>4. ASSUME NEW i \in Nat, i \in S PROVE i + 1 \in S
  <2>1. SUFFICES ASSUME i + 1 <= n PROVE f[i + 1] \in Image  OBVIOUS
  <2>2. i + 1 \in 1..n /\ (i + 1) - 1 = i  BY <1>1, <2>1
  <2>3. f[i + 1] = ApplyEvent(f[i], journal[i + 1])
    <3> HIDE DEF n
    <3> QED  BY <1>1, <1>2, <2>2, UnfoldsAt
  <2>4. f[i] \in Image /\ journal[i + 1] \in DomainEvent  BY <1>4, <2>1, <2>2
  <2> QED  BY <2>3, <2>4, ApplyEventType
<1> HIDE DEF S
<1>5. Nat \subseteq S  BY <1>3, <1>4, NatInductionOnSet
<1> QED  BY <1>1, <1>2, <1>5 DEF S

-----------------------------------------------------------------------------
(* What replay makes of each kind of event, stamped as append stamps it. *)

LEMMA ReplayOfAppended ==
  ASSUME NEW journal \in Seq(DomainEvent), NEW a, NEW type, NEW payload,
         Event(a, CurrentVersion(journal, a) + 1, type, payload) \in DomainEvent
  PROVE  Replay(Appended(journal, a, type, payload))
           = ApplyEvent(Replay(journal), Event(a, CurrentVersion(journal, a) + 1, type, payload))
  BY ReplayOfAppend DEF Appended

\* Audits, contracts and streams leave no trace in the replayed state.
LEMMA ReplayPassesOver ==
  ASSUME NEW image, NEW e,
         e.type \in {"StateTransitionAudited", "AgentTaskContractAccepted", "StreamSeeded", "StreamUpdated"}
  PROVE  ApplyEvent(image, e) = image
  BY DEF ApplyEvent

LEMMA ReplayOfSeed ==
  ASSUME NEW image \in Image, image.ok, NEW t \in Tenants, NEW v, NEW w
  PROVE  LET after == ApplyEvent(image, Event(t, v, "TenantUserWorkspaceSeeded", w))
         IN  /\ after.ok
             /\ after.runs = image.runs
             /\ after.supervisorDecisions = image.supervisorDecisions
             /\ after.identitySeeds = image.identitySeeds \cup {<<t, w>>}
  BY DEF ApplyEvent, Event, Image

LEMMA ReplayOfCreation ==
  ASSUME NEW image \in Image, image.ok, NEW r \in Runs, NEW v, NEW run
  PROVE  LET after == ApplyEvent(image, Event(r, v, "RunCreated", run))
         IN  /\ after.ok
             /\ after.runs = [image.runs EXCEPT ![r] = run]
             /\ after.supervisorDecisions = image.supervisorDecisions
             /\ after.identitySeeds = image.identitySeeds
  BY DEF ApplyEvent, Event, Image

LEMMA ReplayOfChange ==
  ASSUME NEW image \in Image, image.ok, NEW r \in Runs, image.runs[r] # NoRun, NEW v, NEW step
  PROVE  LET after == ApplyEvent(image, Event(r, v, "RunStateChanged", step))
         IN  /\ after.ok
             /\ after.runs = [image.runs EXCEPT ![r] = Moved(image.runs[r], step.to, v)]
             /\ after.supervisorDecisions = image.supervisorDecisions
             /\ after.identitySeeds = image.identitySeeds
  BY DEF ApplyEvent, Event, Image

LEMMA ReplayOfDecision ==
  ASSUME NEW image \in Image, image.ok, NEW r \in Runs, image.runs[r] # NoRun, NEW v, NEW d \in Decisions
  PROVE  LET after == ApplyEvent(image, Event(r, v, "SupervisorDecisionRecorded", d))
         IN  /\ after.ok
             /\ after.runs = [image.runs EXCEPT ![r] = Decided(image.runs[r], d, v)]
             /\ after.supervisorDecisions = [image.supervisorDecisions EXCEPT ![d] = r]
             /\ after.identitySeeds = image.identitySeeds
  BY DEF ApplyEvent, Event, Image

-----------------------------------------------------------------------------
(* A command as a relation between the state before, the state after and the answer. *)

\* The kernel's state as one value.
KernelState ==
  [events : Seq(DomainEvent),
   runs : [Runs -> RunRecord \cup {NoRun}],
   supervisorDecisions : [Decisions -> Runs \cup {NoRun}],
   identitySeeds : SUBSET (Tenants \X Workspaces),
   idempotency : [Keys -> IdempotencyRecord \cup {NoRecord}]]

State(journal, runMap, decisions, seeds, records) ==
  [events |-> journal, runs |-> runMap, supervisorDecisions |-> decisions,
   identitySeeds |-> seeds, idempotency |-> records]

Kernel == State(events, runs, supervisorDecisions, identitySeeds, idempotency)

\* The ways a command can succeed: from state s to state t with answer a.
Fits(s, n) == Len(s.events) + n <= MaxEvents

Cached(s, t, a, k) ==
  /\ s.idempotency[k] # NoRecord
  /\ a = s.idempotency[k].result
  /\ t = s

Seeded(s, t, a, k, x, w) ==
  /\ s.idempotency[k] = NoRecord
  /\ Fits(s, 1)
  /\ a = Done(x, CurrentVersion(s.events, x) + 1)
  /\ t = State(Appended(s.events, x, "TenantUserWorkspaceSeeded", w), s.runs, s.supervisorDecisions,
               s.identitySeeds \cup {<<x, w>>},
               [s.idempotency EXCEPT ![k] = [commandName |-> "seedIdentity", result |-> a]])

Created(s, t, a, k, r) ==
  /\ s.idempotency[k] = NoRecord
  /\ s.runs[r] = NoRun
  /\ CanAppend(s.events, r, 0)
  /\ Fits(s, 1)
  /\ a = Done(r, 1)
  /\ t = State(Appended(s.events, r, "RunCreated", NewRun), [s.runs EXCEPT ![r] = NewRun],
               s.supervisorDecisions, s.identitySeeds,
               [s.idempotency EXCEPT ![k] = [commandName |-> "createRun", result |-> a]])

StepOf(s, r, to) == [from |-> s.runs[r].state, to |-> to]
ChangedBy(s, r, to) == Appended(s.events, r, "RunStateChanged", StepOf(s, r, to))

Transitioned(s, t, a, r, to) ==
  /\ s.runs[r] # NoRun
  /\ CanTransition(s.runs[r].state, to)
  /\ CanAppend(s.events, r, s.runs[r].version)
  /\ CanAppend(ChangedBy(s, r, to), AuditId(r, s.runs[r].version + 1), 0)
  /\ Fits(s, 2)
  /\ a = Done(r, s.runs[r].version + 1)
  /\ t = State(Appended(ChangedBy(s, r, to), AuditId(r, s.runs[r].version + 1),
                        "StateTransitionAudited", StepOf(s, r, to)),
               [s.runs EXCEPT ![r] = Moved(s.runs[r], to, s.runs[r].version + 1)],
               s.supervisorDecisions, s.identitySeeds, s.idempotency)

DecisionTaken(s, t, a, d, r) ==
  /\ s.runs[r] # NoRun
  /\ CanAppend(s.events, r, s.runs[r].version)
  /\ Fits(s, 1)
  /\ a = Done(r, s.runs[r].version + 1)
  /\ t = State(Appended(s.events, r, "SupervisorDecisionRecorded", d),
               [s.runs EXCEPT ![r] = Decided(s.runs[r], d, s.runs[r].version + 1)],
               [s.supervisorDecisions EXCEPT ![d] = r], s.identitySeeds, s.idempotency)

Completed(s, t, a, r, d) ==
  /\ s.supervisorDecisions[d] # NoRun
  /\ s.runs[r] # NoRun
  /\ s.runs[r].state = "integrating"
  /\ Transitioned(s, t, a, r, "completed")

Accepted(s, t, a, c) ==
  /\ CanAppend(s.events, c, 0)
  /\ Fits(s, 1)
  /\ a = Done(c, 1)
  /\ t = State(Appended(s.events, c, "AgentTaskContractAccepted", c),
               s.runs, s.supervisorDecisions, s.identitySeeds, s.idempotency)

Streamed(s, t, a, x, type) ==
  /\ Fits(s, 1)
  /\ a = Done(x, CurrentVersion(s.events, x) + 1)
  /\ t = State(Appended(s.events, x, type, x),
               s.runs, s.supervisorDecisions, s.identitySeeds, s.idempotency)

HasSeed(s, x) == \E i \in Positions(s.events, x) : s.events[i].type = "StreamSeeded"

Stored(s, t, a, k) ==
  /\ a = Nothing
  /\ t = State(s.events, s.runs, s.supervisorDecisions, s.identitySeeds,
               [s.idempotency EXCEPT ![k] = [commandName |-> "response", result |-> Nothing]])

KernelStep(s, t, a) ==
  \/ \E k \in CommandKeys, x \in Tenants, w \in Workspaces : Cached(s, t, a, k) \/ Seeded(s, t, a, k, x, w)
  \/ \E k \in CommandKeys, r \in Runs : Cached(s, t, a, k) \/ Created(s, t, a, k, r)
  \/ \E r \in Runs, to \in RequestedStates : Transitioned(s, t, a, r, to)
  \/ \E d \in Decisions, r \in Runs : DecisionTaken(s, t, a, d, r)
  \/ \E d \in Decisions, r \in Runs : Completed(s, t, a, r, d)
  \/ \E c \in Contracts : Accepted(s, t, a, c)
  \/ \E x \in Streams : Streamed(s, t, a, x, "StreamUpdated")
  \/ \E x \in Streams : ~HasSeed(s, x) /\ Streamed(s, t, a, x, "StreamSeeded")
  \/ \E x \in Streams : HasSeed(s, x) /\ a = Nothing /\ t = s
  \/ \E k \in ResponseKeys : Stored(s, t, a, k)

\* A refused command leaves at most an entry in the decisions' map.
Refused == reply' = Threw /\ UNCHANGED <<events, runs, identitySeeds, idempotency>>

LEMMA KernelFields ==
  /\ Kernel.events = events
  /\ Kernel.runs = runs
  /\ Kernel.supervisorDecisions = supervisorDecisions
  /\ Kernel.identitySeeds = identitySeeds
  /\ Kernel.idempotency = idempotency
  BY DEF Kernel, State

LEMMA KernelAfter ==
  Kernel' = State(events', runs', supervisorDecisions', identitySeeds', idempotency')
  BY DEF Kernel, State

LEMMA KernelTyped == TypeOK => Kernel \in KernelState
  BY DEF TypeOK, Kernel, State, KernelState

LEMMA KernelSame == UNCHANGED core => Kernel' = Kernel
  BY DEF core, Kernel, State

LEMMA TransitionIsStep ==
  ASSUME JournalInv, NEW r \in Runs, NEW to \in RunState, TransitionRun(r, to)
  PROVE  Transitioned(Kernel, Kernel', reply', r, to) \/ Refused
<1>1. CASE Throws  BY <1>1 DEF Throws, core, Refused
<1>2. CASE ~Throws
  <2> DEFINE version == runs[r].version + 1
  <2>1. CanTransitionRun(r, to) /\ HasRoom(2)  BY <1>2 DEF TransitionRun
  <2>2. /\ CurrentVersion(ChangedBy(Kernel, r, to), AuditId(r, version)) = 0
        /\ events' = Appended(ChangedBy(Kernel, r, to), AuditId(r, version),
                              "StateTransitionAudited", StepOf(Kernel, r, to))
        /\ runs' = [runs EXCEPT ![r] = Moved(runs[r], to, version)]
        /\ UNCHANGED <<supervisorDecisions, identitySeeds, idempotency>>
    BY <1>2, TransitionIsAudited, KernelFields DEF ChangedBy, StepOf
  <2>3. reply' = Done(r, version)
    <3>1. Moved(runs[r], to, version).version = version
      BY <2>1, NullsAreDistinct DEF JournalInv, TypeOK, Moved, RunRecord, CanTransitionRun
    <3> QED  BY <1>2, <2>2, <3>1, KernelFields DEF TransitionRun, CanAppend, ChangedBy, StepOf
  <2> QED
    BY <2>1, <2>2, <2>3, KernelFields, KernelAfter DEF Transitioned, CanTransitionRun, CanAppend, HasRoom, Fits
<1> QED  BY <1>1, <1>2

\* Every step of the kernel is one of these, or refused.
LEMMA NextIsStep ==
  ASSUME JournalInv, Next
  PROVE  KernelStep(Kernel, Kernel', reply') \/ Refused
<1>1. ASSUME NEW k \in CommandKeys, NEW x \in Tenants, NEW w \in Workspaces, NEW m \in BOOLEAN, SeedIdentity(k, x, w, m)
      PROVE  Cached(Kernel, Kernel', reply', k) \/ Seeded(Kernel, Kernel', reply', k, x, w) \/ Refused
  <2>1. CASE Throws  BY <2>1 DEF Throws, core, Refused
  <2>2. CASE RepliesFromCache(k)  BY <2>2, KernelFields, KernelSame DEF RepliesFromCache, Cached
  <2>3. CASE ~Throws /\ ~RepliesFromCache(k)
    <3>1. /\ idempotency[k] = NoRecord
          /\ HasRoom(1)
          /\ events' = Appended(events, x, "TenantUserWorkspaceSeeded", w)
          /\ identitySeeds' = identitySeeds \cup {<<x, w>>}
          /\ reply' = Done(x, CurrentVersion(events, x) + 1)
          /\ idempotency' = [idempotency EXCEPT ![k] = [commandName |-> "seedIdentity", result |-> reply']]
          /\ UNCHANGED <<runs, supervisorDecisions>>
      BY <1>1, <2>3 DEF SeedIdentity, Remember
    <3> QED  BY <3>1, KernelFields, KernelAfter DEF Seeded, HasRoom, Fits
  <2> QED  BY <2>1, <2>2, <2>3
<1>2. ASSUME NEW k \in CommandKeys, NEW r \in Runs, CreateRun(k, r)
      PROVE  Cached(Kernel, Kernel', reply', k) \/ Created(Kernel, Kernel', reply', k, r) \/ Refused
  <2>1. CASE Throws  BY <2>1 DEF Throws, core, Refused
  <2>2. CASE RepliesFromCache(k)  BY <2>2, KernelFields, KernelSame DEF RepliesFromCache, Cached
  <2>3. CASE ~Throws /\ ~RepliesFromCache(k)
    <3>1. /\ idempotency[k] = NoRecord
          /\ runs[r] = NoRun
          /\ CanAppend(events, r, 0)
          /\ HasRoom(1)
          /\ events' = Appended(events, r, "RunCreated", NewRun)
          /\ runs' = [runs EXCEPT ![r] = NewRun]
          /\ reply' = Done(r, 1)
          /\ idempotency' = [idempotency EXCEPT ![k] = [commandName |-> "createRun", result |-> reply']]
          /\ UNCHANGED <<supervisorDecisions, identitySeeds>>
      BY <1>2, <2>3 DEF CreateRun, CanCreateRun, Remember
    <3> QED  BY <3>1, KernelFields, KernelAfter DEF Created, HasRoom, Fits
  <2> QED  BY <2>1, <2>2, <2>3
<1>3. ASSUME NEW r \in Runs, NEW to \in RequestedStates, TransitionRun(r, to)
      PROVE  Transitioned(Kernel, Kernel', reply', r, to) \/ Refused
  BY <1>3, TransitionIsStep, RequestedAreStates
<1>4. ASSUME NEW d \in Decisions, NEW r \in Runs, NEW c \in BOOLEAN, NEW f \in BOOLEAN,
             RecordSupervisorDecision(d, r, c, f)
      PROVE  DecisionTaken(Kernel, Kernel', reply', d, r) \/ Refused
  <2>1. CASE reply' = Threw
    BY <1>4, <2>1 DEF RecordSupervisorDecision, Throws, core, Refused, Done, Threw
  <2>2. CASE reply' # Threw
    <3>1. /\ runs[r] # NoRun
          /\ CanAppend(events, r, runs[r].version)
          /\ HasRoom(1)
          /\ events' = Appended(events, r, "SupervisorDecisionRecorded", d)
          /\ runs' = [runs EXCEPT ![r] = Decided(runs[r], d, runs[r].version + 1)]
          /\ supervisorDecisions' = [supervisorDecisions EXCEPT ![d] = r]
          /\ reply' = Done(r, runs[r].version + 1)
          /\ UNCHANGED <<identitySeeds, idempotency>>
      BY <1>4, <2>2 DEF RecordSupervisorDecision, CanJournalDecision, Throws
    <3> QED  BY <3>1, KernelFields, KernelAfter DEF DecisionTaken, HasRoom, Fits
  <2> QED  BY <2>1, <2>2
<1>5. ASSUME NEW r \in Runs, NEW d \in Decisions \cup {NoDecision}, CompleteRun(r, d)
      PROVE  (d \in Decisions /\ Completed(Kernel, Kernel', reply', r, d)) \/ Refused
  <2>1. CASE Throws  BY <2>1 DEF Throws, core, Refused
  <2>2. CASE MayComplete(r, d) /\ TransitionRun(r, "completed")
    <3>1. "completed" \in RunState  BY DEF RunState
    <3>2. Transitioned(Kernel, Kernel', reply', r, "completed") \/ Refused
      BY <2>2, <3>1, TransitionIsStep
    <3> QED  BY <2>2, <3>2, KernelFields, KernelAfter DEF MayComplete, Completed
  <2> QED  BY <1>5, <2>1, <2>2 DEF CompleteRun
<1>6. ASSUME NEW c \in Contracts, NEW v \in BOOLEAN, StartAgentWork(c, v)
      PROVE  Accepted(Kernel, Kernel', reply', c) \/ Refused
  BY <1>6, KernelFields, KernelAfter DEF StartAgentWork, Throws, core, Refused, Accepted, HasRoom, Fits
<1>7. ASSUME NEW x \in Streams, NEW e \in {NoVersion, 0}, NEW f \in BOOLEAN, AppendEvent(x, e, f)
      PROVE  Streamed(Kernel, Kernel', reply', x, "StreamUpdated") \/ Refused
  BY <1>7, KernelFields, KernelAfter DEF AppendEvent, AppendStream, Throws, core, Refused, Streamed, HasRoom, Fits
<1>8. ASSUME NEW x \in Streams, AppendIfMissing(x)
      PROVE  \/ ~HasSeed(Kernel, x) /\ Streamed(Kernel, Kernel', reply', x, "StreamSeeded")
             \/ HasSeed(Kernel, x) /\ reply' = Nothing /\ Kernel' = Kernel
  BY <1>8, KernelFields, KernelAfter, KernelSame DEF AppendIfMissing, AppendStream, HasSeed, Streamed, HasRoom, Fits
<1>9. ASSUME NEW k \in ResponseKeys, PutIdempotency(k)
      PROVE  Stored(Kernel, Kernel', reply', k)
  BY <1>9, KernelFields, KernelAfter DEF PutIdempotency, Remember, Stored
<1> QED
  BY <1>1, <1>2, <1>3, <1>4, <1>5, <1>6, <1>7, <1>8, <1>9 DEF Next, KernelStep

-----------------------------------------------------------------------------
(* What a successful step does to the replayed state. *)

LEMMA StateFields ==
  ASSUME NEW j, NEW rs, NEW ds, NEW is, NEW ks
  PROVE  /\ State(j, rs, ds, is, ks).events = j
         /\ State(j, rs, ds, is, ks).runs = rs
         /\ State(j, rs, ds, is, ks).supervisorDecisions = ds
         /\ State(j, rs, ds, is, ks).identitySeeds = is
         /\ State(j, rs, ds, is, ks).idempotency = ks
  BY DEF State

\* The image a state of the kernel has when its maps agree with its journal.
ImageOf(s) == [ok |-> TRUE, runs |-> s.runs, supervisorDecisions |-> s.supervisorDecisions,
               identitySeeds |-> s.identitySeeds]

\* An event appended to a state of the right type is a domain event.
LEMMA AppendedEvents ==
  ASSUME NEW s \in KernelState, NEW a, NEW type, NEW payload,
         \A v \in Version : Event(a, v, type, payload) \in DomainEvent
  PROVE  /\ Event(a, CurrentVersion(s.events, a) + 1, type, payload) \in DomainEvent
         /\ Appended(s.events, a, type, payload) \in Seq(DomainEvent)
<1>1. s.events \in Seq(DomainEvent)  BY DEF KernelState
<1>2. CurrentVersion(s.events, a) \in Nat  BY <1>1, CurrentVersionIsNat, DomainEventVersion
<1>3. CurrentVersion(s.events, a) + 1 \in Version  BY <1>2 DEF Version
<1>4. Event(a, CurrentVersion(s.events, a) + 1, type, payload) \in DomainEvent  BY <1>3
<1> QED  BY <1>1, <1>4, AppendedType

LEMMA StepReplays ==
  ASSUME NEW s \in KernelState, NEW t, NEW a, KernelStep(s, t, a),
         NEW image, image = Replay(s.events), image.ok,
         image.runs = s.runs, image.identitySeeds = s.identitySeeds
  PROVE  LET after == Replay(t.events)
         IN  /\ after.ok
             /\ after.runs = t.runs
             /\ after.identitySeeds = t.identitySeeds
             /\ image.supervisorDecisions = s.supervisorDecisions =>
                  after.supervisorDecisions = t.supervisorDecisions
             /\ \A d \in Decisions :
                  after.supervisorDecisions[d] = image.supervisorDecisions[d] \/ t.supervisorDecisions[d] # NoRun
<1> DEFINE Follows(x) ==
      /\ Replay(x.events).ok
      /\ Replay(x.events).runs = x.runs
      /\ Replay(x.events).identitySeeds = x.identitySeeds
      /\ image.supervisorDecisions = s.supervisorDecisions =>
           Replay(x.events).supervisorDecisions = x.supervisorDecisions
      /\ \A d \in Decisions :
           \/ Replay(x.events).supervisorDecisions[d] = image.supervisorDecisions[d]
           \/ x.supervisorDecisions[d] # NoRun
<1>0. /\ s.events \in Seq(DomainEvent)
      /\ image \in Image
      /\ s.runs \in [Runs -> RunRecord \cup {NoRun}]
      /\ s.supervisorDecisions \in [Decisions -> Runs \cup {NoRun}]
      /\ image.supervisorDecisions \in [Decisions -> Runs \cup {NoRun}]
      /\ NoRun \notin RunRecord
      /\ NoRun \notin Runs
  BY ReplayType, NullsAreDistinct DEF KernelState, Image
<1>1. ASSUME t.events = s.events, t.runs = s.runs, t.identitySeeds = s.identitySeeds,
             t.supervisorDecisions = s.supervisorDecisions
      PROVE  Follows(t)
  BY <1>1
<1>2. ASSUME NEW k \in CommandKeys, NEW x \in Tenants, NEW w \in Workspaces, Seeded(s, t, a, k, x, w)
      PROVE  Follows(t)
  <2> DEFINE e == Event(x, CurrentVersion(s.events, x) + 1, "TenantUserWorkspaceSeeded", w)
  <2>1. e \in DomainEvent  BY AppendedEvents, EventTypes
  <2>2. /\ t.events = Appended(s.events, x, "TenantUserWorkspaceSeeded", w)
        /\ t.runs = s.runs
        /\ t.supervisorDecisions = s.supervisorDecisions
        /\ t.identitySeeds = s.identitySeeds \cup {<<x, w>>}
    BY <1>2, StateFields DEF Seeded
  <2>3. Replay(t.events) = ApplyEvent(image, e)  BY <1>0, <2>1, <2>2, ReplayOfAppended
  <2> QED  BY <1>0, <2>2, <2>3, ReplayOfSeed
<1>3. ASSUME NEW k \in CommandKeys, NEW r \in Runs, Created(s, t, a, k, r)
      PROVE  Follows(t)
  <2> DEFINE e == Event(r, CurrentVersion(s.events, r) + 1, "RunCreated", NewRun)
  <2>1. e \in DomainEvent  BY AppendedEvents, EventTypes, RunRecordTypes
  <2>2. /\ t.events = Appended(s.events, r, "RunCreated", NewRun)
        /\ t.runs = [s.runs EXCEPT ![r] = NewRun]
        /\ t.supervisorDecisions = s.supervisorDecisions
        /\ t.identitySeeds = s.identitySeeds
    BY <1>3, StateFields DEF Created
  <2>3. Replay(t.events) = ApplyEvent(image, e)  BY <1>0, <2>1, <2>2, ReplayOfAppended
  <2> QED  BY <1>0, <2>2, <2>3, ReplayOfCreation
<1>4. ASSUME NEW r \in Runs, NEW to \in RunState, Transitioned(s, t, a, r, to)
      PROVE  Follows(t)
  <2> DEFINE step    == StepOf(s, r, to)
             changed == ChangedBy(s, r, to)
             audit   == AuditId(r, s.runs[r].version + 1)
             v       == CurrentVersion(s.events, r) + 1
             e       == Event(r, v, "RunStateChanged", step)
             f       == Event(audit, CurrentVersion(changed, audit) + 1, "StateTransitionAudited", step)
  <2>1. s.runs[r] \in RunRecord  BY <1>0, <1>4 DEF Transitioned
  <2>2. /\ s.runs[r].state \in RunState
        /\ s.runs[r].version \in Nat
        /\ audit \in Audits
        /\ CurrentVersion(s.events, r) = s.runs[r].version
    BY <1>4, <2>1, AuditIds DEF RunRecord, Transitioned, CanAppend
  <2>3. e \in DomainEvent /\ changed \in Seq(DomainEvent)
    BY <2>2, AppendedEvents, EventTypes DEF StepOf, ChangedBy
  <2>4. Replay(changed) = ApplyEvent(image, e)
    BY <1>0, <2>3, ReplayOfAppended DEF ChangedBy
  <2>5. CurrentVersion(changed, audit) \in Nat
    BY <2>3, CurrentVersionIsNat, DomainEventVersion
  <2>6. f \in DomainEvent
    BY <2>2, <2>5, EventTypes DEF StepOf, Version
  <2>7. Replay(Appended(changed, audit, "StateTransitionAudited", step)) = Replay(changed)
    <3>1. f.type = "StateTransitionAudited"  BY DEF Event
    <3> QED  BY <2>3, <2>6, <3>1, ReplayOfAppended, ReplayPassesOver
  <2>8. /\ t.events = Appended(changed, audit, "StateTransitionAudited", step)
        /\ t.runs = [s.runs EXCEPT ![r] = Moved(s.runs[r], to, v)]
        /\ t.supervisorDecisions = s.supervisorDecisions
        /\ t.identitySeeds = s.identitySeeds
        /\ image.runs[r] # NoRun
    BY <1>4, <2>2, StateFields DEF Transitioned
  <2>9. step.to = to  BY DEF StepOf
  <2> HIDE DEF step, changed, audit, v
  <2> QED  BY <1>0, <2>4, <2>7, <2>8, <2>9, ReplayOfChange
<1>5. ASSUME NEW d \in Decisions, NEW r \in Runs, DecisionTaken(s, t, a, d, r)
      PROVE  Follows(t)
  <2> DEFINE v == CurrentVersion(s.events, r) + 1
             e == Event(r, v, "SupervisorDecisionRecorded", d)
  <2>1. e \in DomainEvent  BY AppendedEvents, EventTypes
  <2>2. /\ t.events = Appended(s.events, r, "SupervisorDecisionRecorded", d)
        /\ t.runs = [s.runs EXCEPT ![r] = Decided(s.runs[r], d, v)]
        /\ t.supervisorDecisions = [s.supervisorDecisions EXCEPT ![d] = r]
        /\ t.identitySeeds = s.identitySeeds
        /\ image.runs[r] # NoRun
    BY <1>5, StateFields DEF DecisionTaken, CanAppend
  <2>3. Replay(t.events) = ApplyEvent(image, e)  BY <1>0, <2>1, <2>2, ReplayOfAppended
  <2> HIDE DEF v
  <2>4. LET after == ApplyEvent(image, e)
        IN  /\ after.ok
            /\ after.runs = [image.runs EXCEPT ![r] = Decided(image.runs[r], d, v)]
            /\ after.supervisorDecisions = [image.supervisorDecisions EXCEPT ![d] = r]
            /\ after.identitySeeds = image.identitySeeds
    BY <1>0, <2>2, ReplayOfDecision
  <2> HIDE DEF e
  <2> QED  BY <1>0, <2>2, <2>3, <2>4
<1>6. ASSUME NEW x, NEW type \in {"AgentTaskContractAccepted", "StreamSeeded", "StreamUpdated"},
             \A v \in Version : Event(x, v, type, x) \in DomainEvent,
             t = State(Appended(s.events, x, type, x), s.runs, s.supervisorDecisions,
                       s.identitySeeds, s.idempotency)
      PROVE  Follows(t)
  <2> DEFINE e == Event(x, CurrentVersion(s.events, x) + 1, type, x)
  <2>1. e \in DomainEvent  BY <1>6, AppendedEvents
  <2>2. e.type = type  BY DEF Event
  <2>3. Replay(Appended(s.events, x, type, x)) = image
    BY <1>0, <2>1, <2>2, ReplayOfAppended, ReplayPassesOver
  <2> QED  BY <1>6, <2>3, StateFields
<1>7. ASSUME NEW c \in Contracts, Accepted(s, t, a, c) PROVE Follows(t)
  BY <1>6, <1>7, EventTypes DEF Accepted
<1>8. ASSUME NEW x \in Streams, NEW type \in {"StreamSeeded", "StreamUpdated"}, Streamed(s, t, a, x, type)
      PROVE  Follows(t)
  BY <1>6, <1>8, EventTypes DEF Streamed
<1>9. ASSUME NEW k, Stored(s, t, a, k) PROVE Follows(t)
  BY <1>1, <1>9, StateFields DEF Stored
<1>10. ASSUME t = s PROVE Follows(t)  BY <1>1, <1>10
<1>11. ASSUME NEW r \in Runs, NEW d \in Decisions, Completed(s, t, a, r, d) PROVE Follows(t)
  <2>1. "completed" \in RunState  BY DEF RunState
  <2> QED  BY <1>4, <1>11, <2>1 DEF Completed
<1> HIDE DEF Follows
<1>12. Follows(t)
  BY <1>2, <1>3, <1>4, <1>5, <1>7, <1>8, <1>9, <1>10, <1>11, RequestedAreStates DEF KernelStep, Cached
<1> QED  BY <1>12 DEF Follows

-----------------------------------------------------------------------------
LEMMA MaxUpTo ==
  ASSUME NEW n \in Nat, NEW S \in SUBSET (1..(n + 1)), n + 1 \in S
  PROVE  Max(S) = n + 1
<1>1. n + 1 \in Nat  OBVIOUS
<1>2. S # {}  OBVIOUS
<1>3. Max(S) \in S /\ Max(S) >= n + 1  BY <1>1, <1>2, MaxOfPositions
<1>4. Max(S) \in 1..(n + 1)  BY <1>3
<1> QED  BY <1>3, <1>4

\* One event more: only an event about d changes what the journal says of d.
LEMMA JournaledRunGrows ==
  ASSUME NEW journal \in Seq(DomainEvent), NEW n \in Nat, n + 1 \in DOMAIN journal, NEW d
  PROVE  LET e == journal[n + 1]
         IN  JournaledRun(journal, d, n + 1)
               = IF e.type = "SupervisorDecisionRecorded" /\ e.payload = d
                 THEN e.aggregateId
                 ELSE JournaledRun(journal, d, n)
<1> DEFINE About(i) == journal[i].type = "SupervisorDecisionRecorded" /\ journal[i].payload = d
           before == {i \in 1..n : About(i)}
           after == {i \in 1..(n + 1) : About(i)}
<1>1. 1..(n + 1) = 1..n \cup {n + 1} /\ after \in SUBSET (1..(n + 1))  OBVIOUS
<1>2. CASE About(n + 1)
  <2>1. n + 1 \in after  BY <1>1, <1>2
  <2> HIDE DEF About, before, after
  <2>2. Max(after) = n + 1 /\ after # {}  BY <1>1, <2>1, MaxUpTo
  <2> USE DEF About, before, after
  <2>3. JournaledRun(journal, d, n + 1) = IF after = {} THEN NoRun ELSE journal[Max(after)].aggregateId
    BY DEF JournaledRun
  <2> HIDE DEF after
  <2> QED  BY <1>2, <2>2, <2>3
<1>3. CASE ~About(n + 1)
  <2>1. after = before  BY <1>1, <1>3
  <2> QED  BY <1>3, <2>1 DEF JournaledRun
<1> QED  BY <1>2, <1>3

\* Replay gives back the decisions the journal names, whatever the journal is.
LEMMA ReplayedDecisions ==
  ASSUME NEW journal \in Seq(DomainEvent), Replay(journal).ok, NEW d \in Decisions
  PROVE  Replay(journal).supervisorDecisions[d] = JournaledRun(journal, d, Len(journal))
<1> DEFINE n == Len(journal)
<1>1. n \in Nat /\ DOMAIN journal = 1..n  OBVIOUS
<1>2. PICK f : Unfolds(f, journal, n) /\ Replay(journal) = f[n]  BY ReplayUnfolded
<1> DEFINE Good(i) == /\ f[i] \in Image
                      /\ f[i].ok => f[i].supervisorDecisions[d] = JournaledRun(journal, d, i)
           S == {i \in Nat : i <= n => Good(i)}
<1> HIDE DEF n
<1>3. 0 \in S
  <2>1. f[0] = EmptyImage  BY <1>1, <1>2, UnfoldsAt
  <2>2. EmptyImage.supervisorDecisions[d] = NoRun  BY DEF EmptyImage
  <2>3. JournaledRun(journal, d, 0) = NoRun  BY DEF JournaledRun
  <2> QED  BY <2>1, <2>2, <2>3, EmptyImageType
<1>4. ASSUME NEW i \in Nat, i \in S PROVE i + 1 \in S
  <2>1. SUFFICES ASSUME i + 1 <= n PROVE Good(i + 1)
    OBVIOUS
  <2>2. i + 1 \in 1..n /\ (i + 1) - 1 = i /\ i <= n  BY <1>1, <2>1
  <2> DEFINE e == journal[i + 1]
             image == f[i]
  <2>3. f[i + 1] = ApplyEvent(image, e)  BY <1>1, <1>2, <2>2, UnfoldsAt
  <2>0. Good(i)
    <3> HIDE DEF Good
    <3> QED  BY <1>4, <2>2
  <2>4. image \in Image /\ e \in DomainEvent
    BY <1>1, <2>0, <2>2
  <2>5. image.ok => image.supervisorDecisions[d] = JournaledRun(journal, d, i)  BY <2>0
  <2>6. JournaledRun(journal, d, i + 1)
          = IF e.type = "SupervisorDecisionRecorded" /\ e.payload = d
            THEN e.aggregateId ELSE JournaledRun(journal, d, i)
    BY <1>1, <2>2, JournaledRunGrows
  <2> HIDE DEF e, image
  <2>7. ApplyEvent(image, e) \in Image  BY <2>4, ApplyEventType
  <2>8. ASSUME ApplyEvent(image, e).ok
        PROVE  /\ image.ok
               /\ ApplyEvent(image, e).supervisorDecisions[d]
                    = IF e.type = "SupervisorDecisionRecorded" /\ e.payload = d
                      THEN e.aggregateId ELSE image.supervisorDecisions[d]
    <3>1. image.ok  BY <2>8 DEF ApplyEvent
    <3>2. CASE e.type = "SupervisorDecisionRecorded"
      BY <2>4, <2>8, <3>1, <3>2, EventKinds DEF ApplyEvent, Image
    <3>3. CASE e.type # "SupervisorDecisionRecorded"
      BY <2>4, <2>8, <3>1, <3>3, EventKinds DEF ApplyEvent, Image
    <3> QED  BY <3>1, <3>2, <3>3
  <2> QED  BY <2>3, <2>5, <2>6, <2>7, <2>8
<1> HIDE DEF S
<1>5. Nat \subseteq S  BY <1>3, <1>4, NatInductionOnSet
<1>6. Good(n)
  <2> HIDE DEF Good
  <2>1. n \in S /\ n <= n  BY <1>1, <1>5
  <2> QED  BY <2>1 DEF S
<1>7. Replay(journal).supervisorDecisions[d] = JournaledRun(journal, d, n)  BY <1>2, <1>6
<1> QED  BY <1>7 DEF n

\* No command forgets a decision.
LEMMA DecisionsStay ==
  ASSUME JournalInv, [Next]_vars, NEW d \in Decisions
  PROVE  /\ supervisorDecisions[d] # NoRun => supervisorDecisions'[d] # NoRun
         /\ \A r \in Runs : supervisorDecisions' = [supervisorDecisions EXCEPT ![d] = r] =>
              supervisorDecisions'[d] # NoRun
<1>1. supervisorDecisions \in [Decisions -> Runs \cup {NoRun}] /\ NoRun \notin Runs
  BY NullsAreDistinct DEF JournalInv, TypeOK
<1>2. \/ supervisorDecisions' = supervisorDecisions
      \/ \E x \in Decisions, r \in Runs : supervisorDecisions' = [supervisorDecisions EXCEPT ![x] = r]
  BY DEF Next, vars, core, SeedIdentity, CreateRun, TransitionRun, RecordSupervisorDecision, CompleteRun,
         StartAgentWork, AppendEvent, AppendStream, AppendIfMissing, PutIdempotency, RepliesFromCache, Throws
<1> QED  BY <1>1, <1>2

-----------------------------------------------------------------------------
\* A process that dies and replays its journal comes back with the runs and the seeds it
\* had and exactly the decisions the journal names, all of them known before, for every
\* journal the commands can write (replay against the maps of the class).
THEOREM ReplayRestoresState == Spec => []StateMatchesReplay
<1> DEFINE Known == \A d \in Decisions : Replay(events).supervisorDecisions[d] # NoRun => supervisorDecisions[d] # NoRun
           Same  == /\ Replay(events).ok
                    /\ Replay(events).runs = runs
                    /\ Replay(events).identitySeeds = identitySeeds
<1>1. Init => Same /\ Known
  BY ReplayOfNothing DEF Init, EmptyImage
<1>2. ASSUME JournalInv, JournalInv', Same, Known, [Next]_vars PROVE Same' /\ Known'
  <2>1. CASE UNCHANGED <<events, runs, identitySeeds>>
    BY <1>2, <2>1, DecisionsStay
  <2>2. CASE KernelStep(Kernel, Kernel', reply')
    <3>1. Kernel \in KernelState  BY <1>2, KernelTyped DEF JournalInv
    <3>2. /\ Kernel'.events = events'
          /\ Kernel'.runs = runs'
          /\ Kernel'.supervisorDecisions = supervisorDecisions'
          /\ Kernel'.identitySeeds = identitySeeds'
      BY KernelAfter, StateFields
    <3>3. Same'
      BY <1>2, <2>2, <3>1, <3>2, KernelFields, StepReplays
    <3>4. ASSUME NEW d \in Decisions, Replay(events').supervisorDecisions[d] # NoRun
          PROVE  supervisorDecisions'[d] # NoRun
      <4>1. \/ Replay(events').supervisorDecisions[d] = Replay(events).supervisorDecisions[d]
            \/ supervisorDecisions'[d] # NoRun
        BY <1>2, <2>2, <3>1, <3>2, <3>4, KernelFields, StepReplays
      <4> QED  BY <1>2, <3>4, <4>1, DecisionsStay
    <3> QED  BY <3>3, <3>4
  <2> QED  BY <1>2, <2>1, <2>2, NextIsStep DEF vars, Refused
<1>3. JournalInv /\ Same /\ Known => StateMatchesReplay
  BY ReplayedDecisions DEF JournalInv, TypeOK, StateMatchesReplay
<1> HIDE DEF Same, Known
<1> QED  BY <1>1, <1>2, <1>3, JournalInvariant, PTL DEF Spec
=============================================================================
