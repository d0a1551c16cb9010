---------------------------- MODULE GatewayProofs ----------------------------
(***************************************************************************)
(* The gateway's handlers, for any requests, runs and numbers of attempts. *)
(* The invariant is about what the handlers still have to do: none of the  *)
(* calls to come writes a run event by append or asks the core for the     *)
(* transition to "completed", each completion to come names a decision of  *)
(* the handler's own run, and an attempt that came after the response was  *)
(* stored is either over or about to read it, and has written nothing.     *)
(***************************************************************************)
EXTENDS GatewayCommands, SequenceProofs, FiniteSetTheorems

-----------------------------------------------------------------------------
(* What a handler may have to do. *)

DecidedFor(log, r) ==
  \E i \in DOMAIN log : log[i].type = "SupervisorDecisionRecorded" /\ log[i].run = r

\* The events that only the core's own routes write.
Reserved == RunEvent \cup {"AgentTaskContractAccepted"}

\* A call to come of a request that asks m.
Fits(c, m, log) ==
  /\ c.op \in {"append", "ifMissing"} => c.type \notin Reserved
  /\ c.op = "ifMissing" => c.type # "ApprovalRequested"
  /\ c.op = "decide" => c.item \in {NoItem, Derived("decision", m.run)}
  /\ c.op \in {"move", "get"} => c.value # "completed"
  /\ c.op = "complete" /\ c.item # NoItem => DecidedFor(log, m.run)

Program(s, m, log) == IsSeq(s) /\ \A i \in DOMAIN s : Fits(s[i], m, log)

\* A call that asks for run r's scope approval, and the call before it that starts the run's planner.
Scope(c, r) == c.op = "append" /\ c.type = "ApprovalRequested" /\ c.item = Derived("approval", r)
Starts(c, r) == c.op = "start" /\ c.item = Derived("planner", r)

\* Calls that go before others, or after: no scope approval is asked for by them.
Before(s) == \A i \in DOMAIN s : \A r : ~ Scope(s[i], r)

\* A scope approval is asked for once, and only after the planner.
Scoped(s) ==
  \A i \in DOMAIN s : \A r : Scope(s[i], r) =>
    /\ \E j \in DOMAIN s : j < i /\ Starts(s[j], r)
    /\ \A k \in DOMAIN s : Scope(s[k], r) => k = i

LEMMA NothingToDo == \A m, log : Program(<<>>, m, log) /\ Before(<<>>)
<1>1. <<>> \in Seq({}) /\ DOMAIN <<>> = {}
  OBVIOUS
<1>2. IsSeq(<<>>)
  BY <1>1, SeqIsSeq
<1> QED  BY <1>1, <1>2, Zenon DEF Program, Before

LEMMA ProgramsConcat ==
  ASSUME NEW m, NEW log, NEW a, NEW b, Program(a, m, log), Program(b, m, log), Before(a)
  PROVE  /\ Program(a \o b, m, log)
         /\ Before(b) => Before(a \o b)
         /\ Scoped(b) => Scoped(a \o b)
         /\ a # <<>> \/ b # <<>> => a \o b # <<>>
         /\ a # <<>> => (a \o b)[1] = a[1]
         /\ a = <<>> => a \o b = b
<1>1. IsSeq(a) /\ IsSeq(b)
  BY DEF Program
<1>2. /\ IsSeq(a \o b) /\ Len(a \o b) = Len(a) + Len(b)
      /\ Len(a) \in Nat /\ Len(b) \in Nat /\ DOMAIN a = 1..Len(a) /\ DOMAIN b = 1..Len(b)
      /\ DOMAIN (a \o b) = 1..(Len(a) + Len(b))
      /\ \A i \in 1..(Len(a) + Len(b)) : (a \o b)[i] = IF i <= Len(a) THEN a[i] ELSE b[i - Len(a)]
  BY <1>1, ConcatIsSeq
<1> DEFINE c == a \o b
<1>3. ASSUME NEW i \in DOMAIN c
      PROVE  \/ i \in DOMAIN a /\ c[i] = a[i]
             \/ i - Len(a) \in DOMAIN b /\ c[i] = b[i - Len(a)] /\ i = Len(a) + (i - Len(a))
  BY <1>2
<1>4. a # <<>> => Len(a) # 0
  BY <1>1 DEF IsSeq
<1>5. b # <<>> => Len(b) # 0
  BY <1>1 DEF IsSeq
<1>6. a = <<>> => c = b
  BY <1>1 DEF IsSeq
<1>7. c = <<>> => Len(c) = 0
  OBVIOUS
<1> HIDE DEF c
<1>8. Program(c, m, log)
  BY <1>2, <1>3 DEF Program, c
<1>9. Before(b) => Before(c)
  BY <1>3 DEF Before
<1>11. a # <<>> \/ b # <<>> => c # <<>>
  BY <1>2, <1>4, <1>5, <1>7 DEF c
<1>12. a # <<>> => c[1] = a[1]
  BY <1>2, <1>4 DEF c
<1>13. ASSUME Scoped(b) PROVE Scoped(c)
  <2> SUFFICES ASSUME NEW i \in DOMAIN c, NEW r, Scope(c[i], r)
               PROVE  /\ \E j \in DOMAIN c : j < i /\ Starts(c[j], r)
                      /\ \A k \in DOMAIN c : Scope(c[k], r) => k = i
    BY DEF Scoped
  <2> DEFINE n == Len(a)
  <2>1. /\ n \in Nat /\ DOMAIN a = 1..n /\ DOMAIN b = 1..Len(b) /\ Len(b) \in Nat /\ DOMAIN c = 1..(n + Len(b))
        /\ \A k \in 1..n : c[k] = a[k]
        /\ \A k \in 1..Len(b) : c[n + k] = b[k]
    BY <1>2 DEF c
  <2>2. \A k \in DOMAIN c : Scope(c[k], r) => k - n \in DOMAIN b /\ c[k] = b[k - n]
    BY <1>3 DEF Before
  <2> HIDE DEF n
  <2>3. i - n \in DOMAIN b /\ Scope(b[i - n], r)
    BY <2>2
  <2>4. PICK j \in DOMAIN b : j < i - n /\ Starts(b[j], r)
    BY <1>13, <2>3 DEF Scoped
  <2>5. n + j \in DOMAIN c /\ n + j < i /\ Starts(c[n + j], r)
    BY <2>1, <2>3, <2>4
  <2>6. ASSUME NEW k \in DOMAIN c, Scope(c[k], r) PROVE k = i
    <3>1. k - n \in DOMAIN b /\ Scope(b[k - n], r)
      BY <2>2, <2>6
    <3>2. k - n = i - n
      BY <1>13, <2>3, <3>1 DEF Scoped
    <3> QED  BY <2>1, <2>6, <3>2
  <2> QED  BY <2>5, <2>6
<1> QED  BY <1>6, <1>8, <1>9, <1>11, <1>12, <1>13 DEF c

\* Calls that ask for no scope approval may also follow those that do.
LEMMA ProgramsFollow ==
  ASSUME NEW m, NEW log, NEW a, NEW b, Program(a, m, log), Program(b, m, log), Scoped(a), Before(b)
  PROVE  Program(a \o b, m, log) /\ Scoped(a \o b) /\ (a # <<>> => a \o b # <<>>)
<1> DEFINE c == a \o b
           n == Len(a)
<1>1. IsSeq(a) /\ IsSeq(b)
  BY DEF Program
<1>2. /\ IsSeq(c) /\ Len(c) = n + Len(b)
      /\ n \in Nat /\ Len(b) \in Nat /\ DOMAIN a = 1..n /\ DOMAIN b = 1..Len(b)
      /\ DOMAIN c = 1..(n + Len(b))
      /\ \A i \in 1..(n + Len(b)) : c[i] = IF i <= n THEN a[i] ELSE b[i - n]
  BY <1>1, ConcatIsSeq
<1>3. a # <<>> => n # 0
  BY <1>1 DEF IsSeq
<1>4. c = <<>> => Len(c) = 0
  OBVIOUS
<1> HIDE DEF c, n
<1>5. \A i \in DOMAIN c : (i \in DOMAIN a /\ c[i] = a[i]) \/ (i - n \in DOMAIN b /\ c[i] = b[i - n])
  BY <1>2
<1>6. Program(c, m, log)
  BY <1>2, <1>5 DEF Program
<1>7. \A i \in DOMAIN c : \A r : Scope(c[i], r) => i \in DOMAIN a /\ c[i] = a[i]
  BY <1>5 DEF Before
<1>8. \A i \in DOMAIN a : i \in DOMAIN c /\ c[i] = a[i]
  BY <1>2
<1>9. Scoped(c)
  BY <1>7, <1>8 DEF Scoped
<1> QED  BY <1>2, <1>3, <1>4, <1>6, <1>9 DEF c

LEMMA ProgramsEnd ==
  ASSUME NEW m, NEW log, NEW s, Program(s, m, log), s # <<>>
  PROVE  Program(Tail(s), m, log) /\ Fits(Head(s), m, log) /\ Head(s) = s[1]
<1>1. /\ IsSeq(Tail(s)) /\ Len(s) \in Nat \ {0} /\ DOMAIN s = 1..Len(s) /\ Len(Tail(s)) = Len(s) - 1
      /\ DOMAIN Tail(s) = 1..(Len(s) - 1) /\ Head(s) = s[1]
      /\ \A i \in 1..(Len(s) - 1) : Tail(s)[i] = s[i + 1]
  BY TailIsSeq DEF Program
<1> DEFINE t == Tail(s)
<1>2. ASSUME NEW i \in DOMAIN t PROVE i + 1 \in DOMAIN s /\ t[i] = s[i + 1]
  BY <1>1
<1> HIDE DEF t
<1>3. Program(t, m, log)
  BY <1>1, <1>2 DEF Program, t
<1>4. Fits(s[1], m, log)
  BY <1>1 DEF Program
<1> QED  BY <1>1, <1>3, <1>4 DEF t

\* The journal only grows, so what was decided stays decided.
LEMMA ProgramsStay ==
  ASSUME NEW m, NEW log, NEW s, Program(s, m, log), IsSeq(log), NEW e
  PROVE  Program(s, m, Append(log, e))
<1>1. \A r : DecidedFor(log, r) => DecidedFor(Append(log, e), r)
  BY AppendIsSeq DEF DecidedFor
<1> HIDE DEF DecidedFor
<1> QED  BY <1>1 DEF Program, Fits

-----------------------------------------------------------------------------
(* The routes' handlers. *)

\* A call that any handler may make.
Good(c, m, log) == Fits(c, m, log) /\ \A r : ~ Scope(c, r)

LEMMA GoodCalls ==
  ASSUME NEW m, NEW log
  PROVE  /\ \A op : op \notin {"append", "ifMissing", "move", "get", "complete", "decide"} => Good(Read(op), m, log)
         /\ \A type, item, value : type \notin Reserved \cup {"ApprovalRequested"} => Good(AppendCall(type, item, value), m, log)
         /\ \A id, value : Good(AppendCall("ApprovalRequested", Derived("approval_hunk", id), value), m, log)
         /\ \A next : next # "completed" => Good(GetFor(next), m, log)
         /\ \A to : to # "completed" => Good(Move(to), m, log)
         /\ \A c, type, value : Good(Call("start", type, c, value), m, log)
         /\ \A type, value : \A d \in {NoItem, Derived("decision", m.run)} : Good(Call("decide", type, d, value), m, log)
         /\ \A d, type, value : DecidedFor(log, m.run) \/ d = NoItem => Good(Call("complete", type, d, value), m, log)
<1>1. \A op, type, item, value : op \notin {"append", "ifMissing", "move", "get", "complete", "decide"} =>
        Good(Call(op, type, item, value), m, log)
  BY DEF Good, Fits, Scope, Call
<1>2. \A type, item, value : type \notin Reserved /\ (\A r : type = "ApprovalRequested" => item # Derived("approval", r)) =>
        Good(AppendCall(type, item, value), m, log)
  BY DEF Good, Fits, Scope, AppendCall, Call
<1>3. \A op, type, item, value : op \in {"move", "get"} /\ value # "completed" => Good(Call(op, type, item, value), m, log)
  BY DEF Good, Fits, Scope, Call
<1>4. \A d, type, value : DecidedFor(log, m.run) \/ d = NoItem => Good(Call("complete", type, d, value), m, log)
  BY DEF Good, Fits, Scope, Call
<1>10. \A type, value : \A d \in {NoItem, Derived("decision", m.run)} : Good(Call("decide", type, d, value), m, log)
  BY DEF Good, Fits, Scope, Call
<1>5. "ApprovalRequested" \notin Reserved
  BY DEF Reserved, RunEvent
<1>6. \A id, r : Derived("approval_hunk", id) # Derived("approval", r)
  BY DEF Derived
<1> HIDE DEF Good
<1>7. \A type, item, value : type \notin Reserved \cup {"ApprovalRequested"} => Good(AppendCall(type, item, value), m, log)
  BY <1>2
<1>8. \A id, value : Good(AppendCall("ApprovalRequested", Derived("approval_hunk", id), value), m, log)
  BY <1>2, <1>5, <1>6
<1>9. \A next : next # "completed" => Good(GetFor(next), m, log) /\ Good(Move(next), m, log)
  BY <1>3 DEF GetFor, Move
<1> QED  BY <1>1, <1>4, <1>7, <1>8, <1>9, <1>10 DEF Read

LEMMA GoodPrograms ==
  ASSUME NEW m, NEW log, NEW s, IsSeq(s), \A i \in DOMAIN s : Good(s[i], m, log)
  PROVE  Program(s, m, log) /\ Before(s)
BY DEF Good, Program, Before

LEMMA PathIsGood == \A m, log : Program(transitionRunPath, m, log) /\ Before(transitionRunPath)
<1> SUFFICES ASSUME NEW m, NEW log PROVE Program(transitionRunPath, m, log) /\ Before(transitionRunPath)
  OBVIOUS
<1> DEFINE path == <<"queued", "planning", "planned", "assigning", "preparing_workspace",
                     "binding_app_server", "running">>
<1>1. DOMAIN path = 1..7 /\ \A i \in 1..7 : path[i] # "completed"
  OBVIOUS
<1> HIDE DEF path
<1>2. transitionRunPath = [i \in 1..7 |-> GetFor(path[i])]
  BY <1>1 DEF transitionRunPath, path
<1>4. \A i \in 1..7 : Good(GetFor(path[i]), m, log)
  BY <1>1, GoodCalls
<1>5. transitionRunPath \in Seq({GetFor(path[i]) : i \in 1..7}) /\ DOMAIN transitionRunPath = 1..7
  BY <1>2
<1>6. IsSeq(transitionRunPath)
  BY <1>5, SeqIsSeq
<1> QED  BY <1>2, <1>4, <1>5, <1>6, GoodPrograms

LEMMA SurfaceIsGood ==
  ASSUME NEW m, NEW log, NEW r, r = m.run
  PROVE  Program(seedAgentControlSurface(r), m, log) /\ Scoped(seedAgentControlSurface(r))
<1> DEFINE c1 == Call("start", "", Derived("planner", r), NoItem)
           c2 == Call("start", "", Derived("builder", r), NoItem)
           c3 == Call("start", "", Derived("verifier", r), NoItem)
           c4 == AppendCall("CommandQueued", Derived("initial", r), "ready")
           c5 == AppendCall("ApprovalRequested", Derived("approval", r), NoItem)
           c6 == AppendCall("NotificationRaised", Derived("notification", r), NoItem)
           c7 == AppendCall("ConflictDetected", Derived("conflict", r), "detected")
           c8 == AppendCall("RecoveryQueued", Derived("recovery", r), "ready_to_retry")
           c9 == AppendCall("DiffUpdated", Derived("diff", r), "pending")
           c10 == AppendCall("FinalReviewGateChanged", NoItem, "not_ready")
           c11 == Call("decide", "", Derived("decision", r), NoItem)
           s == seedAgentControlSurface(r)
<1>1. s = <<c1, c2, c3, c4, c5, c6, c7, c8, c9, c10, c11>>
  BY DEF seedAgentControlSurface
<1>2. Good(c1, m, log) /\ Good(c2, m, log) /\ Good(c3, m, log) /\ Good(c11, m, log)
  BY GoodCalls
<1>3. /\ Good(c4, m, log) /\ Good(c6, m, log) /\ Good(c7, m, log) /\ Good(c8, m, log) /\ Good(c9, m, log) /\ Good(c10, m, log)
  BY GoodCalls DEF Reserved, RunEvent
<1>4. Fits(c5, m, log) /\ \A t : Scope(c5, t) => t = r
  BY DEF Fits, Reserved, RunEvent, AppendCall, Call, Scope, Derived
<1>5. Starts(c1, r)
  BY DEF Starts, Call
<1> HIDE DEF c1, c2, c3, c4, c5, c6, c7, c8, c9, c10, c11, s
<1>6. IsSeq(s) /\ DOMAIN s = 1..11 /\ s[1] = c1 /\ s[5] = c5 /\ \A i \in 1..11 : i # 5 => Good(s[i], m, log)
  BY <1>1, <1>2, <1>3 DEF IsSeq, ToSet
<1>7. Program(s, m, log)
  BY <1>4, <1>6 DEF Good, Program
<1>8. Scoped(s)
  <2>1. \A i \in DOMAIN s : \A t : Scope(s[i], t) => i = 5 /\ t = r
    BY <1>4, <1>6 DEF Good
  <2>2. 1 \in DOMAIN s /\ Starts(s[1], r)
    BY <1>5, <1>6
  <2> QED  BY <2>1, <2>2 DEF Scoped
<1> QED  BY <1>7, <1>8 DEF s

LEMMA OneCall ==
  ASSUME NEW m, NEW log, NEW a, Good(a, m, log)
  PROVE  Program(<<a>>, m, log) /\ Before(<<a>>)
<1>1. IsSeq(<<a>>) /\ \A i \in DOMAIN <<a>> : Good((<<a>>)[i], m, log)
  BY DEF IsSeq, ToSet
<1> QED  BY <1>1, GoodPrograms

LEMMA TwoCalls ==
  ASSUME NEW m, NEW log, NEW a, NEW b, Good(a, m, log), Good(b, m, log)
  PROVE  Program(<<a, b>>, m, log) /\ Before(<<a, b>>)
<1>1. IsSeq(<<a, b>>) /\ \A i \in DOMAIN <<a, b>> : Good((<<a, b>>)[i], m, log)
  BY DEF IsSeq, ToSet
<1> QED  BY <1>1, GoodPrograms

LEMMA ThreeCalls ==
  ASSUME NEW m, NEW log, NEW a, NEW b, NEW c, Good(a, m, log), Good(b, m, log), Good(c, m, log)
  PROVE  Program(<<a, b, c>>, m, log) /\ Before(<<a, b, c>>)
<1>1. IsSeq(<<a, b, c>>) /\ \A i \in DOMAIN <<a, b, c>> : Good((<<a, b, c>>)[i], m, log)
  BY DEF IsSeq, ToSet
<1> QED  BY <1>1, GoodPrograms

LEMMA FourCalls ==
  ASSUME NEW m, NEW log, NEW a, NEW b, NEW c, NEW d,
         Good(a, m, log), Good(b, m, log), Good(c, m, log), Good(d, m, log)
  PROVE  Program(<<a, b, c, d>>, m, log) /\ Before(<<a, b, c, d>>)
<1>1. IsSeq(<<a, b, c, d>>) /\ \A i \in DOMAIN <<a, b, c, d>> : Good((<<a, b, c, d>>)[i], m, log)
  BY DEF IsSeq, ToSet
<1> QED  BY <1>1, GoodPrograms

\* The handlers that run under withIdempotency, before it.
LEMMA HandlersAreGood ==
  ASSUME NEW m, NEW log
  PROVE  /\ Program(enqueueCommand(m), m, log) /\ Before(enqueueCommand(m))
         /\ Program(decideApproval(m), m, log) /\ Before(decideApproval(m))
         /\ Program(controlSupervisor(m), m, log) /\ Before(controlSupervisor(m))
         /\ Program(escalateConflict(m), m, log) /\ Before(escalateConflict(m))
         /\ Program(changeEditorSession(m), m, log) /\ Before(changeEditorSession(m))
         /\ Program(decideFinalReview(m), m, log) /\ Before(decideFinalReview(m))
         /\ Program(decideHunk(m), m, log) /\ Before(decideHunk(m))
         /\ Program(registerMobilePush(m), m, log) /\ Before(registerMobilePush(m))
         /\ Program(markNotificationRead(m), m, log) /\ Before(markNotificationRead(m))
         /\ Program(writeFile(m), m, log) /\ Before(writeFile(m))
<1>1. \A type \in {"CommandQueued", "TerminalOutputAppended", "ArtifactCreated", "ApprovalDecided",
                   "SupervisorControlActionRecorded", "ConflictEscalated", "EditorSessionChanged",
                   "FinalReviewGateChanged", "MobileNotificationChanged", "NotificationRaised", "NotificationRead",
                   "WorkspaceFileWritten", "DiffUpdated", "RunObjectiveUpdated"} : \A item, value :
        Good(AppendCall(type, item, value), m, log)
  BY GoodCalls DEF Reserved, RunEvent
<1>2. \A op \in {"latest", "getLatest", "recovery", "hunk", "seeded", "create"} : Good(Read(op), m, log)
  BY GoodCalls
<1>3. Good(GetFor("decide"), m, log) /\ Good(GetFor("integrating"), m, log)
  BY GoodCalls
<1>4. Program(enqueueCommand(m), m, log) /\ Before(enqueueCommand(m))
  <2> DEFINE a == <<AppendCall("CommandQueued", m.item, m.choice), AppendCall("TerminalOutputAppended", NoItem, NoItem)>>
             b == IF m.choice = "test" THEN <<AppendCall("ArtifactCreated", m.item, NoItem)>> ELSE <<>>
  <2>1. Program(a, m, log) /\ Before(a)
    BY <1>1, TwoCalls
  <2>2. Program(b, m, log) /\ Before(b)
    <3>1. Program(<<AppendCall("ArtifactCreated", m.item, NoItem)>>, m, log)
          /\ Before(<<AppendCall("ArtifactCreated", m.item, NoItem)>>)
      BY <1>1, OneCall
    <3>2. Program(<<>>, m, log) /\ Before(<<>>)
      BY NothingToDo
    <3> QED  BY <3>1, <3>2
  <2>3. enqueueCommand(m) = a \o b
    BY DEF enqueueCommand
  <2> HIDE DEF a, b
  <2> QED  BY <2>1, <2>2, <2>3, ProgramsConcat
<1>5. Program(decideApproval(m), m, log) /\ Before(decideApproval(m))
  BY <1>1, <1>2, FourCalls DEF decideApproval
<1>6. Program(controlSupervisor(m), m, log) /\ Before(controlSupervisor(m))
  BY <1>1, <1>2, <1>3, ThreeCalls DEF controlSupervisor
<1>7. Program(escalateConflict(m), m, log) /\ Before(escalateConflict(m))
  BY <1>1, <1>2, TwoCalls DEF escalateConflict
<1>8. Program(changeEditorSession(m), m, log) /\ Before(changeEditorSession(m))
  BY <1>1, OneCall DEF changeEditorSession
<1>9. Program(decideFinalReview(m), m, log) /\ Before(decideFinalReview(m))
  BY <1>1, <1>3, TwoCalls DEF decideFinalReview
<1>10. Program(decideHunk(m), m, log) /\ Before(decideHunk(m))
  <2> DEFINE approval == Derived("approval_hunk", m.item)
             a == <<Read("hunk"), Read("latest"), AppendCall("ApprovalRequested", approval, NoItem)>>
             b == <<Read("latest"), AppendCall("ApprovalDecided", approval, m.choice), Read("latest"),
                    AppendCall("TerminalOutputAppended", NoItem, NoItem)>>
  <2>1. Program(a, m, log) /\ Before(a)
    BY <1>2, GoodCalls, ThreeCalls
  <2>2. Program(b, m, log) /\ Before(b)
    BY <1>1, <1>2, FourCalls
  <2>3. decideHunk(m) = a \o b
    BY DEF decideHunk
  <2> HIDE DEF a, b
  <2> QED  BY <2>1, <2>2, <2>3, ProgramsConcat
<1>11. Program(registerMobilePush(m), m, log) /\ Before(registerMobilePush(m))
  BY <1>1, TwoCalls DEF registerMobilePush
<1>12. Program(markNotificationRead(m), m, log) /\ Before(markNotificationRead(m))
  BY <1>1, OneCall DEF markNotificationRead
<1>13. Program(writeFile(m), m, log) /\ Before(writeFile(m))
  BY <1>1, <1>2, ThreeCalls DEF writeFile
<1> QED  BY <1>4, <1>5, <1>6, <1>7, <1>8, <1>9, <1>10, <1>11, <1>12, <1>13, Zenon

LEMMA CreationIsGood ==
  ASSUME NEW m, NEW log
  PROVE  Program(createRun(m), m, log) /\ Scoped(createRun(m)) /\ createRun(m) # <<>>
<1> DEFINE a == <<Read("seeded"), Read("create"), AppendCall("RunObjectiveUpdated", NoItem, NoItem)>>
           b == transitionRunPath
           c == seedAgentControlSurface(m.run)
           d == <<GetFor(NoItem)>>
<1>1. Program(a, m, log) /\ Before(a) /\ a # <<>>
  <2>1. Good(Read("seeded"), m, log) /\ Good(Read("create"), m, log) /\ Good(AppendCall("RunObjectiveUpdated", NoItem, NoItem), m, log)
    BY GoodCalls DEF Reserved, RunEvent
  <2> QED  BY <2>1, ThreeCalls
<1>2. Program(b, m, log) /\ Before(b)
  BY PathIsGood
<1>3. Program(c, m, log) /\ Scoped(c)
  BY SurfaceIsGood
<1>4. Program(d, m, log) /\ Before(d)
  <2>1. NoItem # "completed"
    BY NothingIsNone DEF RunState
  <2>2. Good(GetFor(NoItem), m, log)
    BY <2>1, GoodCalls
  <2> QED  BY <2>2, OneCall
<1>5. createRun(m) = ((a \o b) \o c) \o d
  BY DEF createRun
<1> HIDE DEF a, b, c, d
<1>6. Program(a \o b, m, log) /\ Before(a \o b) /\ a \o b # <<>>
  BY <1>1, <1>2, ProgramsConcat
<1>7. Program((a \o b) \o c, m, log) /\ Scoped((a \o b) \o c) /\ (a \o b) \o c # <<>>
  BY <1>3, <1>6, ProgramsConcat
<1> QED  BY <1>4, <1>5, <1>7, ProgramsFollow

LEMMA IdempotentIsGood ==
  ASSUME NEW m, NEW log, NEW calls, Program(calls, m, log), Before(calls), m.kind \in Idempotent
  PROVE  LET s == withIdempotency(calls)
         IN  Program(s, m, log) /\ Scoped(s) /\ s # <<>> /\ s[1].op = "key"
<1> DEFINE a == <<Read("key")>>
           b == <<Read("put")>>
<1>1. Program(a, m, log) /\ Before(a) /\ a # <<>> /\ a[1].op = "key"
  <2>1. Good(Read("key"), m, log) /\ Read("key").op = "key"
    BY GoodCalls DEF Read, Call
  <2> QED  BY <2>1, OneCall
<1>2. Program(b, m, log) /\ Scoped(b)
  <2>1. Good(Read("put"), m, log)
    BY GoodCalls
  <2>2. Program(b, m, log) /\ Before(b)
    BY <2>1, OneCall
  <2> QED  BY <2>2 DEF Before, Scoped
<1>3. withIdempotency(calls) = (a \o calls) \o b
  BY DEF withIdempotency
<1> HIDE DEF a, b
<1>4. Program(a \o calls, m, log) /\ Before(a \o calls) /\ a \o calls # <<>> /\ (a \o calls)[1].op = "key"
  BY <1>1, ProgramsConcat
<1>5. LET s == (a \o calls) \o b IN Program(s, m, log) /\ Scoped(s) /\ s # <<>> /\ s[1].op = "key"
  BY <1>2, <1>4, ProgramsConcat
<1> QED  BY <1>3, <1>5

LEMMA CallsAreGood ==
  ASSUME NEW m, m.kind \in Asking, NEW log
  PROVE  /\ Program(Calls(m), m, log) /\ Scoped(Calls(m)) /\ Calls(m) # <<>>
         /\ m.kind \in Idempotent => Calls(m)[1].op = "key"
<1> DEFINE Right(s) == Program(s, m, log) /\ Scoped(s) /\ s # <<>> /\ (m.kind \in Idempotent => s[1].op = "key")
<1>1. m.kind = "createRun" => Right(createRun(m)) /\ Calls(m) = createRun(m)
  BY CreationIsGood DEF Calls, Idempotent
<1>2. m.kind = "writeFile" => Right(writeFile(m)) /\ Calls(m) = writeFile(m)
  <2>1. writeFile(m) # <<>>
    BY DEF writeFile
  <2> QED  BY <2>1, HandlersAreGood DEF Calls, Before, Scoped, Idempotent
<1>3. \A s : m.kind \in Idempotent /\ Program(s, m, log) /\ Before(s) => Right(withIdempotency(s))
  BY IdempotentIsGood
<1>4. m.kind \in Idempotent => \E s : Program(s, m, log) /\ Before(s) /\ Calls(m) = withIdempotency(s)
  BY HandlersAreGood DEF Calls, Idempotent
<1>5. m.kind \in Asking => m.kind \in Idempotent \/ m.kind = "createRun" \/ m.kind = "writeFile"
  BY DEF Asking
<1> QED  BY <1>1, <1>2, <1>3, <1>4, <1>5

LEMMA AfterGetIsGood ==
  ASSUME NEW m, NEW log, NEW purpose, NEW run, purpose # "completed",
         run # NoRun /\ run.supervisorDecisionId # NoItem => DecidedFor(log, m.run)
  PROVE  Program(AfterGet(m, purpose, run), m, log) /\ Before(AfterGet(m, purpose, run))
<1> DEFINE Fine(s) == Program(s, m, log) /\ Before(s)
<1>1. Fine(<<>>)
  BY NothingToDo
<1>2. \A to : to # "completed" => Fine(MoveIfListed(run, to))
  <2>1. \A to : to # "completed" => Fine(<<Move(to)>>)
    BY GoodCalls, OneCall
  <2> QED  BY <1>1, <2>1 DEF MoveIfListed
<1>3. Fine(<<Call("decide", "", NoItem, NoItem), GetFor("act")>>)
  <2>1. Good(Call("decide", "", NoItem, NoItem), m, log) /\ Good(GetFor("act"), m, log)
    BY GoodCalls
  <2> QED  BY <2>1, TwoCalls
<1>4. Fine(<<Move("integrating"), GetFor("complete")>>)
  <2>1. Good(Move("integrating"), m, log) /\ Good(GetFor("complete"), m, log)
    BY GoodCalls
  <2> QED  BY <2>1, TwoCalls
<1>5. run # NoRun => Fine(<<Call("complete", "", run.supervisorDecisionId, NoItem)>>)
  BY GoodCalls, OneCall
<1>6. nextByAction(m.choice, run.state) # "completed"
  <2>1. NoItem # "completed"
    BY NothingIsNone DEF RunState
  <2> QED  BY <2>1 DEF nextByAction
<1> HIDE DEF Fine
<1>7. CASE run = NoRun
  BY <1>1, <1>2, <1>3, <1>4, <1>5, <1>6, <1>7 DEF AfterGet, Fine
<1>8. CASE run # NoRun
  <2> DEFINE s == AfterGet(m, purpose, run)
  <2>1. \/ s = <<>> \/ s = MoveIfListed(run, purpose)
        \/ s = <<Call("decide", "", NoItem, NoItem), GetFor("act")>>
        \/ s = MoveIfListed(run, nextByAction(m.choice, run.state))
        \/ s = <<Move("integrating"), GetFor("complete")>>
        \/ s = <<Call("complete", "", run.supervisorDecisionId, NoItem)>>
    BY <1>8 DEF AfterGet
  <2> HIDE DEF s
  <2>2. Fine(s)
    BY <1>1, <1>2, <1>3, <1>4, <1>5, <1>6, <1>8, <2>1
  <2> QED  BY <2>2 DEF s, Fine
<1> QED  BY <1>7, <1>8

-----------------------------------------------------------------------------
(* The invariant. *)

\* The core's transition route lets anyone complete a run that is integrating; what is said about
\* completions is said of agents that do not ask for it.
AgentsDoNotComplete == \A r \in Runs : "completed" \notin AgentMoves[r]

CompletedIn(log) ==
  \A i \in DOMAIN log : (log[i].type = "RunStateChanged" /\ log[i].value = "completed") =>
    \E j \in 1..(i - 1) : log[j].type = "SupervisorDecisionRecorded" /\ log[j].run = log[i].run

JournalInv(log) ==
  /\ IsSeq(log)
  /\ \A i \in DOMAIN log : log[i].run \in Runs \cup {NoRun} /\ log[i].by \in Requests \cup {NoItem}
  /\ AgentsDoNotComplete => CompletedIn(log)

RunInv(r, x, log) ==
  x # NoRun =>
    /\ DOMAIN x = {"state", "supervisorDecisionId"}
    /\ x.state \in RunState
    /\ x.supervisorDecisionId \in DecisionIds
    /\ x.supervisorDecisionId # NoItem => DecidedFor(log, r)

\* An attempt that came after the response was stored, of a handler that asks for it.
Held(x) == x.late /\ x.asks.kind \in Idempotent

Silent(q, log) == \A i \in DOMAIN log : log[i].by # q

\* What the attempt q has come to, x, with its key's response stored or not.
RequestInv(q, x, stored, log) ==
  /\ DOMAIN x = {"asks", "todo", "latest", "status", "late"}
  /\ x.status \in RequestStatus
  /\ x.status = "running" <=> x.todo # <<>>
  /\ x.late \in BOOLEAN
  /\ x.late => stored
  /\ x.latest \in Runs \cup {NoRun}
  /\ x.status # "idle" => x.asks \in Menu[KeyOf(q)]
  /\ Program(x.todo, x.asks, log)
  /\ Held(x) /\ x.todo # <<>> => x.todo[1].op = "key"
  /\ x.status = "idle" \/ Held(x) => Silent(q, log)

GatewayInv ==
  /\ JournalInv(journal)
  /\ runs = [r \in Runs |-> runs[r]]
  /\ \A r \in Runs : RunInv(r, runs[r], journal)
  /\ responses \in [Keys -> BOOLEAN]
  /\ requests = [q \in Requests |-> requests[q]]
  /\ \A q \in Requests : RequestInv(q, requests[q], responses[KeyOf(q)], journal)

LEMMA KeysOfRequests ==
  ASSUME NEW q \in Requests
  PROVE  KeyOf(q) \in Keys /\ q[2] \in Nat
BY AttemptsAreNumbers DEF Requests, KeyOf

\* Responses are stored and never lost.
Kept(before, after) == after \in [Keys -> BOOLEAN] /\ \A k \in Keys : before[k] => after[k]

-----------------------------------------------------------------------------
(* What a request becomes. *)

OnWith(x, todo, latest) ==
  [x EXCEPT !.todo = todo, !.latest = latest, !.status = IF todo = <<>> THEN "answered" ELSE "running"]

Over(x, status) == [x EXCEPT !.todo = <<>>, !.status = status]

\* Its handler goes on.
LEMMA WentOn ==
  ASSUME NEW q, NEW x, NEW stored, NEW log, RequestInv(q, x, stored, log), x.status = "running", ~ Held(x),
         NEW more, Program(more, x.asks, log), Before(more), NEW latest \in Runs \cup {NoRun}
  PROVE  RequestInv(q, OnWith(x, more \o Tail(x.todo), latest), stored, log)
<1> DEFINE todo == more \o Tail(x.todo)
           y == OnWith(x, todo, latest)
<1>1. /\ x.todo # <<>> /\ Program(x.todo, x.asks, log) /\ x.asks \in Menu[KeyOf(q)]
      /\ x.late \in BOOLEAN /\ (x.late => stored)
  BY DEF RequestInv
<1>2. Program(todo, x.asks, log)
  BY <1>1, ProgramsEnd, ProgramsConcat
<1> HIDE DEF todo
<1>3. /\ DOMAIN y = {"asks", "todo", "latest", "status", "late"}
      /\ y.asks = x.asks /\ y.todo = todo /\ y.latest = latest /\ y.late = x.late
      /\ y.status = IF todo = <<>> THEN "answered" ELSE "running"
  BY DEF RequestInv, OnWith
<1> HIDE DEF y
<1>4. y.status \in RequestStatus /\ y.status # "idle" /\ (y.status = "running" <=> todo # <<>>)
  BY <1>3 DEF RequestStatus
<1>5. ~ Held(y)
  BY <1>3 DEF Held
<1>6. RequestInv(q, y, stored, log)
  BY <1>1, <1>2, <1>3, <1>4, <1>5 DEF RequestInv
<1> QED  BY <1>6 DEF y, todo

\* It ends, answered or not.
LEMMA Ended ==
  ASSUME NEW q, NEW x, NEW stored, NEW log, RequestInv(q, x, stored, log), x.status = "running",
         NEW status \in {"answered", "failed"}
  PROVE  RequestInv(q, Over(x, status), stored, log)
<1> DEFINE y == Over(x, status)
<1>1. /\ x.asks \in Menu[KeyOf(q)] /\ x.latest \in Runs \cup {NoRun} /\ x.late \in BOOLEAN /\ (x.late => stored)
      /\ Held(x) => Silent(q, log)
  BY DEF RequestInv
<1>2. /\ DOMAIN y = {"asks", "todo", "latest", "status", "late"}
      /\ y.asks = x.asks /\ y.todo = <<>> /\ y.latest = x.latest /\ y.late = x.late /\ y.status = status
  BY DEF RequestInv, Over
<1> HIDE DEF y
<1>3. y.status \in RequestStatus /\ y.status # "idle" /\ y.status # "running" /\ (Held(y) => Held(x))
  BY <1>2 DEF RequestStatus, Held
<1>4. Program(y.todo, y.asks, log)
  BY <1>2, NothingToDo
<1>5. RequestInv(q, y, stored, log)
  BY <1>1, <1>2, <1>3, <1>4 DEF RequestInv
<1> QED  BY <1>5 DEF y

\* Events of others, or of an attempt that is running unheld, leave it as it is.
LEMMA RequestsStay ==
  ASSUME NEW q, NEW x, NEW stored, NEW log, IsSeq(log), RequestInv(q, x, stored, log), NEW e,
         e.by = q => x.status = "running" /\ ~ Held(x)
  PROVE  RequestInv(q, x, stored, Append(log, e))
<1>1. Program(x.todo, x.asks, log)
  BY DEF RequestInv
<1>2. Program(x.todo, x.asks, Append(log, e))
  BY <1>1, ProgramsStay
<1>3. e.by # q /\ Silent(q, log) => Silent(q, Append(log, e))
  BY AppendIsSeq DEF Silent
<1> HIDE DEF Held, Silent
<1> QED  BY <1>2, <1>3 DEF RequestInv

\* So do responses that are stored meanwhile.
LEMMA StoredLater ==
  ASSUME NEW q, NEW x, NEW was, NEW stored, NEW log, RequestInv(q, x, was, log), was => stored
  PROVE  RequestInv(q, x, stored, log)
BY DEF RequestInv

LEMMA RunsStay ==
  ASSUME NEW r, NEW x, NEW log, IsSeq(log), RunInv(r, x, log), NEW e
  PROVE  RunInv(r, x, Append(log, e))
<1>1. DecidedFor(log, r) => DecidedFor(Append(log, e), r)
  BY AppendIsSeq DEF DecidedFor
<1> QED  BY <1>1 DEF RunInv

LEMMA JournalGrows ==
  ASSUME NEW log, JournalInv(log), NEW e, e.run \in Runs \cup {NoRun}, e.by \in Requests \cup {NoItem},
         AgentsDoNotComplete /\ e.type = "RunStateChanged" /\ e.value = "completed" => DecidedFor(log, e.run)
  PROVE  JournalInv(Append(log, e))
<1> DEFINE after == Append(log, e)
           n == Len(log)
<1>1. /\ IsSeq(after) /\ DOMAIN after = 1..(n + 1) /\ n \in Nat /\ DOMAIN log = 1..n
      /\ after[n + 1] = e /\ \A i \in DOMAIN log : after[i] = log[i]
  BY AppendIsSeq DEF JournalInv
<1>2. \A i \in DOMAIN after : i \in DOMAIN log \/ i = n + 1
  BY <1>1
<1> HIDE DEF after, n
<1>3. ASSUME NEW i \in DOMAIN after PROVE after[i].run \in Runs \cup {NoRun} /\ after[i].by \in Requests \cup {NoItem}
  BY <1>1, <1>2 DEF JournalInv
<1>4. ASSUME AgentsDoNotComplete, NEW i \in DOMAIN after, after[i].type = "RunStateChanged", after[i].value = "completed"
      PROVE  \E j \in 1..(i - 1) : after[j].type = "SupervisorDecisionRecorded" /\ after[j].run = after[i].run
  <2>1. CASE i \in DOMAIN log
    <3>1. PICK j \in 1..(i - 1) : log[j].type = "SupervisorDecisionRecorded" /\ log[j].run = log[i].run
      BY <1>1, <1>4, <2>1 DEF JournalInv, CompletedIn
    <3>2. j \in DOMAIN log
      BY <1>1, <2>1
    <3> QED  BY <1>1, <2>1, <3>1, <3>2
  <2>2. CASE i = n + 1
    <3>1. PICK j \in DOMAIN log : log[j].type = "SupervisorDecisionRecorded" /\ log[j].run = e.run
      BY <1>1, <1>4, <2>2 DEF DecidedFor
    <3>2. j \in 1..(i - 1)
      BY <1>1, <2>2
    <3> QED  BY <1>1, <2>2, <3>1, <3>2
  <2> QED  BY <1>2, <2>1, <2>2
<1>5. JournalInv(after)
  BY <1>1, <1>3, <1>4 DEF JournalInv, CompletedIn
<1> QED  BY <1>5 DEF after

-----------------------------------------------------------------------------
(* Steps. *)

\* A step of one request, which writes in its own name only.
LEMMA StepOf ==
  ASSUME GatewayInv, NEW q \in Requests, NEW y, requests' = [requests EXCEPT ![q] = y],
         RequestInv(q, y, responses'[KeyOf(q)], journal'), Kept(responses, responses'),
         runs' = [r \in Runs |-> runs'[r]], \A r \in Runs : RunInv(r, runs'[r], journal'),
         JournalInv(journal'), journal' = journal \/ \E e : e.by = q /\ journal' = Append(journal, e)
  PROVE  GatewayInv'
<1>1. /\ requests' = [p \in Requests |-> requests'[p]] /\ requests'[q] = y
      /\ \A p \in Requests \ {q} : requests'[p] = requests[p]
  BY DEF GatewayInv
<1>2. ASSUME NEW p \in Requests PROVE RequestInv(p, requests'[p], responses'[KeyOf(p)], journal')
  <2>1. CASE p = q
    BY <1>1, <2>1
  <2>2. CASE p # q
    <3>1. RequestInv(p, requests[p], responses[KeyOf(p)], journal) /\ IsSeq(journal)
      BY DEF GatewayInv, JournalInv
    <3>2. requests'[p] = requests[p] /\ (responses[KeyOf(p)] => responses'[KeyOf(p)])
      BY <1>1, <2>2, KeysOfRequests DEF Kept
    <3> HIDE DEF RequestInv
    <3>3. RequestInv(p, requests[p], responses[KeyOf(p)], journal')
      <4>1. CASE journal' = journal
        BY <3>1, <4>1
      <4>2. ASSUME NEW e, e.by = q, journal' = Append(journal, e)
            PROVE  RequestInv(p, requests[p], responses[KeyOf(p)], journal')
        BY <2>2, <3>1, <4>2, RequestsStay
      <4> QED  BY <4>1, <4>2
    <3>4. RequestInv(p, requests[p], responses'[KeyOf(p)], journal')
      BY <3>2, <3>3, StoredLater
    <3> QED  BY <3>2, <3>4
  <2> QED  BY <2>1, <2>2
<1> HIDE DEF RequestInv, RunInv, JournalInv
<1> QED  BY <1>1, <1>2 DEF GatewayInv, Kept

LEMMA WhenRunning ==
  ASSUME GatewayInv, NEW q \in Requests, requests[q].status = "running"
  PROVE  /\ RequestInv(q, requests[q], responses[KeyOf(q)], journal)
         /\ requests[q].todo # <<>> /\ Fits(Next1(q), Asked(q), journal)
         /\ Program(Tail(requests[q].todo), Asked(q), journal)
         /\ Held(requests[q]) => Next1(q).op = "key"
         /\ requests[q].latest \in Runs \cup {NoRun}
         /\ Asked(q) \in Menu[KeyOf(q)] /\ Asked(q).run \in Runs \cup {NoRun}
<1>1. RequestInv(q, requests[q], responses[KeyOf(q)], journal)
  BY DEF GatewayInv
<1>2. /\ requests[q].todo # <<>> /\ Program(requests[q].todo, requests[q].asks, journal)
      /\ requests[q].asks \in Menu[KeyOf(q)] /\ requests[q].latest \in Runs \cup {NoRun}
      /\ Held(requests[q]) => requests[q].todo[1].op = "key"
  BY <1>1 DEF RequestInv
<1>3. /\ Fits(Head(requests[q].todo), requests[q].asks, journal) /\ Head(requests[q].todo) = requests[q].todo[1]
      /\ Program(Tail(requests[q].todo), requests[q].asks, journal)
  BY <1>2, ProgramsEnd
<1>4. requests[q].asks.run \in Runs \cup {NoRun}
  BY <1>2, KeysOfRequests, MenusAreRoutes
<1> QED  BY <1>1, <1>2, <1>3, <1>4 DEF Next1, Asked

\* The answer of a call sends the handler on, or is lost.
LEMMA Goes ==
  ASSUME NEW x, NEW q, requests[q] = x, q \in Requests, NEW more, NEW latest, GoesOnWith(q, more, latest), GatewayInv
  PROVE  \/ requests' = [requests EXCEPT ![q] = OnWith(x, more \o Tail(x.todo), latest)]
         \/ requests' = [requests EXCEPT ![q] = Over(x, "failed")]
BY DEF GoesOnWith, GatewayInv, OnWith, Over

\* A call that changes the core's journal, runs and responses, or nothing, and whose handler goes on.
LEMMA CallDone ==
  ASSUME GatewayInv, NEW q \in Requests, requests[q].status = "running", ~ Held(requests[q]),
         NEW more, NEW latest \in Runs \cup {NoRun}, GoesOnWith(q, more, latest), Kept(responses, responses'),
         JournalInv(journal'), journal' = journal \/ \E e : e.by = q /\ journal' = Append(journal, e),
         Program(more, Asked(q), journal'), Before(more),
         runs' = [r \in Runs |-> runs'[r]], \A r \in Runs : RunInv(r, runs'[r], journal')
  PROVE  GatewayInv'
<1> DEFINE x == requests[q]
           y == OnWith(x, more \o Tail(x.todo), latest)
           z == Over(x, "failed")
<1>1. requests' = [requests EXCEPT ![q] = y] \/ requests' = [requests EXCEPT ![q] = z]
  BY Goes
<1>2. RequestInv(q, x, responses'[KeyOf(q)], journal')
  <2>1. RequestInv(q, x, responses[KeyOf(q)], journal) /\ IsSeq(journal)
    BY DEF GatewayInv, JournalInv
  <2>2. responses[KeyOf(q)] => responses'[KeyOf(q)]
    BY KeysOfRequests DEF Kept
  <2> HIDE DEF RequestInv, Held
  <2>3. RequestInv(q, x, responses[KeyOf(q)], journal')
    <3>1. CASE journal' = journal
      BY <2>1, <3>1
    <3>2. ASSUME NEW e, journal' = Append(journal, e) PROVE RequestInv(q, x, responses[KeyOf(q)], journal')
      BY <2>1, <3>2, RequestsStay
    <3> QED  BY <3>1, <3>2
  <2> QED  BY <2>2, <2>3, StoredLater
<1>3. RequestInv(q, y, responses'[KeyOf(q)], journal')
  BY <1>2, WentOn DEF Next1, Asked
<1>4. RequestInv(q, z, responses'[KeyOf(q)], journal')
  BY <1>2, Ended DEF Next1
<1> HIDE DEF x, y, z, RequestInv, RunInv, JournalInv, GatewayInv
<1>5. CASE requests' = [requests EXCEPT ![q] = y]
  BY <1>3, <1>5, StepOf
<1>6. CASE requests' = [requests EXCEPT ![q] = z]
  BY <1>4, <1>6, StepOf
<1> QED  BY <1>1, <1>5, <1>6

\* A call that only reads.
LEMMA ReadDone ==
  ASSUME GatewayInv, NEW q \in Requests, requests[q].status = "running", ~ Held(requests[q]),
         NEW more, NEW latest \in Runs \cup {NoRun}, GoesOnWith(q, more, latest),
         Program(more, Asked(q), journal), Before(more), UNCHANGED <<journal, runs, responses>>
  PROVE  GatewayInv'
<1>1. /\ Kept(responses, responses') /\ JournalInv(journal') /\ journal' = journal
      /\ runs' = [r \in Runs |-> runs'[r]] /\ \A r \in Runs : RunInv(r, runs'[r], journal')
  BY DEF GatewayInv, Kept
<1> QED  BY <1>1, CallDone

\* A call that appends one event.
LEMMA AppendDone ==
  ASSUME GatewayInv, NEW q \in Requests, requests[q].status = "running", ~ Held(requests[q]), UNCHANGED responses,
         GoesOn(q, <<>>), NEW e, journal' = Append(journal, e), e.run \in Runs \cup {NoRun}, e.by = q,
         e.type = "RunStateChanged" /\ e.value = "completed" => DecidedFor(journal, e.run),
         runs' = [r \in Runs |-> runs'[r]],
         \A r \in Runs : runs'[r] = runs[r] \/ RunInv(r, runs'[r], Append(journal, e))
  PROVE  GatewayInv'
<1>1. JournalInv(journal) /\ IsSeq(journal) /\ requests[q].latest \in Runs \cup {NoRun}
  BY WhenRunning DEF GatewayInv, JournalInv
<1>2. JournalInv(journal')
  BY <1>1, JournalGrows
<1>3. \A r \in Runs : RunInv(r, runs'[r], journal')
  BY <1>1, RunsStay DEF GatewayInv
<1>4. Kept(responses, responses')
  BY DEF GatewayInv, Kept
<1>5. Program(<<>>, Asked(q), journal') /\ Before(<<>>)
  BY NothingToDo
<1> QED  BY <1>1, <1>2, <1>3, <1>4, <1>5, CallDone DEF GoesOn

\* A call that is refused, or does not come through.
LEMMA CallRefused ==
  ASSUME GatewayInv, NEW q \in Requests, requests[q].status = "running", UNCHANGED <<journal, runs, responses>>,
         NEW status \in {"answered", "failed"},
         requests' = [requests EXCEPT ![q].todo = <<>>, ![q].status = status]
  PROVE  GatewayInv'
<1> DEFINE y == Over(requests[q], status)
<1>1. requests' = [requests EXCEPT ![q] = y]
  BY DEF GatewayInv, Over
<1>2. RequestInv(q, requests[q], responses[KeyOf(q)], journal)
  BY DEF GatewayInv
<1>3. RequestInv(q, y, responses[KeyOf(q)], journal)
  BY <1>2, Ended
<1>4. /\ Kept(responses, responses') /\ JournalInv(journal') /\ journal' = journal /\ responses' = responses
      /\ runs' = [r \in Runs |-> runs'[r]] /\ \A r \in Runs : RunInv(r, runs'[r], journal')
  BY DEF GatewayInv, Kept
<1> HIDE DEF y, RequestInv, RunInv, JournalInv, GatewayInv
<1> QED  BY <1>1, <1>3, <1>4, StepOf

\* An attempt that comes, the first with its key or another, has written nothing yet.
LEMMA ArrivesKeeps ==
  ASSUME GatewayInv, NEW q \in Requests, NEW m \in Menu[KeyOf(q)], Arrives(q, m)
  PROVE  GatewayInv'
<1> DEFINE y == [asks |-> m, todo |-> Calls(m), latest |-> NoRun, status |-> "running", late |-> responses[KeyOf(q)]]
<1>1. requests' = [requests EXCEPT ![q] = y] /\ requests[q].status = "idle" /\ UNCHANGED <<journal, runs, responses>>
  BY DEF Arrives
<1>2. /\ Program(Calls(m), m, journal) /\ Calls(m) # <<>>
      /\ m.kind \in Idempotent => Calls(m)[1].op = "key"
  BY CallsAreGood, KeysOfRequests, MenusAreRoutes
<1>3. RequestInv(q, requests[q], responses[KeyOf(q)], journal) /\ responses[KeyOf(q)] \in BOOLEAN
  BY KeysOfRequests DEF GatewayInv
<1>4. Silent(q, journal)
  BY <1>1, <1>3 DEF RequestInv
<1>5. /\ DOMAIN y = {"asks", "todo", "latest", "status", "late"} /\ y.late = responses[KeyOf(q)]
      /\ y.asks = m /\ y.todo = Calls(m) /\ y.latest = NoRun /\ y.status = "running"
  OBVIOUS
<1> HIDE DEF y
<1>6. RequestInv(q, y, responses[KeyOf(q)], journal)
  BY <1>2, <1>3, <1>4, <1>5 DEF RequestInv, RequestStatus, Held
<1>7. /\ Kept(responses, responses') /\ JournalInv(journal') /\ journal' = journal /\ responses' = responses
      /\ runs' = [r \in Runs |-> runs'[r]] /\ \A r \in Runs : RunInv(r, runs'[r], journal')
  BY <1>1 DEF GatewayInv, Kept
<1> HIDE DEF RequestInv, RunInv, JournalInv, GatewayInv
<1> QED  BY <1>1, <1>6, <1>7, StepOf

\* What comes again is on the menu, because it came before.
LEMMA SomethingArrives ==
  ASSUME GatewayInv, NEW q \in Requests, (\E m \in Menu[KeyOf(q)] : Receive(q, m)) \/ Retry(q)
  PROVE  \E m \in Menu[KeyOf(q)] : Arrives(q, m)
<1>1. CASE Retry(q)
  <2> DEFINE p == Previous(q)
  <2>1. p \in Requests /\ KeyOf(p) = KeyOf(q)
    <3>1. PICK k \in Keys : q \in {k} \X (1..MaxAttempts[k])
      BY DEF Requests
    <3>2. q[2] \in 1..MaxAttempts[k] /\ q[1] = k /\ MaxAttempts[k] \in Nat /\ q[2] > 1
      BY <1>1, <3>1, AttemptsAreNumbers DEF Retry
    <3>3. q[2] - 1 \in 1..MaxAttempts[k]
      BY <3>2
    <3>4. p = <<k, q[2] - 1>>
      BY <3>2 DEF Previous
    <3>5. p \in {k} \X (1..MaxAttempts[k])
      BY <3>3, <3>4
    <3> QED  BY <3>2, <3>4, <3>5 DEF Requests, KeyOf
  <2>2. requests[p].status # "idle" /\ Arrives(q, Asked(p))
    BY <1>1 DEF Retry
  <2> HIDE DEF p
  <2>3. RequestInv(p, requests[p], responses[KeyOf(p)], journal)
    BY <2>1 DEF GatewayInv
  <2>4. Asked(p) \in Menu[KeyOf(q)]
    BY <2>1, <2>2, <2>3 DEF RequestInv, Asked
  <2> QED  BY <2>2, <2>4
<1> QED  BY <1>1 DEF Receive

LEMMA KeyKeeps ==
  ASSUME GatewayInv, NEW q \in Requests, CallFails(q) \/ GetIdempotency(q) \/ PutIdempotency(q)
  PROVE  GatewayInv'
<1>1. requests[q].status = "running"
  BY DEF CallFails, GetIdempotency, PutIdempotency, Running
<1>2. CASE CallFails(q)
  BY <1>1, <1>2, CallRefused DEF CallFails, Fails
<1>3. CASE GetIdempotency(q)
  <2>1. UNCHANGED <<journal, runs, responses>>
    BY <1>3 DEF GetIdempotency
  <2>2. CASE responses[KeyOf(q)]
    BY <1>1, <1>3, <2>1, <2>2, CallRefused DEF GetIdempotency
  <2>3. CASE ~ responses[KeyOf(q)]
    <3>1. GoesOnWith(q, <<>>, requests[q].latest)
      BY <1>3, <2>3 DEF GetIdempotency, GoesOn
    <3>2. Program(<<>>, Asked(q), journal) /\ Before(<<>>)
      BY NothingToDo
    <3>3. ~ Held(requests[q])
      BY <1>1, <2>3, WhenRunning DEF RequestInv, Held
    <3> QED  BY <1>1, <2>1, <3>1, <3>2, <3>3, WhenRunning, ReadDone
  <2> QED  BY <2>2, <2>3
<1>4. CASE PutIdempotency(q)
  <2>1. /\ Next1(q).op = "put" /\ GoesOnWith(q, <<>>, requests[q].latest) /\ UNCHANGED <<journal, runs>>
        /\ responses' = [responses EXCEPT ![KeyOf(q)] = TRUE]
    BY <1>4 DEF PutIdempotency, Running, Next1, GoesOn
  <2>2. /\ Kept(responses, responses') /\ JournalInv(journal') /\ journal' = journal
        /\ runs' = [r \in Runs |-> runs'[r]] /\ \A r \in Runs : RunInv(r, runs'[r], journal')
    BY <2>1 DEF GatewayInv, Kept
  <2>3. Program(<<>>, Asked(q), journal') /\ Before(<<>>)
    BY NothingToDo
  <2> HIDE DEF RequestInv, RunInv, JournalInv, GatewayInv, Kept, Held
  <2> QED  BY <1>1, <2>1, <2>2, <2>3, WhenRunning, CallDone
<1> QED  BY <1>2, <1>3, <1>4

LEMMA LatestIsARun ==
  ASSUME GatewayInv
  PROVE  LatestRunId \in Runs \cup {NoRun}
<1> DEFINE timeline == {i \in DOMAIN journal : journal[i].type \in RunEvent}
<1>1. DOMAIN journal = 1..Len(journal) /\ Len(journal) \in Nat
      /\ \A i \in DOMAIN journal : journal[i].run \in Runs \cup {NoRun}
  BY AppendIsSeq DEF GatewayInv, JournalInv
<1>2. CASE timeline = {}
  BY <1>2 DEF LatestRunId
<1>3. CASE timeline # {}
  <2>1. \E i \in timeline : \A j \in timeline : j <= i
    BY <1>1, <1>3, LastExists
  <2>2. \E i \in timeline : \A j \in timeline : i >= j
    BY <1>1, <2>1
  <2>3. Max(timeline) \in timeline
    BY <2>2 DEF Max
  <2> QED  BY <1>1, <1>3, <2>3 DEF LatestRunId
<1> QED  BY <1>2, <1>3

\* The calls that read, and bring in others.
GoesOnWell(q, log) ==
  \E more : \E latest \in Runs \cup {NoRun} : GoesOnWith(q, more, latest) /\ Program(more, Asked(q), log) /\ Before(more)

LEMMA ReadsGoOn ==
  ASSUME GatewayInv, NEW q \in Requests,
         ReadLatestRun(q) \/ GetRun(q) \/ GetLatestRun(q) \/ EnsureSeed(q) \/ ReadRecovery(q) \/ ReadHunk(q)
  PROVE  /\ GoesOnWell(q, journal) /\ UNCHANGED <<journal, runs, responses>>
         /\ requests[q].status = "running" /\ Next1(q).op \notin {"key", "start"}
<1> DEFINE log == journal
           m == Asked(q)
           Fine(s) == Program(s, m, log) /\ Before(s)
<1>1. /\ requests[q].status = "running" /\ Next1(q).op \notin {"key", "start"} /\ UNCHANGED <<journal, runs, responses>>
  BY DEF ReadLatestRun, GetRun, GetLatestRun, EnsureSeed, ReadRecovery, ReadHunk, Running, Next1
<1> SUFFICES GoesOnWell(q, log)
  BY <1>1
<1>2. /\ requests[q].latest \in Runs \cup {NoRun} /\ Fits(Next1(q), m, log)
      /\ m.run \in Runs \cup {NoRun}
  BY <1>1, WhenRunning
<1>3. Fine(<<>>)
  BY NothingToDo
<1>4. \A type, item, value : type \notin Reserved \cup {"ApprovalRequested"} => Fine(<<AppendCall(type, item, value)>>)
  BY GoodCalls, OneCall
<1>5. ASSUME NEW more, NEW latest \in Runs \cup {NoRun}, GoesOnWith(q, more, latest), Fine(more)
      PROVE  GoesOnWell(q, log)
  BY <1>5 DEF GoesOnWell
<1>6. ASSUME NEW more, GoesOn(q, more), Fine(more) PROVE GoesOnWell(q, log)
  BY <1>2, <1>5, <1>6 DEF GoesOn
<1> HIDE DEF Fine
<1>7. CASE ReadLatestRun(q)
  BY <1>3, <1>5, <1>7, LatestIsARun DEF ReadLatestRun
<1>8. CASE GetRun(q)
  <2>1. CASE m.run = NoRun
    BY <1>3, <1>6, <1>8, <2>1 DEF GetRun
  <2>2. CASE m.run # NoRun
    <3> DEFINE more == AfterGet(m, Next1(q).value, runs[m.run])
    <3>1. GoesOn(q, more) /\ Next1(q).op = "get"
      BY <1>8, <2>2 DEF GetRun, Running, Next1
    <3>2. RunInv(m.run, runs[m.run], log)
      BY <1>2, <2>2 DEF GatewayInv
    <3>3. Next1(q).value # "completed"
      BY <1>2, <3>1 DEF Fits
    <3>4. Fine(more)
      BY <3>2, <3>3, AfterGetIsGood DEF RunInv, Fine
    <3> HIDE DEF more
    <3> QED  BY <1>6, <3>1, <3>4
  <2> QED  BY <2>1, <2>2
<1>9. CASE GetLatestRun(q)
  <2>1. Fine(<<Move("running")>>)
    BY GoodCalls, OneCall DEF Fine
  <2>2. GoesOn(q, <<Move("running")>>) \/ GoesOn(q, <<>>)
    BY <1>9 DEF GetLatestRun
  <2> QED  BY <1>3, <1>6, <2>1, <2>2
<1>10. CASE EnsureSeed(q)
  <2> DEFINE s == <<Call("ifMissing", "TenantUserWorkspaceSeeded", NoItem, NoItem),
                    Call("ifMissing", "WorkspaceCatalogSeeded", NoItem, NoItem),
                    Call("ifMissing", "WorkspaceRuntimeStateChanged", NoItem, "ready")>>
  <2>1. \A type, value : type \notin Reserved \cup {"ApprovalRequested"} => Good(Call("ifMissing", type, NoItem, value), m, log)
    BY DEF Good, Fits, Scope, Call
  <2>2. /\ Good(Call("ifMissing", "TenantUserWorkspaceSeeded", NoItem, NoItem), m, log)
        /\ Good(Call("ifMissing", "WorkspaceCatalogSeeded", NoItem, NoItem), m, log)
        /\ Good(Call("ifMissing", "WorkspaceRuntimeStateChanged", NoItem, "ready"), m, log)
    BY <2>1 DEF Reserved, RunEvent
  <2>3. Fine(s)
    BY <2>2, ThreeCalls DEF Fine
  <2>4. GoesOn(q, s) \/ GoesOn(q, <<>>)
    BY <1>10 DEF EnsureSeed
  <2> HIDE DEF s
  <2> QED  BY <1>3, <1>6, <2>3, <2>4
<1>11. CASE ReadRecovery(q)
  <2>1. GoesOn(q, <<>>) \/ \E i \in Items : GoesOn(q, <<AppendCall("RecoveryUpdated", i, "resolved")>>)
    BY <1>11 DEF ReadRecovery
  <2>2. \A i \in Items : Fine(<<AppendCall("RecoveryUpdated", i, "resolved")>>)
    BY <1>4 DEF Reserved, RunEvent
  <2> QED  BY <1>3, <1>6, <2>1, <2>2
<1>12. CASE ReadHunk(q)
  <2> DEFINE value == IF m.choice = "approve" THEN "approved" ELSE "changes_requested"
  <2>1. Fine(<<AppendCall("DiffUpdated", m.item, value)>>)
    BY <1>4 DEF Reserved, RunEvent
  <2>2. GoesOn(q, <<AppendCall("DiffUpdated", m.item, value)>>)
    BY <1>12 DEF ReadHunk
  <2> QED  BY <1>6, <2>1, <2>2
<1> QED  BY <1>1, <1>7, <1>8, <1>9, <1>10, <1>11, <1>12

LEMMA ReadsKeep ==
  ASSUME GatewayInv, NEW q \in Requests,
         ReadLatestRun(q) \/ GetRun(q) \/ GetLatestRun(q) \/ EnsureSeed(q) \/ ReadRecovery(q) \/ ReadHunk(q)
  PROVE  GatewayInv'
<1>1. /\ GoesOnWell(q, journal) /\ UNCHANGED <<journal, runs, responses>>
      /\ requests[q].status = "running" /\ Next1(q).op # "key"
  BY ReadsGoOn
<1>2. ~ Held(requests[q])
  BY <1>1, WhenRunning
<1> HIDE DEF GatewayInv
<1> QED  BY <1>1, <1>2, ReadDone DEF GoesOnWell

LEMMA ItemFields ==
  \A q, type, r, item, value :
    LET e == AboutItem(q, type, r, item, value)
    IN  e.type = type /\ e.run = r /\ e.item = item /\ e.value = value /\ e.by = q
BY DEF AboutItem

LEMMA TableLeadsToStates ==
  ASSUME NEW from \in RunState, NEW to, CanTransition(from, to)
  PROVE  to \in RunState
BY DEF CanTransition, RUN_TRANSITIONS, RunState, Terminal

LEMMA MovedRun ==
  ASSUME NEW r, NEW x, NEW log, RunInv(r, x, log), x # NoRun, NEW to, CanTransition(x.state, to)
  PROVE  RunInv(r, [x EXCEPT !.state = to], log)
BY TableLeadsToStates DEF RunInv

\* What the steps need that append while q's request runs.
LEMMA WhenAppending ==
  ASSUME GatewayInv, NEW q \in Requests, requests[q].status = "running", Next1(q).op # "key"
  PROVE  /\ ~ Held(requests[q]) /\ SubjectRun(q) \in Runs \cup {NoRun} /\ Asked(q).run \in Runs \cup {NoRun}
         /\ Fits(Next1(q), Asked(q), journal)
BY WhenRunning DEF SubjectRun

\* An event that is not about a run's state changes no run.
LEMMA NoticeKeeps ==
  ASSUME GatewayInv, NEW q \in Requests, requests[q].status = "running", Next1(q).op # "key", GoesOn(q, <<>>),
         UNCHANGED <<runs, responses>>, NEW type, type # "RunStateChanged", NEW r \in Runs \cup {NoRun},
         NEW item, NEW value, Appends(q, type, r, item, value)
  PROVE  GatewayInv'
<1> DEFINE e == AboutItem(q, type, r, item, value)
<1>1. e.run = r /\ e.by = q /\ e.type # "RunStateChanged" /\ journal' = Append(journal, e)
  BY ItemFields DEF Appends
<1>2. runs' = [s \in Runs |-> runs'[s]] /\ \A s \in Runs : runs'[s] = runs[s]
  BY DEF GatewayInv
<1> HIDE DEF e, GatewayInv
<1> QED  BY <1>1, <1>2, WhenAppending, AppendDone

LEMMA RefusedKeeps ==
  ASSUME GatewayInv, NEW q \in Requests, requests[q].status = "running", UNCHANGED <<journal, runs, responses>>, Fails(q)
  PROVE  GatewayInv'
BY CallRefused DEF Fails

LEMMA SkippedKeeps ==
  ASSUME GatewayInv, NEW q \in Requests, requests[q].status = "running", Next1(q).op # "key", GoesOn(q, <<>>),
         UNCHANGED <<journal, runs, responses>>
  PROVE  GatewayInv'
<1>1. GoesOnWith(q, <<>>, requests[q].latest) /\ requests[q].latest \in Runs \cup {NoRun} /\ ~ Held(requests[q])
  BY WhenRunning DEF GoesOn
<1>2. Program(<<>>, Asked(q), journal) /\ Before(<<>>)
  BY NothingToDo
<1> HIDE DEF GatewayInv
<1> QED  BY <1>1, <1>2, ReadDone

LEMMA AppendsKeep ==
  ASSUME GatewayInv, NEW q \in Requests, AppendIfMissing(q) \/ AppendEvent(q) \/ StartAgentWork(q)
  PROVE  GatewayInv'
<1>1. /\ requests[q].status = "running" /\ Next1(q).op \in {"ifMissing", "append", "start"} /\ UNCHANGED <<runs, responses>>
  BY DEF AppendIfMissing, AppendEvent, StartAgentWork, Running, Next1
<1>2. /\ SubjectRun(q) \in Runs \cup {NoRun} /\ Asked(q).run \in Runs \cup {NoRun}
      /\ Next1(q).op \in {"ifMissing", "append"} => Next1(q).type # "RunStateChanged"
  BY <1>1, WhenAppending DEF Fits, Reserved, RunEvent
<1>3. CASE AppendIfMissing(q)
  <2>1. /\ Next1(q).type # "RunStateChanged" /\ GoesOn(q, <<>>)
        /\ journal' = journal \/ Appends(q, Next1(q).type, NoRun, Next1(q).item, Next1(q).value)
    BY <1>2, <1>3 DEF AppendIfMissing, Running, Next1
  <2>2. CASE journal' = journal
    BY <1>1, <2>1, <2>2, SkippedKeeps
  <2> QED  BY <1>1, <2>1, <2>2, NoticeKeeps
<1>4. CASE AppendEvent(q)
  <2>1. /\ Next1(q).type # "RunStateChanged" /\ GoesOn(q, <<>>)
        /\ Appends(q, Next1(q).type, SubjectRun(q), Next1(q).item, Next1(q).value)
    BY <1>2, <1>4 DEF AppendEvent, Running, Next1
  <2> QED  BY <1>1, <1>2, <2>1, NoticeKeeps
<1>5. CASE StartAgentWork(q)
  <2>1. \/ journal' = journal /\ Fails(q)
        \/ Appends(q, "AgentTaskContractAccepted", Asked(q).run, Next1(q).item, NoItem) /\ GoesOn(q, <<>>)
    BY <1>5 DEF StartAgentWork
  <2> QED  BY <1>1, <1>2, <2>1, RefusedKeeps, NoticeKeeps
<1> QED  BY <1>3, <1>4, <1>5

LEMMA CreateKeeps ==
  ASSUME GatewayInv, NEW q \in Requests, CreateRun(q)
  PROVE  GatewayInv'
<1> DEFINE r == Asked(q).run
           e == AboutItem(q, "RunCreated", r, NoItem, "draft")
           x == [state |-> "draft", supervisorDecisionId |-> NoItem]
<1>1. requests[q].status = "running" /\ Next1(q).op = "create" /\ UNCHANGED responses
  BY DEF CreateRun, Running, Next1
<1>2. \/ UNCHANGED <<journal, runs>> /\ GoesOn(q, <<>>)
      \/ UNCHANGED <<journal, runs>> /\ Fails(q)
      \/ Appends(q, "RunCreated", r, NoItem, "draft") /\ runs' = [runs EXCEPT ![r] = x] /\ GoesOn(q, <<>>)
  BY DEF CreateRun
<1>3. CASE Appends(q, "RunCreated", r, NoItem, "draft") /\ runs' = [runs EXCEPT ![r] = x] /\ GoesOn(q, <<>>)
  <2>1. ~ Held(requests[q]) /\ r \in Runs \cup {NoRun}
    BY <1>1, WhenAppending
  <2>2. e.run = r /\ e.by = q /\ e.type # "RunStateChanged" /\ journal' = Append(journal, e)
    BY <1>3, ItemFields DEF Appends
  <2>3. \A s : RunInv(s, x, Append(journal, e))
    <3>1. NoItem \in DecisionIds /\ "draft" \in RunState
      BY DEF DecisionIds, RunState
    <3> HIDE DEF DecisionIds, RunState
    <3> QED  BY <3>1 DEF RunInv
  <2>4. runs' = [s \in Runs |-> runs'[s]] /\ \A s \in Runs : runs'[s] = runs[s] \/ runs'[s] = x
    BY <1>3 DEF GatewayInv
  <2> HIDE DEF e, x, RunInv, GatewayInv
  <2> QED  BY <1>1, <1>3, <2>1, <2>2, <2>3, <2>4, AppendDone
<1> QED  BY <1>1, <1>2, <1>3, RefusedKeeps, SkippedKeeps

\* A run moves along the table.
LEMMA MoveKeeps ==
  ASSUME GatewayInv, NEW q \in Requests, requests[q].status = "running", Next1(q).op # "key", UNCHANGED responses,
         GoesOn(q, <<>>), NEW r \in Runs \cup {NoRun}, NEW to, MovesRun(q, r, to),
         r \in Runs => runs[r] # NoRun /\ CanTransition(runs[r].state, to),
         to = "completed" => DecidedFor(journal, r)
  PROVE  GatewayInv'
<1> DEFINE e == AboutItem(q, "RunStateChanged", r, NoItem, to)
<1>1. e.run = r /\ e.by = q /\ e.value = to /\ journal' = Append(journal, e) /\ runs' = [runs EXCEPT ![r].state = to]
  BY ItemFields DEF MovesRun, Appends
<1>2. IsSeq(journal) /\ runs = [s \in Runs |-> runs[s]] /\ \A s \in Runs : RunInv(s, runs[s], journal)
  BY DEF GatewayInv, JournalInv
<1>3. runs' = [s \in Runs |-> runs'[s]] /\ \A s \in Runs : s # r => runs'[s] = runs[s]
  BY <1>1, <1>2
<1>4. r \in Runs => runs'[r] = [runs[r] EXCEPT !.state = to]
  BY <1>1, <1>2
<1> HIDE DEF e
<1>5. ASSUME r \in Runs PROVE RunInv(r, runs'[r], Append(journal, e))
  <2>1. RunInv(r, [runs[r] EXCEPT !.state = to], journal)
    BY <1>2, <1>5, MovedRun
  <2> QED  BY <1>2, <1>4, <1>5, <2>1, RunsStay
<1>6. ~ Held(requests[q])
  BY WhenAppending
<1>7. \A s \in Runs : runs'[s] = runs[s] \/ RunInv(s, runs'[s], Append(journal, e))
  BY <1>3, <1>5
<1>8. e.type = "RunStateChanged" /\ e.value = "completed" => DecidedFor(journal, e.run)
  BY <1>1
<1> HIDE DEF GatewayInv, RunInv
<1> QED  BY <1>1, <1>3, <1>6, <1>7, <1>8, AppendDone

LEMMA MovesKeep ==
  ASSUME GatewayInv, NEW q \in Requests, TransitionRun(q) \/ CompleteRun(q)
  PROVE  GatewayInv'
<1>1. requests[q].status = "running" /\ Next1(q).op \in {"move", "complete"} /\ UNCHANGED responses
  BY DEF TransitionRun, CompleteRun, Running, Next1
<1>2. /\ SubjectRun(q) \in Runs \cup {NoRun} /\ Asked(q).run \in Runs \cup {NoRun}
      /\ Next1(q).op = "move" => Next1(q).value # "completed"
      /\ Next1(q).op = "complete" /\ Next1(q).item # NoItem => DecidedFor(journal, Asked(q).run)
  BY <1>1, WhenAppending DEF Fits
<1>3. CASE TransitionRun(q)
  <2> DEFINE r == SubjectRun(q)
             to == Next1(q).value
  <2>1. /\ Next1(q).op = "move"
        /\ \/ UNCHANGED <<journal, runs>> /\ Fails(q)
           \/ MayMove(r, to) /\ MovesRun(q, r, to) /\ GoesOn(q, <<>>)
    BY <1>3 DEF TransitionRun, Running, Next1
  <2> HIDE DEF r, to
  <2>2. CASE MayMove(r, to) /\ MovesRun(q, r, to) /\ GoesOn(q, <<>>)
    <3>1. r \in Runs \cup {NoRun} /\ to # "completed" /\ runs[r] # NoRun /\ CanTransition(runs[r].state, to)
      BY <1>2, <2>1, <2>2 DEF MayMove, r, to
    <3> QED  BY <1>1, <2>2, <3>1, MoveKeeps
  <2> QED  BY <1>1, <2>1, <2>2, RefusedKeeps
<1>4. CASE CompleteRun(q)
  <2> DEFINE r == Asked(q).run
             d == Next1(q).item
  <2>1. /\ Next1(q).op = "complete"
        /\ \/ UNCHANGED <<journal, runs>> /\ Fails(q)
           \/ MayComplete(r, d) /\ MovesRun(q, r, "completed") /\ GoesOn(q, <<>>)
    BY <1>4 DEF CompleteRun, Running, Next1
  <2>2. CASE MayComplete(r, d) /\ MovesRun(q, r, "completed") /\ GoesOn(q, <<>>)
    <3>1. DecidedFor(journal, r) /\ runs[r].state = "integrating"
      BY <1>2, <2>1, <2>2 DEF MayComplete
    <3>2. CanTransition("integrating", "completed")
      BY DEF CanTransition, RUN_TRANSITIONS, RunState, Terminal
    <3>3. runs[r] # NoRun
      BY <2>2 DEF MayComplete
    <3>4. r \in Runs \cup {NoRun} /\ MovesRun(q, r, "completed") /\ GoesOn(q, <<>>) /\ Next1(q).op # "key"
      BY <1>1, <1>2, <2>2
    <3>5. r \in Runs => runs[r] # NoRun /\ CanTransition(runs[r].state, "completed")
      BY <3>1, <3>2, <3>3
    <3> HIDE DEF r, d, GatewayInv
    <3> QED  BY <1>1, <3>1, <3>4, <3>5, MoveKeeps
  <2> QED  BY <1>1, <2>1, <2>2, RefusedKeeps
<1> QED  BY <1>3, <1>4

\* A decision is recorded under an id the gateway made.
LEMMA DecisionIsNamed ==
  ASSUME GatewayInv, NEW q \in Requests, requests[q].status = "running", Next1(q).op = "decide"
  PROVE  DecisionId(q) \in DecisionIds
<1>1. Next1(q).item \in {NoItem, Derived("decision", Asked(q).run)} /\ Asked(q).run \in Runs \cup {NoRun}
  BY WhenRunning DEF Fits
<1>2. q[1] \in Keys /\ q[2] \in Nat
  BY KeysOfRequests DEF KeyOf
<1>3. CASE Next1(q).item # NoItem
  BY <1>1, <1>3 DEF DecisionId, DecisionIds
<1>4. CASE Next1(q).item = NoItem
  BY <1>2, <1>4 DEF DecisionId, DecisionIds
<1> QED  BY <1>3, <1>4

LEMMA DecisionKeeps ==
  ASSUME GatewayInv, NEW q \in Requests, RecordSupervisorDecision(q)
  PROVE  GatewayInv'
<1> DEFINE r == Asked(q).run
           d == DecisionId(q)
           e == AboutItem(q, "SupervisorDecisionRecorded", r, d, NoItem)
<1>1. requests[q].status = "running" /\ Next1(q).op = "decide" /\ UNCHANGED responses
  BY DEF RecordSupervisorDecision, Running, Next1
<1>2. \/ UNCHANGED <<journal, runs>> /\ Fails(q)
      \/ /\ runs[r] # NoRun /\ journal' = Append(journal, e) /\ GoesOn(q, <<>>)
         /\ runs' = [runs EXCEPT ![r].supervisorDecisionId = d]
  BY DEF RecordSupervisorDecision, Appends
<1>3. e.run = r /\ e.by = q /\ e.type = "SupervisorDecisionRecorded"
  BY ItemFields
<1>4. IsSeq(journal) /\ runs = [s \in Runs |-> runs[s]] /\ \A s \in Runs : RunInv(s, runs[s], journal)
  BY DEF GatewayInv, JournalInv
<1>5. ~ Held(requests[q]) /\ r \in Runs \cup {NoRun}
  BY <1>1, WhenAppending
<1>7. d \in DecisionIds
  BY <1>1, DecisionIsNamed
<1> HIDE DEF e, d, r
<1>6. CASE /\ runs[r] # NoRun /\ journal' = Append(journal, e) /\ GoesOn(q, <<>>)
           /\ runs' = [runs EXCEPT ![r].supervisorDecisionId = d]
  <2>1. runs' = [s \in Runs |-> runs'[s]] /\ \A s \in Runs : s # r => runs'[s] = runs[s]
    BY <1>4, <1>6
  <2>2. DecidedFor(Append(journal, e), r)
    BY <1>3, <1>4, AppendIsSeq DEF DecidedFor
  <2>3. ASSUME r \in Runs PROVE RunInv(r, runs'[r], Append(journal, e))
    <3>1. runs'[r] = [runs[r] EXCEPT !.supervisorDecisionId = d] /\ RunInv(r, runs[r], journal)
      BY <1>4, <1>6, <2>3
    <3> HIDE DEF DecidedFor
    <3> QED  BY <1>6, <1>7, <2>2, <3>1 DEF RunInv
  <2> HIDE DEF GatewayInv, RunInv
  <2> QED  BY <1>1, <1>3, <1>5, <1>6, <2>1, <2>3, AppendDone
<1> QED  BY <1>1, <1>2, <1>6, RefusedKeeps

LEMMA AgentMoveKeeps ==
  ASSUME GatewayInv, NEW r \in Runs, NEW to \in AgentMoves[r], AgentMovesRun(r, to)
  PROVE  GatewayInv'
<1> DEFINE e == AboutItem(NoItem, "RunStateChanged", r, NoItem, to)
<1>1. /\ journal' = Append(journal, e) /\ runs' = [runs EXCEPT ![r].state = to]
      /\ runs[r] # NoRun /\ CanTransition(runs[r].state, to) /\ UNCHANGED <<responses, requests>>
  BY DEF AgentMovesRun, MayMove, MovesRun, Appends
<1>2. e.run = r /\ e.by = NoItem /\ e.value = to
  BY ItemFields
<1>3. JournalInv(journal) /\ IsSeq(journal) /\ runs = [s \in Runs |-> runs[s]] /\ \A s \in Runs : RunInv(s, runs[s], journal)
  BY DEF GatewayInv, JournalInv
<1> HIDE DEF e
<1>4. JournalInv(Append(journal, e))
  BY <1>2, <1>3, JournalGrows DEF AgentsDoNotComplete
<1>5. runs' = [s \in Runs |-> runs'[s]] /\ runs'[r] = [runs[r] EXCEPT !.state = to] /\ \A s \in Runs : s # r => runs'[s] = runs[s]
  BY <1>1, <1>3
<1>6. ASSUME NEW s \in Runs PROVE RunInv(s, runs'[s], Append(journal, e))
  <2>1. RunInv(s, runs'[s], journal)
    BY <1>1, <1>3, <1>5, MovedRun
  <2> QED  BY <1>3, <2>1, RunsStay
<1>7. \A q \in Requests : RequestInv(q, requests'[q], responses'[KeyOf(q)], Append(journal, e))
  <2>1. \A q \in Requests : e.by # q
    BY <1>2, NothingIsNone
  <2> QED  BY <1>1, <1>3, <2>1, RequestsStay DEF GatewayInv
<1>8. responses' \in [Keys -> BOOLEAN] /\ requests' = [q \in Requests |-> requests'[q]]
  BY <1>1 DEF GatewayInv
<1> HIDE DEF RequestInv, RunInv, JournalInv
<1> QED  BY <1>1, <1>4, <1>5, <1>6, <1>7, <1>8 DEF GatewayInv

LEMMA GatewayStarts == Init => GatewayInv
<1> SUFFICES ASSUME Init PROVE GatewayInv
  OBVIOUS
<1>1. JournalInv(journal)
  <2>1. IsSeq(<<>>) /\ DOMAIN <<>> = {}
    BY NothingToDo DEF Program
  <2> QED  BY <2>1 DEF Init, JournalInv, CompletedIn
<1>2. runs = [r \in Runs |-> runs[r]] /\ \A r \in Runs : RunInv(r, runs[r], journal)
  BY DEF Init, RunInv
<1>3. responses \in [Keys -> BOOLEAN] /\ requests = [q \in Requests |-> requests[q]]
  BY DEF Init
<1>4. ASSUME NEW q \in Requests PROVE RequestInv(q, requests[q], responses[KeyOf(q)], journal)
  <2>1. requests[q] = Idle
    BY DEF Init
  <2>2. /\ Idle.asks = NoItem /\ Idle.todo = <<>> /\ Idle.latest = NoRun /\ Idle.status = "idle" /\ Idle.late = FALSE
        /\ DOMAIN Idle = {"asks", "todo", "latest", "status", "late"}
    BY DEF Idle
  <2>3. Program(Idle.todo, Idle.asks, journal)
    BY <2>2, NothingToDo
  <2>4. Silent(q, journal) /\ ~ Held(Idle)
    BY <2>2 DEF Init, Silent, Held
  <2> QED  BY <2>1, <2>2, <2>3, <2>4 DEF RequestInv, RequestStatus
<1> QED  BY <1>1, <1>2, <1>3, <1>4 DEF GatewayInv

LEMMA GatewayNext == GatewayInv /\ [Next]_vars => GatewayInv'
<1> SUFFICES ASSUME GatewayInv, [Next]_vars PROVE GatewayInv'
  OBVIOUS
<1>1. CASE UNCHANGED vars
  BY <1>1 DEF vars, GatewayInv, JournalInv, RunInv, RequestInv, CompletedIn, Program, Fits, DecidedFor, Silent
<1>2. CASE Next
  <2>1. ASSUME NEW q \in Requests, (\E m \in Menu[KeyOf(q)] : Receive(q, m)) \/ Retry(q) PROVE GatewayInv'
    BY <2>1, SomethingArrives, ArrivesKeeps
  <2>2. ASSUME NEW q \in Requests, Step(q) PROVE GatewayInv'
    BY <2>2, KeyKeeps, ReadsKeep, AppendsKeep, CreateKeeps, MovesKeep, DecisionKeeps DEF Step
  <2>3. CASE \E r \in Runs : \E to \in AgentMoves[r] : AgentMovesRun(r, to)
    BY <2>3, AgentMoveKeeps
  <2> QED  BY <1>2, <2>1, <2>2, <2>3 DEF Next
<1> QED  BY <1>1, <1>2

LEMMA GatewayAlways == Spec => []GatewayInv
BY GatewayStarts, GatewayNext, PTL DEF Spec

-----------------------------------------------------------------------------
(* What the invariant gives. *)

\* The gateway's variables hold what its handlers put there: in particular a request is running exactly
\* while its handler has calls to make, whatever it was answered (apps/gateway server.ts).
THEOREM GatewayTypeCorrect == Spec => []GatewayTypeOK
<1>1. GatewayInv => GatewayTypeOK
  BY DEF GatewayInv, JournalInv, RunInv, RequestInv, GatewayTypeOK
<1> QED  BY <1>1, GatewayAlways, PTL

\* No run is completed on another run's decision, for any interleaving of any requests, lost answers and
\* retries, as long as no agent completes runs by the transition route (decideFinalReview, completeRun).
THEOREM CompletionsAreOwn == ASSUME AgentsDoNotComplete PROVE Spec => []CompletedByOwnDecision
<1>1. GatewayInv => CompletedByOwnDecision
  BY DEF GatewayInv, JournalInv, CompletedIn, CompletedByOwnDecision
<1> QED  BY <1>1, GatewayAlways, PTL

\* Of the attempts with one key only those act that came before its response was stored, however many
\* overlap, fail and come again (withIdempotency).
THEOREM LateAttemptsStaySilent == Spec => []LateAttemptsAreSilent
<1>1. GatewayInv => LateAttemptsAreSilent
  <2> SUFFICES ASSUME GatewayInv, NEW q \in Requests, requests[q].late, Asked(q).kind \in Idempotent
               PROVE  \A i \in DOMAIN journal : journal[i].by # q
    BY DEF LateAttemptsAreSilent
  <2>1. RequestInv(q, requests[q], responses[KeyOf(q)], journal)
    BY DEF GatewayInv
  <2> QED  BY <2>1 DEF RequestInv, Held, Silent, Asked
<1> QED  BY <1>1, GatewayAlways, PTL

-----------------------------------------------------------------------------
(* What the control room shows.  The rebuilding is a recursive function    *)
(* over the journal, unfolded one event at a time like Filtered.           *)

\* What one event makes of the view before it.
Shown(view, e) == Shows(view, e)

\* view is the recursive function of rebuildControlRoomProjection for the first n events.
Rebuilds(view, log, n) ==
  view = [i \in 0..n |-> IF i = 0 THEN EmptyView ELSE Shown(view[i - 1], log[i])]

LEMMA RebuildsTells ==
  ASSUME NEW log, NEW n \in Nat, NEW f, Rebuilds(f, log, n)
  PROVE  f[0] = EmptyView /\ \A i \in 1..n : f[i] = Shown(f[i - 1], log[i])
<1> DEFINE g == [i \in 0..n |-> IF i = 0 THEN EmptyView ELSE Shown(f[i - 1], log[i])]
<1>1. g[0] = EmptyView /\ \A i \in 1..n : g[i] = Shown(f[i - 1], log[i])
  OBVIOUS
<1>2. f = g
  BY DEF Rebuilds
<1> HIDE DEF g
<1> QED  BY <1>1, <1>2, Zenon

LEMMA RebuildsWhen ==
  ASSUME NEW log, NEW n \in Nat, NEW f,
         f = [i \in 0..n |-> f[i]], f[0] = EmptyView, \A i \in 1..n : f[i] = Shown(f[i - 1], log[i])
  PROVE  Rebuilds(f, log, n)
<1> DEFINE g == [i \in 0..n |-> IF i = 0 THEN EmptyView ELSE Shown(f[i - 1], log[i])]
<1>1. g[0] = EmptyView /\ \A i \in 1..n : g[i] = Shown(f[i - 1], log[i])
  OBVIOUS
<1>2. \A i \in 0..n : f[i] = g[i]
  <2> TAKE i \in 0..n
  <2>1. i = 0 \/ i \in 1..n  OBVIOUS
  <2> HIDE DEF g
  <2> QED  BY <1>1, <2>1, Zenon
<1>3. f = g
  BY <1>2
<1> QED  BY <1>3 DEF Rebuilds

\* There is such a function, for every length.
LEMMA RebuildingExists ==
  ASSUME NEW log
  PROVE  \A n \in Nat : \E f : Rebuilds(f, log, n)
<1> DEFINE T == {n \in Nat : \E f : Rebuilds(f, log, n)}
<1>1. 0 \in T
  <2> DEFINE f == [i \in 0..0 |-> EmptyView]
  <2>1. f = [i \in 0..0 |-> IF i = 0 THEN EmptyView ELSE Shown(f[i - 1], log[i])]
    OBVIOUS
  <2> QED  BY <2>1 DEF Rebuilds
<1>2. ASSUME NEW n \in Nat, n \in T PROVE n + 1 \in T
  <2>1. PICK f : Rebuilds(f, log, n)  BY <1>2
  <2> DEFINE g == [i \in 0..(n + 1) |-> IF i = n + 1 THEN Shown(f[n], log[n + 1]) ELSE f[i]]
  <2>2. g[n + 1] = Shown(f[n], log[n + 1]) /\ \A i \in 0..n : g[i] = f[i]
    OBVIOUS
  <2>3. g = [i \in 0..(n + 1) |-> g[i]]  OBVIOUS
  <2> HIDE DEF g
  <2>4. g[0] = EmptyView  BY <2>1, <2>2, RebuildsTells
  <2>5. \A i \in 1..(n + 1) : g[i] = Shown(g[i - 1], log[i])
    <3> TAKE i \in 1..(n + 1)
    <3>1. CASE i = n + 1  BY <2>2, <3>1
    <3>2. CASE i \in 1..n
      <4>1. f[i] = Shown(f[i - 1], log[i])  BY <2>1, <3>2, RebuildsTells, Zenon
      <4>2. i - 1 \in 0..n /\ i \in 0..n  BY <3>2
      <4>3. g[i] = f[i] /\ g[i - 1] = f[i - 1]  BY <2>2, <4>2, Zenon
      <4> QED  BY <4>1, <4>3, Zenon
    <3> QED  BY <3>1, <3>2
  <2>6. n + 1 \in Nat  OBVIOUS
  <2>7. Rebuilds(g, log, n + 1)  BY <2>3, <2>4, <2>5, <2>6, RebuildsWhen, Zenon
  <2> QED  BY <2>6, <2>7
<1> HIDE DEF T
<1>3. Nat \subseteq T  BY <1>1, <1>2, NatInductionOnSet
<1> QED  BY <1>3 DEF T

LEMMA RebuildUnfolded ==
  ASSUME NEW log, IsSeq(log)
  PROVE  \E f : Rebuilds(f, log, Len(log)) /\ rebuildControlRoomProjection(log) = f[Len(log)]
<1>1. Len(log) \in Nat  BY DEF IsSeq
<1>2. \E f : Rebuilds(f, log, Len(log))  BY <1>1, RebuildingExists
<1> DEFINE h == CHOOSE f : Rebuilds(f, log, Len(log))
<1>3. Rebuilds(h, log, Len(log))  BY <1>2
<1>4. rebuildControlRoomProjection(log) = h[Len(log)]  BY DEF rebuildControlRoomProjection, Rebuilds, Shown
<1> QED  BY <1>3, <1>4

\* Nothing is shown of an empty core.
LEMMA RebuildOfNothing == rebuildControlRoomProjection(<<>>) = EmptyView
<1>1. <<>> \in Seq({}) /\ Len(<<>>) = 0  OBVIOUS
<1>2. IsSeq(<<>>)  BY <1>1, SeqIsSeq
<1>3. PICK f : Rebuilds(f, <<>>, 0) /\ rebuildControlRoomProjection(<<>>) = f[0]  BY <1>1, <1>2, RebuildUnfolded
<1>4. 0 \in Nat  OBVIOUS
<1>5. f[0] = EmptyView  BY <1>3, <1>4, RebuildsTells, Zenon
<1> QED  BY <1>3, <1>5, Zenon

\* One event more.
LEMMA RebuildOfAppend ==
  ASSUME NEW log, IsSeq(log), NEW e
  PROVE  rebuildControlRoomProjection(Append(log, e)) = Shows(rebuildControlRoomProjection(log), e)
<1> DEFINE longer == Append(log, e)
           n == Len(log)
<1>1. /\ IsSeq(longer) /\ n \in Nat /\ n + 1 \in Nat /\ DOMAIN log = 1..n /\ DOMAIN longer = 1..(n + 1)
      /\ longer[n + 1] = e
      /\ \A i \in 1..n : longer[i] = log[i]
  BY AppendIsSeq
<1>2. Len(longer) = n + 1
  <2>1. longer \in Seq(ToSet(longer))
    BY <1>1 DEF IsSeq
  <2> QED  BY <1>1, <2>1
<1> HIDE DEF longer, n
<1>3. PICK f : Rebuilds(f, log, n) /\ rebuildControlRoomProjection(log) = f[n]
  BY RebuildUnfolded DEF n
<1>4. PICK g : Rebuilds(g, longer, n + 1) /\ rebuildControlRoomProjection(longer) = g[n + 1]
  BY <1>1, <1>2, RebuildUnfolded
<1>5. f[0] = EmptyView /\ \A i \in 1..n : f[i] = Shown(f[i - 1], log[i])
  BY <1>1, <1>3, RebuildsTells, Zenon
<1>6. g[0] = EmptyView /\ \A i \in 1..(n + 1) : g[i] = Shown(g[i - 1], longer[i])
  BY <1>1, <1>4, RebuildsTells, Zenon
<1>7. f[n] = g[n]
  <2> DEFINE I == {i \in Nat : i <= n => f[i] = g[i]}
  <2>1. 0 \in I
    BY <1>5, <1>6, Zenon
  <2>2. ASSUME NEW i \in Nat, i \in I PROVE i + 1 \in I
    <3>1. CASE i + 1 <= n
      <4>1. i + 1 \in 1..n /\ i + 1 \in 1..(n + 1) /\ (i + 1) - 1 = i /\ i <= n
        BY <1>1, <2>2, <3>1
      <4>2. f[i + 1] = Shown(f[(i + 1) - 1], log[i + 1]) /\ g[i + 1] = Shown(g[(i + 1) - 1], longer[i + 1])
        BY <1>5, <1>6, <4>1, Zenon
      <4>3. longer[i + 1] = log[i + 1] /\ f[i] = g[i]
        BY <1>1, <2>2, <4>1
      <4>4. f[i + 1] = g[i + 1]
        BY <4>1, <4>2, <4>3
      <4> QED  BY <4>4
    <3> QED  BY <1>1, <3>1
  <2> HIDE DEF I
  <2>3. Nat \subseteq I
    BY <2>1, <2>2, NatInductionOnSet
  <2> QED  BY <1>1, <2>3 DEF I
<1>8. g[n + 1] = Shown(g[n], e)
  <2>1. n + 1 \in 1..(n + 1) /\ (n + 1) - 1 = n
    BY <1>1
  <2>2. g[n + 1] = Shown(g[(n + 1) - 1], longer[n + 1])
    BY <1>6, <2>1, Zenon
  <2> QED  BY <1>1, <2>1, <2>2
<1> QED  BY <1>3, <1>4, <1>7, <1>8 DEF longer, Shown

ViewOf(log) == rebuildControlRoomProjection(log)

ViewShape(v) ==
  /\ DOMAIN v = {"runs", "contracts", "decisions", "commandQueue", "approvalInbox", "conflictQueue", "recoveryQueue",
                 "diff", "notifications", "read", "editorSession", "finalReview"}
  /\ v.runs = [r \in Runs |-> v.runs[r]]
  /\ v.approvalInbox = [i \in Items |-> v.approvalInbox[i]]


\* What one event changes of the runs, the contracts and the approvals that are shown.
RunsAfter(v, e) ==
  IF e.type = "RunCreated" THEN [v.runs EXCEPT ![e.run] = RunSummary("draft")]
  ELSE IF e.type = "RunStateChanged" THEN [v.runs EXCEPT ![e.run] = IF @ = NoItem THEN @ ELSE RunSummary(e.value)]
  ELSE v.runs

ContractsAfter(v, e) == IF e.type = "AgentTaskContractAccepted" THEN v.contracts \cup {e.item} ELSE v.contracts

InboxAfter(v, e) ==
  IF e.type = "ApprovalRequested" THEN [v.approvalInbox EXCEPT ![e.item] = "requested"]
  ELSE IF e.type = "ApprovalDecided"
       THEN [v.approvalInbox EXCEPT ![e.item] =
               IF @ = NoItem THEN @ ELSE IF e.value = "approve" THEN "approved" ELSE "rejected"]
       ELSE v.approvalInbox

LEMMA ShowsOne ==
  ASSUME NEW v, ViewShape(v), NEW e
  PROVE  /\ ViewShape(Shows(v, e)) /\ Shows(v, e).runs = RunsAfter(v, e)
         /\ Shows(v, e).contracts = ContractsAfter(v, e) /\ Shows(v, e).approvalInbox = InboxAfter(v, e)
<1> DEFINE Right(w) == /\ ViewShape(w) /\ w.runs = RunsAfter(v, e)
                       /\ w.contracts = ContractsAfter(v, e) /\ w.approvalInbox = InboxAfter(v, e)
<1> SUFFICES Right(Shows(v, e))
  OBVIOUS
<1>1. CASE e.type = "RunCreated"
  <2> DEFINE w == [v EXCEPT !.runs = [@ EXCEPT ![e.run] = RunSummary("draft")]]
  <2>1. [RunSummary("draft") EXCEPT !.currentStep = "accepted"] = RunSummary("draft")
    BY DEF RunSummary, mapRunStateToStep, RunState
  <2>2. Shows(v, e) = [v EXCEPT !.runs[e.run] = [RunSummary("draft") EXCEPT !.currentStep = "accepted"]]
    BY <1>1 DEF Shows
  <2>3. Shows(v, e) = w
    BY <2>1, <2>2
  <2>4. Right(w)
    BY <1>1 DEF ViewShape, RunsAfter, ContractsAfter, InboxAfter
  <2> HIDE DEF w, Right
  <2> QED  BY <2>3, <2>4
<1>2. CASE e.type = "RunStateChanged"
  <2> DEFINE w == [v EXCEPT !.runs[e.run] = IF @ = NoItem THEN @ ELSE RunSummary(e.value)]
  <2>1. Shows(v, e) = w
    BY <1>2 DEF Shows
  <2>2. Right(w)
    BY <1>2 DEF ViewShape, RunsAfter, ContractsAfter, InboxAfter
  <2> HIDE DEF w, Right
  <2> QED  BY <2>1, <2>2
<1>3. CASE e.type = "AgentTaskContractAccepted"
  <2> DEFINE w == [v EXCEPT !.contracts = @ \cup {e.item}]
  <2>1. Shows(v, e) = w
    BY <1>3 DEF Shows
  <2>2. Right(w)
    BY <1>3 DEF ViewShape, RunsAfter, ContractsAfter, InboxAfter
  <2> HIDE DEF w, Right
  <2> QED  BY <2>1, <2>2
<1>4. CASE e.type = "ApprovalRequested"
  <2> DEFINE w == [v EXCEPT !.approvalInbox[e.item] = "requested"]
  <2>1. Shows(v, e) = w
    BY <1>4 DEF Shows
  <2>2. Right(w)
    BY <1>4 DEF ViewShape, RunsAfter, ContractsAfter, InboxAfter
  <2> HIDE DEF w, Right
  <2> QED  BY <2>1, <2>2
<1>5. CASE e.type = "ApprovalDecided"
  <2> DEFINE w == [v EXCEPT !.approvalInbox[e.item] =
                     IF @ = NoItem THEN @ ELSE IF e.value = "approve" THEN "approved" ELSE "rejected"]
  <2>1. Shows(v, e) = w
    BY <1>5 DEF Shows
  <2>2. Right(w)
    BY <1>5 DEF ViewShape, RunsAfter, ContractsAfter, InboxAfter
  <2> HIDE DEF w, Right
  <2> QED  BY <2>1, <2>2
<1>6. CASE e.type \notin {"RunCreated", "RunStateChanged", "AgentTaskContractAccepted", "ApprovalRequested", "ApprovalDecided"}
  <2> DEFINE Others == {"decisions", "commandQueue", "conflictQueue", "recoveryQueue", "diff", "notifications", "read",
                        "editorSession", "finalReview"}
  <2>1. Shows(v, e) = v \/ \E f \in Others : \E x : Shows(v, e) = [v EXCEPT ![f] = x]
    BY <1>6 DEF Shows, ViewShape
  <2>2. Right(v)
    BY <1>6 DEF ViewShape, RunsAfter, ContractsAfter, InboxAfter
  <2>3. ASSUME NEW f \in Others, NEW x PROVE Right([v EXCEPT ![f] = x])
    BY <1>6 DEF ViewShape, RunsAfter, ContractsAfter, InboxAfter
  <2> HIDE DEF Right, Others
  <2> QED  BY <2>1, <2>2, <2>3
<1> HIDE DEF Right
<1> QED  BY <1>1, <1>2, <1>3, <1>4, <1>5, <1>6

-----------------------------------------------------------------------------
(* What the core writes, and what is shown of it. *)

Known(log, type, item) == \E i \in DOMAIN log : log[i].type = type /\ log[i].item = item

LEMMA KnownOfAppend ==
  ASSUME NEW log, IsSeq(log), NEW e, NEW type, NEW item
  PROVE  Known(Append(log, e), type, item) <=> Known(log, type, item) \/ (e.type = type /\ e.item = item)
BY AppendIsSeq DEF Known

\* An event that is appended, and what its call does to the runs.
Written(e) ==
  \/ e.type \notin Reserved /\ runs' = runs
  \/ e.type = "AgentTaskContractAccepted" /\ ~ Known(journal, "AgentTaskContractAccepted", e.item) /\ runs' = runs
  \/ e.type = "RunCreated" /\ runs' = [runs EXCEPT ![e.run] = [state |-> "draft", supervisorDecisionId |-> NoItem]]
  \/ /\ e.type = "RunStateChanged" /\ (e.run \in Runs => runs[e.run] # NoRun /\ CanTransition(runs[e.run].state, e.value))
     /\ runs' = [runs EXCEPT ![e.run].state = e.value]
  \/ /\ e.type = "SupervisorDecisionRecorded" /\ (e.run \in Runs => runs[e.run] # NoRun)
     /\ \E d \in DecisionIds : runs' = [runs EXCEPT ![e.run].supervisorDecisionId = d]

LEMMA WhatIsWritten ==
  ASSUME GatewayInv, Next
  PROVE  UNCHANGED <<journal, runs>> \/ \E e : journal' = Append(journal, e) /\ Written(e)
<1> DEFINE Fine == UNCHANGED <<journal, runs>> \/ \E e : journal' = Append(journal, e) /\ Written(e)
<1>1. ASSUME NEW q, NEW type, NEW r, NEW item, NEW value, Appends(q, type, r, item, value),
             Written(AboutItem(q, type, r, item, value))
      PROVE  Fine
  BY <1>1 DEF Appends
<1>2. ASSUME NEW q, NEW r, NEW to, MovesRun(q, r, to), r \in Runs => runs[r] # NoRun /\ CanTransition(runs[r].state, to)
      PROVE  Fine
  <2> DEFINE e == AboutItem(q, "RunStateChanged", r, NoItem, to)
  <2>1. e.type = "RunStateChanged" /\ e.run = r /\ e.value = to
    BY ItemFields
  <2>2. runs' = [runs EXCEPT ![r].state = to] /\ Appends(q, "RunStateChanged", r, NoItem, to)
    BY <1>2 DEF MovesRun
  <2> HIDE DEF e
  <2>3. Written(e)
    BY <1>2, <2>1, <2>2 DEF Written
  <2> QED  BY <1>1, <2>2, <2>3 DEF e
<1>3. ASSUME NEW q \in Requests, Running(q, "append") \/ Running(q, "ifMissing") PROVE Next1(q).type \notin Reserved
  BY <1>3, WhenRunning DEF Running, Next1, Fits
<1>4. ASSUME NEW q \in Requests, Step(q) PROVE Fine
  <2>1. CASE UNCHANGED <<journal, runs>>
    BY <2>1
  <2>2. CASE AppendIfMissing(q) \/ AppendEvent(q)
    <3>1. Next1(q).type \notin Reserved /\ runs' = runs
      BY <1>3, <2>2 DEF AppendIfMissing, AppendEvent
    <3>2. UNCHANGED journal \/ \E r, item, value : Appends(q, Next1(q).type, r, item, value)
      BY <2>2 DEF AppendIfMissing, AppendEvent
    <3>3. \A r, item, value : Written(AboutItem(q, Next1(q).type, r, item, value))
      BY <3>1, ItemFields DEF Written
    <3> QED  BY <1>1, <2>1, <3>1, <3>2, <3>3
  <2>3. CASE CreateRun(q)
    <3> DEFINE r == Asked(q).run
    <3>1. \/ UNCHANGED <<journal, runs>>
          \/ /\ Appends(q, "RunCreated", r, NoItem, "draft")
             /\ runs' = [runs EXCEPT ![r] = [state |-> "draft", supervisorDecisionId |-> NoItem]]
      BY <2>3 DEF CreateRun
    <3> HIDE DEF r
    <3>2. runs' = [runs EXCEPT ![r] = [state |-> "draft", supervisorDecisionId |-> NoItem]] =>
            Written(AboutItem(q, "RunCreated", r, NoItem, "draft"))
      <4> DEFINE e == AboutItem(q, "RunCreated", r, NoItem, "draft")
      <4>1. e.type = "RunCreated" /\ e.run = r
        BY ItemFields
      <4> HIDE DEF e
      <4>2. runs' = [runs EXCEPT ![r] = [state |-> "draft", supervisorDecisionId |-> NoItem]] => Written(e)
        BY <4>1 DEF Written
      <4> QED  BY <4>2 DEF e
    <3> QED  BY <1>1, <2>1, <3>1, <3>2
  <2>4. CASE TransitionRun(q)
    BY <1>2, <2>1, <2>4 DEF TransitionRun, MayMove
  <2>5. CASE StartAgentWork(q)
    <3>1. /\ runs' = runs
          /\ UNCHANGED journal \/ (/\ ~ Known(journal, "AgentTaskContractAccepted", Next1(q).item)
                                   /\ Appends(q, "AgentTaskContractAccepted", Asked(q).run, Next1(q).item, NoItem))
      BY <2>5 DEF StartAgentWork, MayStart, Recorded, Known
    <3>2. ~ Known(journal, "AgentTaskContractAccepted", Next1(q).item) =>
            Written(AboutItem(q, "AgentTaskContractAccepted", Asked(q).run, Next1(q).item, NoItem))
      BY <3>1, ItemFields DEF Written
    <3> QED  BY <1>1, <2>1, <3>1, <3>2
  <2>6. CASE RecordSupervisorDecision(q)
    <3> DEFINE r == Asked(q).run
               d == DecisionId(q)
    <3>1. \/ UNCHANGED <<journal, runs>>
          \/ /\ Appends(q, "SupervisorDecisionRecorded", r, d, NoItem) /\ runs[r] # NoRun /\ d \in DecisionIds
             /\ runs' = [runs EXCEPT ![r].supervisorDecisionId = d]
      <4>1. requests[q].status = "running" /\ Next1(q).op = "decide"
        BY <2>6 DEF RecordSupervisorDecision, Running, Next1
      <4> QED  BY <2>6, <4>1, DecisionIsNamed DEF RecordSupervisorDecision
    <3> HIDE DEF r, d
    <3>2. d \in DecisionIds /\ runs[r] # NoRun /\ runs' = [runs EXCEPT ![r].supervisorDecisionId = d] =>
            Written(AboutItem(q, "SupervisorDecisionRecorded", r, d, NoItem))
      <4> DEFINE e == AboutItem(q, "SupervisorDecisionRecorded", r, d, NoItem)
      <4>1. e.type = "SupervisorDecisionRecorded" /\ e.run = r
        BY ItemFields
      <4> HIDE DEF e
      <4>2. d \in DecisionIds /\ runs[r] # NoRun /\ runs' = [runs EXCEPT ![r].supervisorDecisionId = d] => Written(e)
        BY <4>1 DEF Written
      <4> QED  BY <4>2 DEF e
    <3> QED  BY <1>1, <2>1, <3>1, <3>2
  <2>7. CASE CompleteRun(q)
    <3>1. CanTransition("integrating", "completed")
      BY DEF CanTransition, RUN_TRANSITIONS, RunState, Terminal
    <3> QED  BY <1>2, <2>1, <2>7, <3>1 DEF CompleteRun, MayComplete
  <2>8. CASE \/ CallFails(q) \/ GetIdempotency(q) \/ PutIdempotency(q) \/ ReadLatestRun(q) \/ GetRun(q)
             \/ GetLatestRun(q) \/ EnsureSeed(q) \/ ReadRecovery(q) \/ ReadHunk(q)
    <3>1. UNCHANGED <<journal, runs>>
      BY <2>8 DEF CallFails, GetIdempotency, PutIdempotency, ReadLatestRun, GetRun, GetLatestRun, EnsureSeed,
                  ReadRecovery, ReadHunk
    <3> QED  BY <2>1, <3>1
  <2> QED  BY <1>4, <2>2, <2>3, <2>4, <2>5, <2>6, <2>7, <2>8 DEF Step
<1>5. ASSUME NEW q \in Requests, NEW m, Receive(q, m) \/ Retry(q) PROVE Fine
  BY <1>5 DEF Receive, Retry, Arrives
<1>6. ASSUME NEW r \in Runs, NEW to, AgentMovesRun(r, to) PROVE Fine
  BY <1>2, <1>6 DEF AgentMovesRun, MayMove
<1> HIDE DEF Fine
<1>7. Fine
  BY <1>4, <1>5, <1>6 DEF Next
<1> QED  BY <1>7 DEF Fine

\* A run's record is never mistaken for none.
LEMMA RecordsAreRuns ==
  \A s \in RunState, d \in DecisionIds : [state |-> s, supervisorDecisionId |-> d] # NoRun
<1> HIDE DEF RunState, DecisionIds
<1> QED  BY NoRunIsNoRecord

\* What the control room shows of a run in the core.
RunAsShown(x) == IF x = NoRun THEN NoItem ELSE RunSummary(x.state)

\* The runs that are shown follow those of the core.
LEMMA RunsAreShown ==
  ASSUME GatewayInv, GatewayInv', NEW v, ViewShape(v), \A r \in Runs : v.runs[r] = RunAsShown(runs[r]), NEW e, Written(e)
  PROVE  \A r \in Runs : RunsAfter(v, e)[r] = RunAsShown(runs'[r])
<1>1. /\ runs = [r \in Runs |-> runs[r]]
      /\ \A r \in Runs : runs[r] # NoRun => DOMAIN runs[r] = {"state", "supervisorDecisionId"} /\ runs[r].state \in RunState
                                            /\ runs[r].supervisorDecisionId \in DecisionIds
  BY DEF GatewayInv, RunInv
<1>2. \A r \in Runs : runs'[r] # NoRun => runs'[r].state \in RunState
  BY DEF GatewayInv, RunInv
<1>3. v.runs = [r \in Runs |-> v.runs[r]]
  BY DEF ViewShape
<1>4. \A s \in RunState : RunSummary(s) # NoItem
  BY NothingIsNone
<1>5. "draft" \in RunState /\ NoItem \in DecisionIds
  BY DEF RunState, DecisionIds
<1> SUFFICES ASSUME NEW r \in Runs PROVE RunsAfter(v, e)[r] = RunAsShown(runs'[r])
  OBVIOUS
<1>6. CASE e.type \notin {"RunCreated", "RunStateChanged"}
  <2>1. RunsAfter(v, e) = v.runs
    BY <1>6 DEF RunsAfter
  <2>2. CASE runs' = runs
    BY <2>1, <2>2
  <2>3. ASSUME NEW d \in DecisionIds, e.run \in Runs => runs[e.run] # NoRun,
               runs' = [runs EXCEPT ![e.run].supervisorDecisionId = d]
        PROVE  RunAsShown(runs'[r]) = RunAsShown(runs[r])
    <3>1. CASE r = e.run
      <4>1. runs'[r] = [runs[r] EXCEPT !.supervisorDecisionId = d] /\ runs[r] # NoRun
        BY <1>1, <2>3, <3>1
      <4>2. runs'[r] = [state |-> runs[r].state, supervisorDecisionId |-> d] /\ runs'[r].state = runs[r].state
        BY <1>1, <4>1
      <4>3. runs'[r] # NoRun
        BY <1>1, <4>1, <4>2, RecordsAreRuns
      <4> QED  BY <4>1, <4>2, <4>3 DEF RunAsShown
    <3>2. CASE r # e.run
      BY <1>1, <2>3, <3>2
    <3> QED  BY <3>1, <3>2
  <2> QED  BY <1>6, <2>1, <2>2, <2>3 DEF Written
<1>7. CASE e.type = "RunCreated"
  <2> DEFINE x == [state |-> "draft", supervisorDecisionId |-> NoItem]
  <2>1. runs' = [runs EXCEPT ![e.run] = x] /\ RunsAfter(v, e) = [v.runs EXCEPT ![e.run] = RunSummary("draft")]
    BY <1>7 DEF Written, RunsAfter, Reserved, RunEvent
  <2>2. x.state = "draft" /\ x # NoRun
    BY <1>5, RecordsAreRuns
  <2>3. RunAsShown(x) = RunSummary("draft")
    BY <2>2 DEF RunAsShown
  <2> HIDE DEF x
  <2> QED  BY <1>1, <1>3, <2>1, <2>3
<1>8. CASE e.type = "RunStateChanged"
  <2> DEFINE x == [runs[r] EXCEPT !.state = e.value]
  <2>1. /\ runs' = [runs EXCEPT ![e.run].state = e.value]
        /\ e.run \in Runs => runs[e.run] # NoRun /\ CanTransition(runs[e.run].state, e.value)
        /\ RunsAfter(v, e) = [v.runs EXCEPT ![e.run] = IF @ = NoItem THEN @ ELSE RunSummary(e.value)]
    BY <1>8 DEF Written, RunsAfter, Reserved, RunEvent
  <2>2. CASE r = e.run
    <3>1. runs'[r] = x /\ runs[r] # NoRun /\ runs[r].state \in RunState
      BY <1>1, <2>1, <2>2
    <3>2. e.value \in RunState
      BY <2>1, <2>2, <3>1, TableLeadsToStates
    <3>3. x = [state |-> e.value, supervisorDecisionId |-> runs[r].supervisorDecisionId] /\ x.state = e.value
      BY <1>1, <3>1
    <3>4. x # NoRun
      BY <1>1, <3>1, <3>2, <3>3, RecordsAreRuns
    <3>5. v.runs[r] # NoItem
      BY <1>4, <3>1 DEF RunAsShown
    <3>6. RunsAfter(v, e)[r] = RunSummary(e.value)
      BY <1>3, <2>1, <2>2, <3>5
    <3> QED  BY <3>1, <3>3, <3>4, <3>6 DEF RunAsShown
  <2>3. CASE r # e.run
    BY <1>1, <1>3, <2>1, <2>3
  <2> QED  BY <2>2, <2>3
<1> QED  BY <1>6, <1>7, <1>8

\* The view shows each run as the core has it, the contracts that were accepted, each of them once, and no
\* approval that was not asked for.
ViewInv(log, view, now) ==
  /\ ViewShape(view)
  /\ \A r \in Runs : view.runs[r] = RunAsShown(now[r])
  /\ \A c : c \in view.contracts <=> Known(log, "AgentTaskContractAccepted", c)
  /\ \A i, j \in DOMAIN log :
       (/\ log[i].type = "AgentTaskContractAccepted" /\ log[j].type = "AgentTaskContractAccepted"
        /\ log[i].item = log[j].item) => i = j
  /\ \A i \in Items : ~ Known(log, "ApprovalRequested", i) => view.approvalInbox[i] = NoItem

ShownInv == ViewInv(journal, ViewOf(journal), runs)

LEMMA ShownNext ==
  ASSUME GatewayInv, GatewayInv', ShownInv, NEW e, journal' = Append(journal, e), Written(e)
  PROVE  ShownInv'
<1> DEFINE v == ViewOf(journal)
           w == ViewOf(journal')
           n == Len(journal)
<1>1. /\ IsSeq(journal) /\ n \in Nat /\ DOMAIN journal = 1..n /\ DOMAIN journal' = 1..(n + 1)
      /\ journal'[n + 1] = e /\ \A i \in 1..n : journal'[i] = journal[i]
  BY AppendIsSeq DEF GatewayInv, JournalInv
<1>2. w = Shows(v, e)
  BY <1>1, RebuildOfAppend DEF ViewOf
<1>3. ViewInv(journal, v, runs) /\ ViewShape(v)
  BY DEF ShownInv, ViewInv
<1> HIDE DEF v, w, n
<1>4. ViewShape(w) /\ w.runs = RunsAfter(v, e) /\ w.contracts = ContractsAfter(v, e) /\ w.approvalInbox = InboxAfter(v, e)
  BY <1>2, <1>3, ShowsOne
<1>5. \A type, item : Known(journal', type, item) <=> Known(journal, type, item) \/ (e.type = type /\ e.item = item)
  BY <1>1, KnownOfAppend
<1>6. \A r \in Runs : w.runs[r] = RunAsShown(runs'[r])
  <2>1. \A r \in Runs : v.runs[r] = RunAsShown(runs[r])
    BY <1>3 DEF ViewInv
  <2> HIDE DEF GatewayInv, ViewInv
  <2>2. \A r \in Runs : RunsAfter(v, e)[r] = RunAsShown(runs'[r])
    BY <1>3, <2>1, RunsAreShown
  <2> QED  BY <1>4, <2>2
<1>7. \A c : c \in w.contracts <=> Known(journal', "AgentTaskContractAccepted", c)
  BY <1>3, <1>4, <1>5 DEF ViewInv, ContractsAfter
<1>8. ASSUME NEW i \in DOMAIN journal', NEW j \in DOMAIN journal',
             journal'[i].type = "AgentTaskContractAccepted", journal'[j].type = "AgentTaskContractAccepted",
             journal'[i].item = journal'[j].item
      PROVE  i = j
  <2>1. e.type = "AgentTaskContractAccepted" => \A k \in 1..n :
          journal[k].type = "AgentTaskContractAccepted" => journal[k].item # e.item
    BY <1>1 DEF Written, Known, Reserved, RunEvent
  <2>2. CASE i = n + 1 \/ j = n + 1
    BY <1>1, <1>8, <2>1, <2>2
  <2>3. CASE i # n + 1 /\ j # n + 1
    <3>1. i \in 1..n /\ j \in 1..n
      BY <1>1, <2>3
    <3> QED  BY <1>1, <1>3, <1>8, <3>1 DEF ViewInv
  <2> QED  BY <2>2, <2>3
<1>9. ASSUME NEW i \in Items, ~ Known(journal', "ApprovalRequested", i) PROVE w.approvalInbox[i] = NoItem
  <2>1. v.approvalInbox[i] = NoItem /\ v.approvalInbox = [x \in Items |-> v.approvalInbox[x]]
        /\ (e.type = "ApprovalRequested" => e.item # i)
    BY <1>3, <1>5, <1>9 DEF ViewInv, ViewShape
  <2>2. CASE e.type = "ApprovalRequested"
    BY <1>4, <2>1, <2>2 DEF InboxAfter
  <2>3. CASE e.type = "ApprovalDecided"
    <3> DEFINE f == v.approvalInbox
               x == IF f[e.item] = NoItem THEN NoItem ELSE IF e.value = "approve" THEN "approved" ELSE "rejected"
    <3>1. w.approvalInbox = [f EXCEPT ![e.item] = x]
      BY <1>4, <2>3 DEF InboxAfter
    <3>2. e.item = i => x = NoItem
      BY <2>1
    <3> HIDE DEF x
    <3> QED  BY <2>1, <3>1, <3>2
  <2>4. CASE e.type \notin {"ApprovalRequested", "ApprovalDecided"}
    BY <1>4, <2>1, <2>4 DEF InboxAfter
  <2> QED  BY <2>2, <2>3, <2>4
<1> QED  BY <1>4, <1>6, <1>7, <1>8, <1>9 DEF ShownInv, ViewInv, w

LEMMA ShownStarts == Init => ShownInv
<1> SUFFICES ASSUME Init PROVE ShownInv
  OBVIOUS
<1>1. ViewOf(journal) = EmptyView /\ DOMAIN journal = {}
  BY RebuildOfNothing DEF Init, ViewOf
<1>2. ViewShape(EmptyView)
  BY DEF ViewShape, EmptyView
<1>3. /\ \A r \in Runs : EmptyView.runs[r] = NoItem
      /\ EmptyView.contracts = {}
      /\ \A i \in Items : EmptyView.approvalInbox[i] = NoItem
  BY DEF EmptyView
<1>4. \A r \in Runs : runs[r] = NoRun
  BY DEF Init
<1> QED  BY <1>1, <1>2, <1>3, <1>4 DEF ShownInv, ViewInv, RunAsShown, Known

LEMMA ShownAlways == Spec => [](GatewayInv /\ ShownInv)
<1>1. GatewayInv /\ GatewayInv' /\ ShownInv /\ [Next]_vars => ShownInv'
  <2> SUFFICES ASSUME GatewayInv, GatewayInv', ShownInv, [Next]_vars PROVE ShownInv'
    OBVIOUS
  <2>1. CASE UNCHANGED <<journal, runs>>
    BY <2>1 DEF ShownInv, ViewInv, Known, ViewOf, RunAsShown
  <2>2. CASE UNCHANGED vars
    BY <2>1, <2>2 DEF vars
  <2>3. CASE Next
    BY <2>1, <2>3, WhatIsWritten, ShownNext
  <2> QED  BY <2>2, <2>3
<1> QED  BY <1>1, ShownStarts, GatewayAlways, PTL DEF Spec

\* The worker's roster has each contract that was accepted, once.
LEMMA RosterIsComplete ==
  ASSUME GatewayInv, ShownInv
  PROVE  LET roster == readModels.agentRoster
             contracts == ViewOf(journal).contracts
         IN  ToSet(roster) = contracts /\ Len(roster) = Cardinality(contracts)
<1> DEFINE S == {e \in ToSet(journal) : e.type = "AgentTaskContractAccepted"}
           accepted == Filtered(journal, S)
           n == Len(accepted)
           roster == [i \in DOMAIN accepted |-> accepted[i].item]
           contracts == ViewOf(journal).contracts
<1>1. readModels.agentRoster = roster
  BY DEF readModels, rebuildPlatformReadModels, Listed
<1>2. IsSeq(journal) /\ DOMAIN journal = 1..Len(journal)
  BY AppendIsSeq DEF GatewayInv, JournalInv
<1>3. PICK h : Places(h, accepted, journal, S, Len(journal))
  BY <1>2, FilteredPlaces
<1> HIDE DEF accepted, n
<1>4. n \in Nat /\ DOMAIN accepted = 1..n
  BY <1>3 DEF Places, IsSeq, n
<1>5. \A j \in 1..n : /\ h[j] \in DOMAIN journal /\ journal[h[j]].type = "AgentTaskContractAccepted"
                      /\ roster[j] = journal[h[j]].item
  BY <1>2, <1>3, <1>4 DEF Places
<1>6. \A j, k \in 1..n : j # k => h[j] # h[k]
  <2> TAKE j, k \in 1..n
  <2>1. h[j] \in Nat /\ h[k] \in Nat /\ (j < k \/ k < j \/ j = k)
    BY <1>2, <1>4, <1>5
  <2> QED  BY <1>3, <1>4, <2>1 DEF Places
<1>7. \A i \in DOMAIN journal : journal[i].type = "AgentTaskContractAccepted" => \E j \in 1..n : h[j] = i
  BY <1>2, <1>3, <1>4 DEF Places, ToSet
<1>8. \A j \in 1..n : roster[j] \in contracts
  BY <1>5 DEF ShownInv, ViewInv, Known
<1>9. \A c \in contracts : \E j \in 1..n : roster[j] = c
  BY <1>5, <1>7 DEF ShownInv, ViewInv, Known
<1>10. \A j, k \in 1..n : roster[j] = roster[k] => j = k
  <2>1. \A i, j \in DOMAIN journal :
          (/\ journal[i].type = "AgentTaskContractAccepted" /\ journal[j].type = "AgentTaskContractAccepted"
           /\ journal[i].item = journal[j].item) => i = j
    BY DEF ShownInv, ViewInv
  <2> HIDE DEF roster
  <2> QED  BY <1>5, <1>6, <2>1
<1>11. roster \in [1..n -> contracts]
  BY <1>4, <1>8
<1>12. roster \in Bijection(1..n, contracts)
  <2> HIDE DEF roster, contracts
  <2> QED  BY <1>9, <1>10, <1>11 DEF Bijection, Injection, Surjection, IsInjective
<1>13. Cardinality(contracts) = n
  BY <1>4, <1>12, FS_CountingElements DEF ExistsBijection
<1>14. ToSet(roster) = contracts /\ Len(roster) = n
  BY <1>4, <1>8, <1>9, <1>11 DEF ToSet
<1> QED  BY <1>1, <1>13, <1>14

\* What clients are shown of a run is what the core has of it, and the worker's roster is the contracts of the
\* control room, for any requests, lost answers and retries (rebuildControlRoomProjection, rebuildPlatformReadModels).
THEOREM ProjectionsAgree == Spec => []ProjectionsShowCore
<1>1. GatewayInv /\ ShownInv => ProjectionsShowCore
  <2> SUFFICES ASSUME GatewayInv, ShownInv PROVE ProjectionsShowCore
    OBVIOUS
  <2>1. \A r \in Runs : ViewOf(journal).runs[r] = IF runs[r] = NoRun THEN NoItem ELSE RunSummary(runs[r].state)
    BY DEF ShownInv, ViewInv, RunAsShown
  <2>2. ToSet(readModels.agentRoster) = ViewOf(journal).contracts
        /\ Len(readModels.agentRoster) = Cardinality(ViewOf(journal).contracts)
    BY RosterIsComplete
  <2> QED  BY <2>1, <2>2 DEF ProjectionsShowCore, ViewOf
<1> QED  BY <1>1, ShownAlways, PTL

-----------------------------------------------------------------------------
(* Scope approvals are asked for once.  A handler that has started the     *)
(* run's planner is the only one that will still ask, since the core       *)
(* accepts a contract once; and it asks once.                              *)

\* s asks for r's scope approval without starting its planner before; and it asks at most once.
Open(s, r) == \E i \in DOMAIN s : Scope(s[i], r) /\ \A j \in DOMAIN s : Starts(s[j], r) => i <= j
OnceIn(s, r) == \A i, k \in DOMAIN s : Scope(s[i], r) /\ Scope(s[k], r) => i = k

LEMMA NothingOpen == \A r : ~ Open(<<>>, r) /\ OnceIn(<<>>, r)
BY DEF Open, OnceIn

LEMMA ScopedIsClosed ==
  ASSUME NEW s, IsSeq(s), Scoped(s), NEW r
  PROVE  ~ Open(s, r) /\ OnceIn(s, r)
<1>1. DOMAIN s \subseteq Nat
  BY AppendIsSeq
<1> QED  BY <1>1 DEF Scoped, Open, OnceIn

LEMMA BeforeOpensNothing ==
  ASSUME NEW a, NEW b, IsSeq(a), IsSeq(b), Before(a), NEW r, OnceIn(b, r)
  PROVE  OnceIn(a \o b, r) /\ (Open(a \o b, r) => Open(b, r)) /\ IsSeq(a \o b)
<1> DEFINE c == a \o b
           n == Len(a)
<1>1. /\ IsSeq(c) /\ n \in Nat /\ Len(b) \in Nat /\ DOMAIN a = 1..n /\ DOMAIN b = 1..Len(b)
      /\ DOMAIN c = 1..(n + Len(b))
      /\ \A i \in 1..(n + Len(b)) : c[i] = IF i <= n THEN a[i] ELSE b[i - n]
  BY ConcatIsSeq
<1> HIDE DEF c, n
<1>2. \A i \in DOMAIN c : Scope(c[i], r) => i - n \in DOMAIN b /\ c[i] = b[i - n]
  BY <1>1 DEF Before
<1>3. \A j \in DOMAIN b : n + j \in DOMAIN c /\ c[n + j] = b[j]
  BY <1>1
<1>4. OnceIn(c, r)
  <2> SUFFICES ASSUME NEW i \in DOMAIN c, NEW k \in DOMAIN c, Scope(c[i], r), Scope(c[k], r) PROVE i = k
    BY DEF OnceIn
  <2>1. i - n = k - n
    BY <1>2 DEF OnceIn
  <2> QED  BY <1>1, <2>1
<1>5. ASSUME Open(c, r) PROVE Open(b, r)
  <2>1. PICK i \in DOMAIN c : Scope(c[i], r) /\ \A j \in DOMAIN c : Starts(c[j], r) => i <= j
    BY <1>5 DEF Open
  <2>2. i - n \in DOMAIN b /\ Scope(b[i - n], r)
    BY <1>2, <2>1
  <2>3. ASSUME NEW j \in DOMAIN b, Starts(b[j], r) PROVE i - n <= j
    <3>1. i <= n + j
      BY <1>3, <2>1, <2>3
    <3> QED  BY <1>1, <2>1, <2>3, <3>1
  <2> QED  BY <2>2, <2>3 DEF Open
<1> QED  BY <1>1, <1>4, <1>5 DEF c

LEMMA OpenAfterFirst ==
  ASSUME NEW s, IsSeq(s), s # <<>>, NEW r, OnceIn(s, r)
  PROVE  /\ OnceIn(Tail(s), r) /\ IsSeq(Tail(s))
         /\ ~ Starts(Head(s), r) /\ Open(Tail(s), r) => Open(s, r)
         /\ Scope(Head(s), r) => Open(s, r) /\ ~ Open(Tail(s), r)
<1> DEFINE t == Tail(s)
           n == Len(s)
<1>1. /\ IsSeq(t) /\ n \in Nat \ {0} /\ DOMAIN s = 1..n /\ DOMAIN t = 1..(n - 1) /\ Head(s) = s[1]
      /\ \A i \in 1..(n - 1) : t[i] = s[i + 1]
  BY TailIsSeq
<1> HIDE DEF t, n
<1>2. \A i \in DOMAIN t : i + 1 \in DOMAIN s /\ t[i] = s[i + 1]
  BY <1>1
<1>3. OnceIn(t, r)
  <2> SUFFICES ASSUME NEW i \in DOMAIN t, NEW k \in DOMAIN t, Scope(t[i], r), Scope(t[k], r) PROVE i = k
    BY DEF OnceIn
  <2>1. i + 1 = k + 1
    BY <1>2 DEF OnceIn
  <2> QED  BY <1>1, <2>1
<1>4. ASSUME ~ Starts(Head(s), r), Open(t, r) PROVE Open(s, r)
  <2>1. PICK i \in DOMAIN t : Scope(t[i], r) /\ \A j \in DOMAIN t : Starts(t[j], r) => i <= j
    BY <1>4 DEF Open
  <2>2. ASSUME NEW j \in DOMAIN s, Starts(s[j], r) PROVE i + 1 <= j
    <3>1. j # 1
      BY <1>1, <1>4, <2>2
    <3>2. j - 1 \in DOMAIN t /\ t[j - 1] = s[j]
      BY <1>1, <2>2, <3>1
    <3>3. i <= j - 1
      BY <2>1, <2>2, <3>2
    <3> QED  BY <1>1, <2>1, <2>2, <3>3
  <2> QED  BY <1>2, <2>1, <2>2 DEF Open
<1>5. ASSUME Scope(Head(s), r) PROVE Open(s, r) /\ ~ Open(t, r)
  <2>1. 1 \in DOMAIN s /\ Scope(s[1], r) /\ \A j \in DOMAIN s : 1 <= j
    BY <1>1, <1>5
  <2>2. \A i \in DOMAIN t : ~ Scope(t[i], r)
    <3> SUFFICES ASSUME NEW i \in DOMAIN t, Scope(t[i], r) PROVE FALSE
      OBVIOUS
    <3>1. i + 1 = 1
      BY <1>2, <2>1 DEF OnceIn
    <3> QED  BY <1>1, <3>1
  <2> QED  BY <2>1, <2>2 DEF Open
<1> QED  BY <1>1, <1>3, <1>4, <1>5 DEF t

Planned(log, r) == Known(log, "AgentTaskContractAccepted", Derived("planner", r))
ScopeAsked(log, r) == Known(log, "ApprovalRequested", Derived("approval", r))

ScopeInv ==
  /\ \A q \in Requests : \A r : OnceIn(requests[q].todo, r)
  /\ \A q \in Requests : \A r : Open(requests[q].todo, r) => Planned(journal, r) /\ ~ ScopeAsked(journal, r)
  /\ \A p, q \in Requests : \A r : Open(requests[p].todo, r) /\ Open(requests[q].todo, r) => p = q
  /\ \A r : ScopeAsked(journal, r) => Planned(journal, r)

\* One request has gone on to the calls s.
OnlyTo(q, s) == requests'[q].todo = s /\ \A p \in Requests \ {q} : requests'[p].todo = requests[p].todo

LEMMA ScopeReads ==
  ASSUME ScopeInv, NEW q \in Requests, NEW s, OnlyTo(q, s), UNCHANGED journal,
         \A r : OnceIn(s, r) /\ (Open(s, r) => Open(requests[q].todo, r))
  PROVE  ScopeInv'
<1>1. \A p \in Requests : \A r : OnceIn(requests'[p].todo, r) /\ (Open(requests'[p].todo, r) => Open(requests[p].todo, r))
  BY DEF OnlyTo, ScopeInv
<1>2. \A r : (Planned(journal, r) <=> Planned(journal', r)) /\ (ScopeAsked(journal, r) <=> ScopeAsked(journal', r))
  OBVIOUS
<1> QED  BY <1>1, <1>2 DEF ScopeInv

LEMMA ScopeWrites ==
  ASSUME ScopeInv, IsSeq(journal), NEW q \in Requests, NEW s, OnlyTo(q, s), NEW e, journal' = Append(journal, e),
         \A r : OnceIn(s, r),
         \A r : Open(s, r) => \/ Open(requests[q].todo, r)
                              \/ e.type = "AgentTaskContractAccepted" /\ e.item = Derived("planner", r),
         e.type = "AgentTaskContractAccepted" => ~ Known(journal, "AgentTaskContractAccepted", e.item),
         \A r : e.type = "ApprovalRequested" /\ e.item = Derived("approval", r) => Open(requests[q].todo, r) /\ ~ Open(s, r)
  PROVE  ScopeInv'
<1>1. /\ requests'[q].todo = s /\ \A p \in Requests \ {q} : requests'[p].todo = requests[p].todo
  BY DEF OnlyTo
<1>2. \A r : /\ Planned(journal', r) <=>
                  Planned(journal, r) \/ (e.type = "AgentTaskContractAccepted" /\ e.item = Derived("planner", r))
             /\ ScopeAsked(journal', r) <=>
                  ScopeAsked(journal, r) \/ (e.type = "ApprovalRequested" /\ e.item = Derived("approval", r))
  BY KnownOfAppend DEF Planned, ScopeAsked
<1>3. \A r : e.type = "AgentTaskContractAccepted" /\ e.item = Derived("planner", r) => ~ Planned(journal, r)
  BY DEF Planned
<1> SUFFICES ASSUME NEW r
             PROVE  /\ \A p \in Requests : OnceIn(requests'[p].todo, r)
                    /\ \A p \in Requests : Open(requests'[p].todo, r) => Planned(journal', r) /\ ~ ScopeAsked(journal', r)
                    /\ \A p1, p2 \in Requests : Open(requests'[p1].todo, r) /\ Open(requests'[p2].todo, r) => p1 = p2
                    /\ ScopeAsked(journal', r) => Planned(journal', r)
  BY DEF ScopeInv
<1>4. /\ \A p \in Requests : OnceIn(requests[p].todo, r)
      /\ \A p \in Requests : Open(requests[p].todo, r) => Planned(journal, r) /\ ~ ScopeAsked(journal, r)
      /\ \A p1, p2 \in Requests : Open(requests[p1].todo, r) /\ Open(requests[p2].todo, r) => p1 = p2
      /\ ScopeAsked(journal, r) => Planned(journal, r)
  BY DEF ScopeInv
<1> DEFINE new == e.type = "AgentTaskContractAccepted" /\ e.item = Derived("planner", r)
           asks == e.type = "ApprovalRequested" /\ e.item = Derived("approval", r)
<1>5. new => ~ Planned(journal, r) /\ ~ asks
  BY <1>3
<1>6. asks => Open(requests[q].todo, r) /\ ~ Open(s, r)
  OBVIOUS
<1>7. Open(s, r) => Open(requests[q].todo, r) \/ new
  OBVIOUS
<1>8. (Planned(journal', r) <=> Planned(journal, r) \/ new) /\ (ScopeAsked(journal', r) <=> ScopeAsked(journal, r) \/ asks)
  BY <1>2
<1> HIDE DEF new, asks
<1> QED  BY <1>1, <1>4, <1>5, <1>6, <1>7, <1>8

\* What a handler goes on with when its call was answered: nothing it had not to do before, but what its first
\* call was in the way of.
LEMMA GoneOn ==
  ASSUME GatewayInv, ScopeInv, NEW q \in Requests, requests[q].status = "running", NEW log, GoesOnWell(q, log)
  PROVE  \E s : /\ OnlyTo(q, s)
                /\ \A r : /\ OnceIn(s, r)
                          /\ Open(s, r) => Open(requests[q].todo, r) \/ Starts(Next1(q), r)
                          /\ Scope(Next1(q), r) => Open(requests[q].todo, r) /\ ~ Open(s, r)
<1> DEFINE todo == requests[q].todo
           Right(s) == \A r : /\ OnceIn(s, r)
                              /\ Open(s, r) => Open(todo, r) \/ Starts(Next1(q), r)
                              /\ Scope(Next1(q), r) => Open(todo, r) /\ ~ Open(s, r)
<1>1. PICK more, latest : GoesOnWith(q, more, latest) /\ IsSeq(more) /\ Before(more)
  BY DEF GoesOnWell, Program
<1>2. todo # <<>> /\ IsSeq(todo) /\ Next1(q) = Head(todo)
  <2>1. RequestInv(q, requests[q], responses[KeyOf(q)], journal)
    BY WhenRunning
  <2> QED  BY <2>1 DEF RequestInv, Program, Next1
<1>3. \A r : OnceIn(todo, r)
  BY DEF ScopeInv
<1>4. \A r : /\ OnceIn(Tail(todo), r) /\ IsSeq(Tail(todo))
             /\ Open(Tail(todo), r) => Open(todo, r) \/ Starts(Next1(q), r)
             /\ Scope(Next1(q), r) => Open(todo, r) /\ ~ Open(Tail(todo), r)
  BY <1>2, <1>3, OpenAfterFirst
<1>5. Right(<<>>)
  BY <1>4, NothingOpen
<1>6. Right(more \o Tail(todo))
  BY <1>1, <1>4, BeforeOpensNothing
<1>7. OnlyTo(q, more \o Tail(todo)) \/ OnlyTo(q, <<>>)
  <2>1. /\ requests = [p \in Requests |-> requests[p]]
        /\ DOMAIN requests[q] = {"asks", "todo", "latest", "status", "late"}
    BY DEF GatewayInv, RequestInv
  <2> QED  BY <1>1, <2>1 DEF GoesOnWith, OnlyTo
<1> HIDE DEF Right
<1>8. \E s : OnlyTo(q, s) /\ Right(s)
  BY <1>5, <1>6, <1>7
<1> QED  BY <1>8 DEF Right

LEMMA Alone ==
  ASSUME GatewayInv, NEW q \in Requests, Fails(q)
  PROVE  OnlyTo(q, <<>>)
<1>1. /\ requests = [p \in Requests |-> requests[p]]
      /\ DOMAIN requests[q] = {"asks", "todo", "latest", "status", "late"}
  BY DEF GatewayInv, RequestInv
<1> QED  BY <1>1 DEF Fails, OnlyTo

\* Steps that change nothing in the core.
LEMMA ScopeStays ==
  ASSUME GatewayInv, ScopeInv, NEW q \in Requests, UNCHANGED journal,
         \/ OnlyTo(q, <<>>)
         \/ \E m \in Menu[KeyOf(q)] : OnlyTo(q, Calls(m))
         \/ requests[q].status = "running" /\ Next1(q).op # "start" /\ \E log : GoesOnWell(q, log)
  PROVE  ScopeInv'
<1>1. CASE OnlyTo(q, <<>>)
  BY <1>1, NothingOpen, ScopeReads
<1>2. ASSUME NEW m \in Menu[KeyOf(q)], OnlyTo(q, Calls(m)) PROVE ScopeInv'
  <2>1. Program(Calls(m), m, journal) /\ Scoped(Calls(m))
    BY KeysOfRequests, CallsAreGood, MenusAreRoutes
  <2>2. \A r : ~ Open(Calls(m), r) /\ OnceIn(Calls(m), r)
    BY <2>1, ScopedIsClosed DEF Program
  <2> QED  BY <1>2, <2>2, ScopeReads
<1>3. ASSUME requests[q].status = "running", Next1(q).op # "start", NEW log, GoesOnWell(q, log) PROVE ScopeInv'
  <2>1. \A r : ~ Starts(Next1(q), r)
    BY <1>3 DEF Starts
  <2> QED  BY <1>3, <2>1, GoneOn, ScopeReads
<1> QED  BY <1>1, <1>2, <1>3

\* A call that writes an event.
LEMMA ScopeAppends ==
  ASSUME GatewayInv, ScopeInv, NEW q \in Requests, requests[q].status = "running", GoesOn(q, <<>>),
         NEW type, NEW run, NEW item, NEW value, Appends(q, type, run, item, value),
         type = "AgentTaskContractAccepted" <=> Next1(q).op = "start",
         type = "AgentTaskContractAccepted" =>
           item = Next1(q).item /\ ~ Known(journal, "AgentTaskContractAccepted", item),
         type = "ApprovalRequested" => Next1(q).op = "append" /\ Next1(q).type = type /\ Next1(q).item = item
  PROVE  ScopeInv'
<1> DEFINE e == AboutItem(q, type, run, item, value)
<1>1. e.type = type /\ e.item = item /\ journal' = Append(journal, e)
  BY ItemFields DEF Appends
<1> HIDE DEF e
<1>2. GoesOnWell(q, journal)
  <2>1. Program(<<>>, Asked(q), journal) /\ Before(<<>>) /\ requests[q].latest \in Runs \cup {NoRun}
    BY NothingToDo, WhenRunning
  <2> QED  BY <2>1 DEF GoesOnWell, GoesOn
<1>3. PICK s : /\ OnlyTo(q, s)
               /\ \A r : /\ OnceIn(s, r)
                         /\ Open(s, r) => Open(requests[q].todo, r) \/ Starts(Next1(q), r)
                         /\ Scope(Next1(q), r) => Open(requests[q].todo, r) /\ ~ Open(s, r)
  BY <1>2, GoneOn
<1>4. IsSeq(journal)
  BY DEF GatewayInv, JournalInv
<1>5. \A r : Starts(Next1(q), r) => e.type = "AgentTaskContractAccepted" /\ e.item = Derived("planner", r)
  BY <1>1 DEF Starts
<1>6. \A r : e.type = "ApprovalRequested" /\ e.item = Derived("approval", r) => Scope(Next1(q), r)
  BY <1>1 DEF Scope
<1> QED  BY <1>1, <1>3, <1>4, <1>5, <1>6, ScopeWrites

LEMMA ScopeStep ==
  ASSUME GatewayInv, ScopeInv, NEW q \in Requests, Step(q)
  PROVE  ScopeInv'
<1>1. \A log : GoesOn(q, <<>>) /\ requests[q].status = "running" => GoesOnWell(q, log)
  BY NothingToDo, WhenRunning DEF GoesOnWell, GoesOn
<1>2. ASSUME Running(q, "append") \/ Running(q, "ifMissing")
      PROVE  Next1(q).type # "AgentTaskContractAccepted" /\ (Next1(q).op = "ifMissing" => Next1(q).type # "ApprovalRequested")
  BY <1>2, WhenRunning DEF Running, Next1, Fits, Reserved
<1>3. CASE ReadLatestRun(q) \/ GetRun(q) \/ GetLatestRun(q) \/ EnsureSeed(q) \/ ReadRecovery(q) \/ ReadHunk(q)
  BY <1>3, ReadsGoOn, ScopeStays
<1>4. CASE CallFails(q)
  BY <1>4, Alone, ScopeStays DEF CallFails
<1>5. CASE GetIdempotency(q)
  <2>1. /\ requests = [p \in Requests |-> requests[p]]
        /\ DOMAIN requests[q] = {"asks", "todo", "latest", "status", "late"}
    BY DEF GatewayInv, RequestInv
  <2>2. OnlyTo(q, <<>>) \/ GoesOn(q, <<>>)
    BY <1>5, <2>1 DEF GetIdempotency, OnlyTo
  <2>3. UNCHANGED journal /\ requests[q].status = "running" /\ Next1(q).op # "start"
    BY <1>5 DEF GetIdempotency, Running, Next1
  <2> QED  BY <1>1, <2>2, <2>3, ScopeStays
<1>6. CASE PutIdempotency(q)
  <2>1. UNCHANGED journal /\ requests[q].status = "running" /\ Next1(q).op # "start" /\ GoesOn(q, <<>>)
    BY <1>6 DEF PutIdempotency, Running, Next1
  <2> QED  BY <1>1, <2>1, ScopeStays
<1>7. CASE AppendIfMissing(q) \/ AppendEvent(q)
  <2>1. /\ requests[q].status = "running" /\ Next1(q).op # "start" /\ GoesOn(q, <<>>)
        /\ \/ UNCHANGED journal
           \/ \E r : Appends(q, Next1(q).type, r, Next1(q).item, Next1(q).value)
    BY <1>7 DEF AppendIfMissing, AppendEvent, Running, Next1
  <2>2. /\ Next1(q).type # "AgentTaskContractAccepted"
        /\ Next1(q).type = "ApprovalRequested" => Next1(q).op = "append"
    BY <1>2, <1>7 DEF AppendIfMissing, AppendEvent, Running, Next1
  <2>3. CASE UNCHANGED journal
    BY <1>1, <2>1, <2>3, ScopeStays
  <2> QED  BY <2>1, <2>2, <2>3, ScopeAppends
<1>8. CASE StartAgentWork(q)
  <2> DEFINE c == Next1(q).item
  <2>1. /\ requests[q].status = "running" /\ Next1(q).op = "start"
        /\ \/ UNCHANGED journal /\ Fails(q)
           \/ /\ ~ Known(journal, "AgentTaskContractAccepted", c) /\ GoesOn(q, <<>>)
              /\ Appends(q, "AgentTaskContractAccepted", Asked(q).run, c, NoItem)
    BY <1>8 DEF StartAgentWork, MayStart, Recorded, Known, Running, Next1
  <2>2. CASE UNCHANGED journal /\ Fails(q)
    BY <2>2, Alone, ScopeStays
  <2> QED  BY <2>1, <2>2, ScopeAppends
<1>9. CASE CreateRun(q) \/ TransitionRun(q) \/ RecordSupervisorDecision(q) \/ CompleteRun(q)
  <2>1. /\ requests[q].status = "running" /\ Next1(q).op # "start"
        /\ \/ UNCHANGED journal /\ (Fails(q) \/ GoesOn(q, <<>>))
           \/ GoesOn(q, <<>>) /\ \E type \in RunEvent : \E r, item, value : Appends(q, type, r, item, value)
    <3>1. CASE CreateRun(q)
      BY <3>1 DEF CreateRun, Running, Next1, RunEvent
    <3>2. CASE TransitionRun(q)
      BY <3>2 DEF TransitionRun, MovesRun, Running, Next1, RunEvent
    <3>3. CASE RecordSupervisorDecision(q)
      BY <3>3 DEF RecordSupervisorDecision, Running, Next1, RunEvent
    <3>4. CASE CompleteRun(q)
      BY <3>4 DEF CompleteRun, MovesRun, Running, Next1, RunEvent
    <3> QED  BY <1>9, <3>1, <3>2, <3>3, <3>4
  <2>2. CASE UNCHANGED journal /\ (Fails(q) \/ GoesOn(q, <<>>))
    BY <1>1, <2>1, <2>2, Alone, ScopeStays
  <2>3. ASSUME NEW type \in RunEvent, NEW r, NEW item, NEW value, Appends(q, type, r, item, value), GoesOn(q, <<>>)
        PROVE  ScopeInv'
    <3>1. type # "AgentTaskContractAccepted" /\ type # "ApprovalRequested"
      BY DEF RunEvent
    <3> QED  BY <2>1, <2>3, <3>1, ScopeAppends
  <2> QED  BY <2>1, <2>2, <2>3
<1> QED  BY <1>3, <1>4, <1>5, <1>6, <1>7, <1>8, <1>9 DEF Step

LEMMA ScopeAlways == Spec => []ScopeInv
<1>1. Init => ScopeInv
  <2> SUFFICES ASSUME Init PROVE ScopeInv
    OBVIOUS
  <2>1. \A q \in Requests : requests[q].todo = <<>>
    BY DEF Init, Idle
  <2>2. \A type, item : ~ Known(journal, type, item)
    BY DEF Init, Known
  <2> QED  BY <2>1, <2>2, NothingOpen DEF ScopeInv, Planned, ScopeAsked
<1>2. GatewayInv /\ ScopeInv /\ [Next]_vars => ScopeInv'
  <2> SUFFICES ASSUME GatewayInv, ScopeInv, [Next]_vars PROVE ScopeInv'
    OBVIOUS
  <2>1. CASE UNCHANGED vars
    BY <2>1 DEF vars, ScopeInv, Planned, ScopeAsked, Known
  <2>2. ASSUME NEW q \in Requests, (\E m \in Menu[KeyOf(q)] : Receive(q, m)) \/ Retry(q) PROVE ScopeInv'
    <3>1. requests = [p \in Requests |-> requests[p]]
      BY DEF GatewayInv
    <3>2. UNCHANGED journal /\ \E m \in Menu[KeyOf(q)] : OnlyTo(q, Calls(m))
      BY <2>2, <3>1, SomethingArrives DEF Arrives, OnlyTo
    <3> QED  BY <3>2, ScopeStays
  <2>3. ASSUME NEW r \in Runs, NEW to, AgentMovesRun(r, to) PROVE ScopeInv'
    <3> DEFINE e == AboutItem(NoItem, "RunStateChanged", r, NoItem, to)
    <3>1. journal' = Append(journal, e) /\ requests' = requests /\ e.type = "RunStateChanged"
      BY <2>3, ItemFields DEF AgentMovesRun, MovesRun, Appends
    <3>2. IsSeq(journal)
      BY DEF GatewayInv, JournalInv
    <3> HIDE DEF e
    <3>3. \A s : (Planned(journal', s) <=> Planned(journal, s)) /\ (ScopeAsked(journal', s) <=> ScopeAsked(journal, s))
      BY <3>1, <3>2, KnownOfAppend DEF Planned, ScopeAsked
    <3> QED  BY <3>1, <3>3 DEF ScopeInv
  <2> QED  BY <2>1, <2>2, <2>3, ScopeStep DEF Next
<1> QED  BY <1>1, <1>2, GatewayAlways, PTL DEF Spec

\* Whoever asks for a scope approval still had to.
LEMMA AskingWasOpen ==
  ASSUME GatewayInv, ScopeInv, Next, NEW e, journal' = Append(journal, e), NEW r,
         e.type = "ApprovalRequested", e.item = Derived("approval", r)
  PROVE  \E q \in Requests : Open(requests[q].todo, r)
<1>1. ~ UNCHANGED journal /\ \A d : journal' = Append(journal, d) => d = e
  <2>1. /\ IsSeq(journal)
        /\ \A d : /\ DOMAIN Append(journal, d) = 1..(Len(journal) + 1) /\ DOMAIN journal = 1..Len(journal)
                  /\ Len(journal) \in Nat /\ Append(journal, d)[Len(journal) + 1] = d
    BY AppendIsSeq DEF GatewayInv, JournalInv
  <2> QED  BY <2>1
<1>2. ASSUME NEW q, NEW type, NEW run, NEW item, NEW value, Appends(q, type, run, item, value)
      PROVE  type = "ApprovalRequested" /\ item = Derived("approval", r)
  BY <1>1, <1>2, ItemFields DEF Appends
<1>3. ASSUME NEW q \in Requests, AppendEvent(q) PROVE Open(requests[q].todo, r)
  <2>1. /\ requests[q].status = "running" /\ Next1(q).op = "append"
        /\ Next1(q).type = "ApprovalRequested" /\ Next1(q).item = Derived("approval", r)
    BY <1>2, <1>3 DEF AppendEvent, Running, Next1
  <2>2. requests[q].todo # <<>> /\ IsSeq(requests[q].todo) /\ OnceIn(requests[q].todo, r)
    <3>1. RequestInv(q, requests[q], responses[KeyOf(q)], journal) /\ requests[q].todo # <<>>
      BY <2>1, WhenRunning
    <3> QED  BY <3>1 DEF RequestInv, Program, ScopeInv
  <2>3. Scope(Head(requests[q].todo), r)
    BY <2>1 DEF Scope, Next1
  <2> QED  BY <2>2, <2>3, OpenAfterFirst
<1>4. ASSUME NEW q \in Requests, AppendIfMissing(q) PROVE FALSE
  <2>1. requests[q].status = "running" /\ Next1(q).op = "ifMissing" /\ Next1(q).type = "ApprovalRequested"
    BY <1>1, <1>2, <1>4 DEF AppendIfMissing, Running, Next1
  <2> QED  BY <2>1, WhenRunning DEF Fits
<1>5. ASSUME NEW q \in Requests, Step(q) PROVE AppendEvent(q)
  <2>1. ~ (CreateRun(q) \/ TransitionRun(q) \/ StartAgentWork(q) \/ RecordSupervisorDecision(q) \/ CompleteRun(q))
    BY <1>1, <1>2 DEF CreateRun, TransitionRun, MovesRun, StartAgentWork, RecordSupervisorDecision, CompleteRun
  <2>2. ~ (\/ CallFails(q) \/ GetIdempotency(q) \/ PutIdempotency(q) \/ ReadLatestRun(q) \/ GetRun(q)
           \/ GetLatestRun(q) \/ EnsureSeed(q) \/ ReadRecovery(q) \/ ReadHunk(q))
    BY <1>1 DEF CallFails, GetIdempotency, PutIdempotency, ReadLatestRun, GetRun, GetLatestRun, EnsureSeed,
                ReadRecovery, ReadHunk
  <2> QED  BY <1>4, <1>5, <2>1, <2>2 DEF Step
<1>6. ~ (\E q \in Requests : Retry(q) \/ \E m \in Menu[KeyOf(q)] : Receive(q, m))
  BY <1>1 DEF Receive, Retry, Arrives
<1>7. ~ (\E s \in Runs : \E to \in AgentMoves[s] : AgentMovesRun(s, to))
  BY <1>2 DEF AgentMovesRun, MovesRun
<1> QED  BY <1>3, <1>5, <1>6, <1>7 DEF Next

\* Once a scope approval is decided nobody is asked for it again, on the desk or on the phone: of all requests
\* and retries that create the run, only the one whose planner the core accepted asks (seedAgentControlSurface,
\* startAgentWork, rebuildControlRoomProjection).
THEOREM ScopesStayDecided == Spec => ScopeApprovalsStayDecided
<1> DEFINE before == rebuildControlRoomProjection(journal).approvalInbox
           after == rebuildControlRoomProjection(journal')
           Stays == \A r \in Runs : before[Derived("approval", r)] \in {"approved", "rejected"} =>
                      /\ after.approvalInbox[Derived("approval", r)] # "requested"
                      /\ <<"approval", Derived("approval", r)>> \notin buildMobileNextActions(after)
<1>1. GatewayInv /\ ShownInv /\ ShownInv' /\ ScopeInv /\ ScopeInv' /\ [Next]_vars => [Stays]_vars
  <2> SUFFICES ASSUME GatewayInv, ShownInv, ScopeInv, ScopeInv', Next,
                      NEW r \in Runs, before[Derived("approval", r)] \in {"approved", "rejected"}
               PROVE  /\ after.approvalInbox[Derived("approval", r)] # "requested"
                      /\ <<"approval", Derived("approval", r)>> \notin buildMobileNextActions(after)
    OBVIOUS
  <2> DEFINE a == Derived("approval", r)
  <2>1. after.approvalInbox[a] # "requested"
    <3>1. CASE UNCHANGED journal
      BY <3>1
    <3>2. ASSUME NEW e, journal' = Append(journal, e) PROVE after.approvalInbox[a] # "requested"
      <4> DEFINE v == ViewOf(journal)
      <4>1. IsSeq(journal) /\ ViewShape(v) /\ v.approvalInbox = before
        BY DEF GatewayInv, JournalInv, ShownInv, ViewInv, ViewOf
      <4>2. after.approvalInbox = InboxAfter(v, e)
        BY <3>2, <4>1, RebuildOfAppend, ShowsOne DEF ViewOf
      <4>3. a \in Items /\ before = [i \in Items |-> before[i]]
        BY <4>1, ScopeApprovalsAreItems DEF ViewShape
      <4>4. before[a] # NoItem
        BY NothingIsNone
      <4>5. Known(journal, "ApprovalRequested", a)
        BY <4>1, <4>3, <4>4 DEF ShownInv, ViewInv
      <4>6. ~ (e.type = "ApprovalRequested" /\ e.item = a)
        BY <3>2, <4>5, AskingWasOpen DEF ScopeInv, ScopeAsked
      <4> QED  BY <4>1, <4>2, <4>3, <4>4, <4>6 DEF InboxAfter
    <3> QED  BY <3>1, <3>2, WhatIsWritten
  <2> HIDE DEF after, before, a
  <2>2. <<"approval", a>> \notin buildMobileNextActions(after)
    BY <2>1 DEF buildMobileNextActions
  <2> QED  BY <2>1, <2>2 DEF a
<1> QED  BY <1>1, ShownAlways, ScopeAlways, PTL DEF Spec, ScopeApprovalsStayDecided

=============================================================================
