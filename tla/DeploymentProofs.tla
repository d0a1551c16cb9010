-------------------------- MODULE DeploymentProofs --------------------------
(***************************************************************************)
(* What an activation's success promises, for any manifest, any releases   *)
(* and any number of overlapping activations and failures.                 *)
(***************************************************************************)
EXTENDS DeploymentActivation, SequenceProofs

\* A request keeps the fields it began with.
IsRequest(r) == DOMAIN r = {"phase", "release", "changed", "group", "todo", "log", "seen"}

Serves(runs, service, release) == runs[service] # Down => Version[runs[service]] = Version[release]

\* What a request r says of the services when it is the one that copied last: what is found in the
\* directory is its release, and what it has seen of a service still holds.
Holds(r, found, runs) ==
  /\ found = r.release
  /\ r.phase # "idle"
  /\ r.phase = "observe" =>
       \A service \in DOMAIN r.seen \cap Observed : r.seen[service] = TRUE => Serves(runs, service, r.release)
  /\ r.phase = "ok" => \A service \in Observed : Serves(runs, service, r.release)

\* Nothing is seen before the restarts are over.
Blind(r) == r.phase \in {"idle", "restart", "health"} => r.seen = <<>>

ServedInv ==
  /\ running = [service \in Observed |-> running[service]]
  /\ requests = [a \in Activations |-> requests[a]]
  /\ \A a \in Activations : IsRequest(requests[a]) /\ Blind(requests[a])
  /\ \A a \in Activations : copiedBy = a => Holds(requests[a], current, running)

-----------------------------------------------------------------------------
\* A step of activation b that makes of its request r keeps the invariant when r does, and when
\* what the others have seen still holds.
LEMMA RequestChanges ==
  ASSUME ServedInv, NEW b \in Activations, NEW r, IsRequest(r), Blind(r),
         requests' = [requests EXCEPT ![b] = r],
         copiedBy' = b => Holds(r, current', running'),
         \A a \in Activations \ {b} : copiedBy' = a => copiedBy = a /\ Holds(requests[a], current', running'),
         running' = [service \in Observed |-> running'[service]]
  PROVE  ServedInv'
<1>1. /\ requests' = [a \in Activations |-> requests'[a]]
      /\ requests'[b] = r
      /\ \A a \in Activations \ {b} : requests'[a] = requests[a]
  BY DEF ServedInv
<1>2. ASSUME NEW a \in Activations PROVE IsRequest(requests'[a]) /\ Blind(requests'[a])
  <2>1. CASE a = b
    BY <1>1, <2>1
  <2>2. CASE a # b
    BY <1>1, <2>2 DEF ServedInv
  <2> QED  BY <2>1, <2>2
<1>3. ASSUME NEW a \in Activations, copiedBy' = a PROVE Holds(requests'[a], current', running')
  <2>1. CASE a = b
    BY <1>1, <1>3, <2>1
  <2>2. CASE a # b
    BY <1>1, <1>3, <2>2
  <2> QED  BY <2>1, <2>2
<1> HIDE DEF IsRequest, Blind, Holds
<1> QED  BY <1>1, <1>2, <1>3 DEF ServedInv

\* The services load what is in the directory, which is the release of whoever copied last.
LEMMA LoadingKeeps ==
  ASSUME NEW r, NEW runs, NEW found, Holds(r, found, runs), NEW service,
         runs = [s \in Observed |-> runs[s]],
         NEW loaded \in {found, Down}
  PROVE  Holds(r, found, [runs EXCEPT ![service] = loaded])
<1> DEFINE after == [runs EXCEPT ![service] = loaded]
<1>1. \A s \in Observed : after[s] = IF s = service THEN loaded ELSE runs[s]
  OBVIOUS
<1>2. ASSUME NEW s \in Observed, Serves(runs, s, r.release) PROVE Serves(after, s, r.release)
  BY <1>1, <1>2 DEF Serves, Holds
<1> HIDE DEF after
<1>3. Holds(r, found, after)
  BY <1>2 DEF Holds
<1> QED  BY <1>3 DEF after

\* A request that only fails, or goes on before it observes, claims nothing.
LEMMA ModestHolds ==
  ASSUME NEW r, NEW s, NEW found, NEW runs, Holds(r, found, runs), s.release = r.release,
         s.phase \in {"restart", "health", "failed"}
  PROVE  Holds(s, found, runs)
BY DEF Holds

LEMMA FailedRequest ==
  ASSUME NEW r, IsRequest(r)
  PROVE  LET s == [r EXCEPT !.phase = "failed"]
         IN  IsRequest(s) /\ Blind(s) /\ s.release = r.release /\ s.phase = "failed" /\ s.seen = r.seen
BY DEF IsRequest, Blind

LEMMA FailureKeeps ==
  ASSUME ServedInv, NEW b \in Activations, Fail(b), UNCHANGED running,
         UNCHANGED <<current, copiedBy>> \/ copiedBy' = Nobody
  PROVE  ServedInv'
<1> DEFINE s == [requests[b] EXCEPT !.phase = "failed"]
<1>1. /\ IsRequest(s) /\ Blind(s) /\ s.release = requests[b].release /\ s.phase = "failed"
  BY FailedRequest DEF ServedInv
<1>2. requests' = [requests EXCEPT ![b] = s]
  BY DEF Fail
<1> HIDE DEF s
<1>3. running' = [service \in Observed |-> running'[service]]
  BY DEF ServedInv
<1>4. CASE UNCHANGED <<current, copiedBy>>
  <2>1. copiedBy' = b => Holds(s, current', running')
    <3>1. copiedBy' = b => Holds(requests[b], current', running')
      BY <1>4 DEF ServedInv
    <3> QED  BY <1>1, <3>1, ModestHolds
  <2>2. \A a \in Activations \ {b} : copiedBy' = a => copiedBy = a /\ Holds(requests[a], current', running')
    BY <1>4 DEF ServedInv
  <2> QED  BY <1>1, <1>2, <1>3, <2>1, <2>2, RequestChanges
<1>5. CASE copiedBy' = Nobody
  <2>1. copiedBy' \notin Activations
    BY <1>5, ActivationsAreNumbered
  <2> QED  BY <1>1, <1>2, <1>3, <2>1, RequestChanges
<1> QED  BY <1>4, <1>5

LEMMA CopyKeeps ==
  ASSUME ServedInv, NEW b \in Activations, NEW release, NEW changed, Copy(b, release, changed)
  PROVE  ServedInv'
<1> DEFINE s == Begins(release, changed)
<1>1. /\ IsRequest(s) /\ Blind(s) /\ s.release = release /\ s.phase \in {"restart", "observe"} /\ s.seen = <<>>
  BY DEF Begins, Idle, IsRequest, Blind
<1>2. requests' = [requests EXCEPT ![b] = s] /\ copiedBy' = b /\ current' = release /\ running' = running
  BY DEF Copy
<1> HIDE DEF s
<1>3. Holds(s, current', running')
  BY <1>1, <1>2 DEF Holds
<1>4. running' = [service \in Observed |-> running'[service]]
  BY <1>2 DEF ServedInv
<1> QED  BY <1>1, <1>2, <1>3, <1>4, RequestChanges

LEMMA RestartKeeps ==
  ASSUME ServedInv, NEW b \in Activations, Restart(b)
  PROVE  ServedInv'
<1> DEFINE r == requests[b]
           done == Tail(r.todo) = <<>>
           s == [r EXCEPT !.log = Append(@, [did |-> "restart", service |-> Head(r.todo)]),
                          !.phase = IF done THEN "health" ELSE @,
                          !.todo = IF done THEN Groups(b)[r.group] ELSE Tail(@)]
<1>1. /\ r.phase = "restart" /\ requests' = [requests EXCEPT ![b] = s]
      /\ running' = [running EXCEPT ![Head(r.todo)] = Loaded] /\ current' = current /\ copiedBy' = copiedBy
  BY DEF Restart
<1>2. IsRequest(r) /\ r.seen = <<>>
  BY <1>1 DEF ServedInv, Blind
<1>3. IsRequest(s) /\ Blind(s) /\ s.release = r.release /\ s.phase \in {"restart", "health"}
  <2> DEFINE log == Append(r.log, [did |-> "restart", service |-> Head(r.todo)])
             phase == IF done THEN "health" ELSE r.phase
             todo == IF done THEN Groups(b)[r.group] ELSE Tail(r.todo)
  <2>1. s = [r EXCEPT !.log = log, !.phase = phase, !.todo = todo]
    OBVIOUS
  <2>2. phase \in {"restart", "health"}
    BY <1>1
  <2> HIDE DEF r, log, phase, todo, s
  <2>3. IsRequest(s) /\ s.release = r.release /\ s.phase = phase /\ s.seen = r.seen
    BY <1>2, <2>1 DEF IsRequest
  <2> QED  BY <1>2, <2>2, <2>3 DEF Blind
<1> HIDE DEF s, done
<1>4. Loaded \in {current, Down}
  BY DEF Loaded
<1>5. ASSUME NEW a \in Activations, copiedBy' = a
      PROVE  copiedBy = a /\ Holds(requests[a], current', running')
  <2>1. copiedBy = a /\ Holds(requests[a], current, running) /\ running = [service \in Observed |-> running[service]]
    BY <1>1, <1>5 DEF ServedInv
  <2> QED  BY <1>1, <1>4, <2>1, LoadingKeeps
<1>6. copiedBy' = b => Holds(s, current', running')
  BY <1>3, <1>5, ModestHolds
<1>7. running' = [service \in Observed |-> running'[service]]
  BY <1>1 DEF ServedInv
<1> QED  BY <1>1, <1>3, <1>5, <1>6, <1>7, RequestChanges

LEMMA HealthKeeps ==
  ASSUME ServedInv, NEW b \in Activations, CheckHealth(b)
  PROVE  ServedInv'
<1> DEFINE r == requests[b]
           logged == [r EXCEPT !.log = Append(@, [did |-> "healthy", service |-> Head(r.todo)]), !.todo = Tail(@)]
           s == IF logged.todo # <<>> THEN logged
                ELSE IF r.group = Len(Groups(b)) THEN [logged EXCEPT !.phase = "observe"]
                ELSE [logged EXCEPT !.phase = "restart", !.group = @ + 1, !.todo = Groups(b)[r.group + 1]]
<1>1. r.phase = "health" /\ requests' = [requests EXCEPT ![b] = s] /\ UNCHANGED <<current, running, copiedBy>>
  BY DEF CheckHealth
<1>2. IsRequest(r) /\ r.seen = <<>>
  BY <1>1 DEF ServedInv, Blind
<1>3. /\ IsRequest(logged) /\ logged.release = r.release /\ logged.phase = "health" /\ logged.seen = <<>>
  <2> DEFINE log == Append(r.log, [did |-> "healthy", service |-> Head(r.todo)])
             todo == Tail(r.todo)
  <2>1. logged = [r EXCEPT !.log = log, !.todo = todo]
    OBVIOUS
  <2> HIDE DEF r, log, todo, logged
  <2>2. IsRequest(logged) /\ logged.release = r.release /\ logged.phase = r.phase /\ logged.seen = r.seen
    BY <1>2, <2>1 DEF IsRequest
  <2> QED  BY <1>1, <1>2, <2>2
<1> HIDE DEF logged
<1>4. IsRequest(s) /\ Blind(s) /\ s.release = r.release /\ s.phase \in {"restart", "health", "observe"} /\ s.seen = <<>>
  BY <1>3 DEF IsRequest, Blind
<1> HIDE DEF s
<1>5. \A a \in Activations : copiedBy' = a => copiedBy = a /\ Holds(requests[a], current', running')
  BY <1>1 DEF ServedInv
<1>6. copiedBy' = b => Holds(s, current', running')
  BY <1>4, <1>5 DEF Holds
<1>7. running' = [service \in Observed |-> running'[service]]
  BY <1>1 DEF ServedInv
<1> QED  BY <1>1, <1>4, <1>5, <1>6, <1>7, RequestChanges

\* What is seen of a service is what it serves then.
LEMMA ObserveKeeps ==
  ASSUME ServedInv, NEW b \in Activations, NEW service \in Observed, Observe(b, service)
  PROVE  ServedInv'
<1> DEFINE r == requests[b]
           seen == Seeing(r.seen, service, Reports(service, r.release))
           s == [r EXCEPT !.seen = seen]
<1>1. r.phase = "observe" /\ requests' = [requests EXCEPT ![b] = s] /\ UNCHANGED <<current, running, copiedBy>>
  BY DEF Observe
<1>2. IsRequest(r)
  BY DEF ServedInv
<1>3. IsRequest(s) /\ Blind(s) /\ s.release = r.release /\ s.phase = "observe" /\ s.seen = seen
  <2> HIDE DEF seen
  <2> QED  BY <1>1, <1>2 DEF IsRequest, Blind
<1>4. /\ DOMAIN seen = DOMAIN r.seen \cup {service}
      /\ seen[service] = Reports(service, r.release)
      /\ \A other \in DOMAIN r.seen \ {service} : seen[other] = r.seen[other]
  BY DEF Seeing
<1> HIDE DEF s, seen
<1>5. \A a \in Activations : copiedBy' = a => copiedBy = a /\ Holds(requests[a], current', running')
  BY <1>1 DEF ServedInv
<1>6. ASSUME copiedBy' = b PROVE Holds(s, current', running')
  <2>1. Holds(r, current, running)
    BY <1>1, <1>5, <1>6
  <2>2. ASSUME NEW other \in DOMAIN s.seen \cap Observed, s.seen[other] = TRUE
        PROVE  Serves(running, other, r.release)
    <3>1. CASE other = service
      BY <1>3, <1>4, <2>2, <3>1 DEF Reports, Serves
    <3>2. CASE other # service
      BY <1>1, <1>3, <1>4, <2>1, <2>2, <3>2 DEF Holds
    <3> QED  BY <3>1, <3>2
  <2> QED  BY <1>1, <1>3, <2>1, <2>2 DEF Holds
<1>7. running' = [s1 \in Observed |-> running'[s1]]
  BY <1>1 DEF ServedInv
<1> QED  BY <1>1, <1>3, <1>5, <1>6, <1>7, RequestChanges

\* A success is answered when all was seen.
LEMMA VerifyKeeps ==
  ASSUME ServedInv, NEW b \in Activations, Verify(b)
  PROVE  ServedInv'
<1> DEFINE r == requests[b]
           s == [r EXCEPT !.phase = IF Valid(r) THEN "ok" ELSE "failed", !.seen = <<>>]
<1>1. /\ r.phase = "observe" /\ DOMAIN r.seen = Observed /\ requests' = [requests EXCEPT ![b] = s]
      /\ UNCHANGED <<current, running, copiedBy>>
  <2>1. [requests EXCEPT ![b].phase = IF Valid(requests[b]) THEN "ok" ELSE "failed", ![b].seen = <<>>]
        = [requests EXCEPT ![b] = s]
    BY DEF ServedInv
  <2> QED  BY <2>1 DEF Verify
<1>2. IsRequest(r)
  BY DEF ServedInv
<1>3. /\ IsRequest(s) /\ Blind(s) /\ s.release = r.release
      /\ s.phase = IF Valid(r) THEN "ok" ELSE "failed"
  <2> DEFINE phase == IF Valid(r) THEN "ok" ELSE "failed"
  <2>1. s = [r EXCEPT !.phase = phase, !.seen = <<>>]
    OBVIOUS
  <2>2. phase \in {"ok", "failed"}
    OBVIOUS
  <2> HIDE DEF r, phase, s
  <2>3. IsRequest(s) /\ s.release = r.release /\ s.phase = phase /\ s.seen = <<>>
    BY <1>2, <2>1 DEF IsRequest
  <2> QED  BY <2>2, <2>3 DEF Blind, phase
<1> HIDE DEF s
<1>4. \A a \in Activations : copiedBy' = a => copiedBy = a /\ Holds(requests[a], current', running')
  BY <1>1 DEF ServedInv
<1>5. ASSUME copiedBy' = b PROVE Holds(s, current', running')
  <2>1. Holds(r, current, running)
    BY <1>1, <1>4, <1>5
  <2>2. CASE Valid(r)
    <3>1. \A service \in Observed : r.seen[service] = TRUE
      BY <2>2 DEF Valid
    <3>2. \A service \in Observed : Serves(running, service, r.release)
      BY <1>1, <2>1, <3>1 DEF Holds
    <3> QED  BY <1>1, <1>3, <2>1, <2>2, <3>2 DEF Holds
  <2>3. CASE ~ Valid(r)
    BY <1>1, <1>3, <2>1, <2>3, ModestHolds
  <2> QED  BY <2>2, <2>3
<1>6. running' = [service \in Observed |-> running'[service]]
  BY <1>1 DEF ServedInv
<1> QED  BY <1>1, <1>3, <1>4, <1>5, <1>6, RequestChanges

\* A service that ends, or starts from what is in the directory, runs nothing else.
LEMMA ServiceKeeps ==
  ASSUME ServedInv, NEW service \in Observed, ServiceStops(service) \/ ServiceStarts(service)
  PROVE  ServedInv'
<1>1. PICK loaded \in {current, Down} : running' = [running EXCEPT ![service] = loaded]
  BY DEF ServiceStops, ServiceStarts
<1>2. UNCHANGED <<current, requests, copiedBy>>
  BY DEF ServiceStops, ServiceStarts
<1>3. ASSUME NEW a \in Activations, copiedBy = a PROVE Holds(requests[a], current, running')
  <2>1. Holds(requests[a], current, running) /\ running = [s \in Observed |-> running[s]]
    BY <1>3 DEF ServedInv
  <2> QED  BY <1>1, <2>1, LoadingKeeps
<1>4. running' = [s \in Observed |-> running'[s]]
  BY <1>1 DEF ServedInv
<1> QED  BY <1>2, <1>3, <1>4 DEF ServedInv

LEMMA CrashKeeps ==
  ASSUME ServedInv, AgentCrashes
  PROVE  ServedInv'
<1>1. /\ running' = running /\ requests' = [a \in Activations |-> requests'[a]]
      /\ UNCHANGED <<current, copiedBy>> \/ copiedBy' = Nobody
      /\ \A a \in Activations : requests'[a] = requests[a] \/ requests'[a] = [requests[a] EXCEPT !.phase = "failed"]
  BY DEF AgentCrashes
<1>2. ASSUME NEW a \in Activations PROVE IsRequest(requests'[a]) /\ Blind(requests'[a])
  BY <1>1, FailedRequest DEF ServedInv
<1>3. ASSUME NEW a \in Activations, copiedBy' = a PROVE Holds(requests'[a], current', running')
  <2>1. copiedBy' = copiedBy /\ current' = current
    BY <1>1, <1>3, ActivationsAreNumbered
  <2>2. Holds(requests[a], current', running') /\ IsRequest(requests[a])
    BY <1>1, <1>3, <2>1 DEF ServedInv
  <2>3. CASE requests'[a] = requests[a]
    BY <2>2, <2>3
  <2>4. CASE requests'[a] = [requests[a] EXCEPT !.phase = "failed"]
    BY <2>2, <2>4, FailedRequest, ModestHolds
  <2> QED  BY <1>1, <2>3, <2>4
<1>4. running' = [service \in Observed |-> running'[service]]
  BY <1>1 DEF ServedInv
<1> QED  BY <1>1, <1>2, <1>3, <1>4 DEF ServedInv

-----------------------------------------------------------------------------
LEMMA ServedStart == DeploymentInit => ServedInv
<1> SUFFICES ASSUME DeploymentInit PROVE ServedInv
  OBVIOUS
<1>1. IsRequest(Idle) /\ Blind(Idle)
  BY DEF Idle, IsRequest, Blind
<1>2. copiedBy \notin Activations
  BY ActivationsAreNumbered DEF DeploymentInit
<1>3. requests = [a \in Activations |-> Idle] /\ running = [service \in Observed |-> First]
  BY DEF DeploymentInit
<1> HIDE DEF Idle
<1> QED  BY <1>1, <1>2, <1>3 DEF ServedInv

LEMMA ServedStep == ServedInv /\ [DeploymentNext]_deploymentVars => ServedInv'
<1> SUFFICES ASSUME ServedInv, [DeploymentNext]_deploymentVars PROVE ServedInv'
  OBVIOUS
<1>1. CASE UNCHANGED deploymentVars
  BY <1>1 DEF ServedInv, deploymentVars
<1>2. ASSUME NEW a \in Activations, Proceeds(a) PROVE ServedInv'
  <2>1. CASE HealthTimesOut(a)
    BY <2>1, FailureKeeps DEF HealthTimesOut
  <2> QED  BY <1>2, <2>1, RestartKeeps, HealthKeeps, ObserveKeeps, VerifyKeeps DEF Proceeds
<1>3. ASSUME NEW a \in Activations, CopyFails(a) \/ RestartFails(a) PROVE ServedInv'
  BY <1>3, FailureKeeps DEF CopyFails, RestartFails
<1> QED  BY <1>1, <1>2, <1>3, CopyKeeps, ServiceKeeps, CrashKeeps DEF DeploymentNext

LEMMA ServedIsKept == ServedInv => AnsweredReleaseIsServed
BY DEF ServedInv, Holds, Serves, AnsweredReleaseIsServed

\* Once an activation has answered with success, and until the directory is written again, whatever the
\* services, Docker and other activations do, no service that runs reports another version than that of
\* its release (activate and validateServiceVersionObservations of the deployment agent).
THEOREM SuccessIsServed == DeploymentSpec => []AnsweredReleaseIsServed
<1>1. DeploymentSpec => []ServedInv
  BY ServedStart, ServedStep, PTL DEF DeploymentSpec
<1> QED  BY <1>1, ServedIsKept, PTL

-----------------------------------------------------------------------------
(* The order of the restarts.  A plan respects dependsOn because the list  *)
(* of groups and the manifest's order do; an activation follows its plan.  *)

Agent == "deployment-agent"

EarlierGroup(one, other) ==
  \E i, j \in DOMAIN SERVICE_RESTART_GROUP_ORDER :
    i < j /\ SERVICE_RESTART_GROUP_ORDER[i] = one /\ SERVICE_RESTART_GROUP_ORDER[j] = other

\* What a manifest has to be like: every service after those it depends on, in an earlier group or
\* before it in its own; and none but the agent depends on the agent, which is never restarted.
InOrder(specs) ==
  /\ IsSeq(specs)
  /\ \A i, j \in DOMAIN specs : specs[i].service = specs[j].service => i = j
  /\ \A i \in DOMAIN specs :
       \E g \in DOMAIN SERVICE_RESTART_GROUP_ORDER : SERVICE_RESTART_GROUP_ORDER[g] = specs[i].restartGroup
  /\ \A i, j \in DOMAIN specs :
       specs[i].service # Agent /\ specs[j].service \in specs[i].dependsOn =>
         /\ specs[j].service # Agent
         /\ \/ EarlierGroup(specs[j].restartGroup, specs[i].restartGroup)
            \/ specs[j].restartGroup = specs[i].restartGroup /\ j < i

LEMMA GroupsAreSix ==
  /\ DOMAIN SERVICE_RESTART_GROUP_ORDER = 1..6
  /\ \A i, j \in 1..6 : SERVICE_RESTART_GROUP_ORDER[i] = SERVICE_RESTART_GROUP_ORDER[j] => i = j
BY DEF SERVICE_RESTART_GROUP_ORDER

LEMMA SpecOfItsService ==
  ASSUME NEW specs, InOrder(specs), NEW i \in DOMAIN specs
  PROVE  SpecOf(specs, specs[i].service) = specs[i]
<1> DEFINE k == CHOOSE j \in DOMAIN specs : specs[j].service = specs[i].service
<1>1. k \in DOMAIN specs /\ specs[k].service = specs[i].service
  OBVIOUS
<1>2. k = i
  BY <1>1 DEF InOrder
<1> QED  BY <1>2 DEF SpecOf

LEMMA ImpactedAreNames ==
  ASSUME NEW specs, NEW changed
  PROVE  impactedServicesForChangedPaths(specs, changed) \subseteq Names(specs)
BY DEF impactedServicesForChangedPaths

\* t says where in the manifest the members of a group are.
MembersAt(t, members, specs, group, concerned) ==
  /\ IsSeq(members)
  /\ \A j \in DOMAIN members :
       t[j] \in DOMAIN specs /\ members[j] = specs[t[j]].service /\ specs[t[j]].restartGroup = group
  /\ \A j, k \in DOMAIN members : j < k => t[j] < t[k]
  /\ \A i \in DOMAIN specs : specs[i].service \in concerned /\ specs[i].restartGroup = group =>
       \E j \in DOMAIN members : t[j] = i
  /\ \A j \in DOMAIN members : members[j] \in concerned

LEMMA MembersAreSomewhere ==
  ASSUME NEW specs, InOrder(specs), NEW group, NEW concerned
  PROVE  \E t : MembersAt(t, Members(specs, group, concerned), specs, group, concerned)
<1> DEFINE names == [i \in DOMAIN specs |-> specs[i].service]
           S == {service \in concerned : SpecOf(specs, service).restartGroup = group}
           n == Len(specs)
<1>1. n \in Nat /\ DOMAIN specs = 1..n
  BY DEF InOrder, IsSeq
<1>2. IsSeq(names) /\ Len(names) = n
  <2>1. names \in Seq({specs[i].service : i \in DOMAIN specs}) /\ Len(names) = n
    BY <1>1
  <2> HIDE DEF names
  <2> QED  BY <2>1, SeqIsSeq, Zenon
<1>3. \A i \in DOMAIN specs :
        names[i] = specs[i].service /\ (names[i] \in S <=> specs[i].service \in concerned /\ specs[i].restartGroup = group)
  BY SpecOfItsService
<1>4. Members(specs, group, concerned) = Filtered(names, S)
  BY DEF Members
<1>5. S \subseteq concerned
  OBVIOUS
<1> HIDE DEF names, S, n
<1>6. PICK t : Places(t, Filtered(names, S), names, S, n)
  BY <1>2, FilteredPlaces
<1> DEFINE members == Filtered(names, S)
<1> HIDE DEF members
<1>7. Places(t, members, names, S, n)
  BY <1>6 DEF members
<1>8. MembersAt(t, members, specs, group, concerned)
  BY <1>1, <1>3, <1>5, <1>7 DEF Places, MembersAt
<1> QED  BY <1>4, <1>8 DEF members

\* A plan of groups in which every service comes after those it depends on.
WellPlanned(groups, specs, impacted) ==
  /\ IsSeq(groups)
  /\ \A g \in DOMAIN groups : IsSeq(groups[g]) /\ groups[g] # <<>>
  /\ \A g \in DOMAIN groups : \A i \in DOMAIN groups[g] :
       \A service \in SpecOf(specs, groups[g][i]).dependsOn \cap impacted :
         \/ \E h \in DOMAIN groups : h < g /\ \E j \in DOMAIN groups[h] : groups[h][j] = service
         \/ /\ \E j \in DOMAIN groups[g] : j < i /\ groups[g][j] = service
            /\ SpecOf(specs, service).restartGroup = SpecOf(specs, groups[g][i]).restartGroup

LEMMA PlanRespectsDependencies ==
  ASSUME NEW specs, InOrder(specs), NEW changed
  PROVE  WellPlanned(RestartGroups(specs, changed), specs, impactedServicesForChangedPaths(specs, changed))
<1> DEFINE impacted == impactedServicesForChangedPaths(specs, changed)
           concerned == impacted \ {Agent}
           all == [e \in 1..6 |-> Members(specs, SERVICE_RESTART_GROUP_ORDER[e], concerned)]
           S == ToSet(all) \ {<<>>}
           groups == Filtered(all, S)
<1>1. RestartGroups(specs, changed) = groups
  BY GroupsAreSix DEF RestartGroups, Agent
<1>2. impacted \subseteq Names(specs)
  BY ImpactedAreNames
<1> HIDE DEF impacted
<1>3. IsSeq(all) /\ Len(all) = 6 /\ DOMAIN all = 1..6
  <2>1. all \in Seq({Members(specs, SERVICE_RESTART_GROUP_ORDER[e], concerned) : e \in 1..6}) /\ Len(all) = 6
    OBVIOUS
  <2>2. DOMAIN all = 1..6
    OBVIOUS
  <2> HIDE DEF all
  <2> QED  BY <2>1, <2>2, SeqIsSeq, Zenon
<1>4. \A e \in 1..6 : \E t : MembersAt(t, all[e], specs, SERVICE_RESTART_GROUP_ORDER[e], concerned)
  BY MembersAreSomewhere
<1>5. \A e \in 1..6 : all[e] \in S <=> all[e] # <<>>
  BY <1>3 DEF ToSet
<1>6. <<>> \notin S
  OBVIOUS
<1> HIDE DEF all, S
<1>7. PICK p : Places(p, groups, all, S, 6)
  BY <1>3, FilteredPlaces
<1> HIDE DEF groups
<1>8. IsSeq(groups)
  BY <1>7 DEF Places
<1>9. \A g \in DOMAIN groups : p[g] \in 1..6 /\ groups[g] = all[p[g]]
  BY <1>7 DEF Places
<1>10. ASSUME NEW g \in DOMAIN groups PROVE IsSeq(groups[g]) /\ groups[g] # <<>>
  <2>1. groups[g] \in S
    BY <1>7 DEF Places
  <2> QED  BY <1>4, <1>6, <1>9, <2>1 DEF MembersAt
<1>11. ASSUME NEW g \in DOMAIN groups, NEW i \in DOMAIN groups[g],
              NEW service \in SpecOf(specs, groups[g][i]).dependsOn \cap impacted
       PROVE  \/ \E h \in DOMAIN groups : h < g /\ \E j \in DOMAIN groups[h] : groups[h][j] = service
              \/ /\ \E j \in DOMAIN groups[g] : j < i /\ groups[g][j] = service
                 /\ SpecOf(specs, service).restartGroup = SpecOf(specs, groups[g][i]).restartGroup
  <2> DEFINE e == p[g]
  <2>1. e \in 1..6 /\ groups[g] = all[e]
    BY <1>9
  <2>2. PICK t : MembersAt(t, groups[g], specs, SERVICE_RESTART_GROUP_ORDER[e], concerned)
    BY <1>4, <2>1
  <2> HIDE DEF e
  <2> DEFINE m == t[i]
  <2>3. /\ m \in DOMAIN specs /\ groups[g][i] = specs[m].service /\ specs[m].service # Agent
        /\ specs[m].restartGroup = SERVICE_RESTART_GROUP_ORDER[e]
    BY <2>2 DEF MembersAt
  <2> HIDE DEF m
  <2>4. SpecOf(specs, groups[g][i]) = specs[m]
    BY <2>3, SpecOfItsService
  <2>5. PICK k \in DOMAIN specs : specs[k].service = service
    BY <1>2 DEF Names
  <2>6. SpecOf(specs, service) = specs[k]
    BY <2>5, SpecOfItsService
  <2>7. /\ specs[k].service # Agent
        /\ \/ EarlierGroup(specs[k].restartGroup, specs[m].restartGroup)
           \/ specs[k].restartGroup = specs[m].restartGroup /\ k < m
    BY <2>3, <2>4, <2>5 DEF InOrder
  <2>8. specs[k].service \in concerned
    BY <2>5, <2>7
  <2>9. CASE EarlierGroup(specs[k].restartGroup, specs[m].restartGroup)
    <3>1. PICK d \in 1..6 : d < e /\ SERVICE_RESTART_GROUP_ORDER[d] = specs[k].restartGroup
      BY <2>1, <2>3, <2>9, GroupsAreSix DEF EarlierGroup
    <3>2. PICK u : MembersAt(u, all[d], specs, SERVICE_RESTART_GROUP_ORDER[d], concerned)
      BY <1>4
    <3>3. PICK j \in DOMAIN all[d] : u[j] = k
      BY <2>8, <3>1, <3>2 DEF MembersAt
    <3>4. all[d][j] = service
      BY <2>5, <3>2, <3>3 DEF MembersAt
    <3>5. all[d] \in S
      <4>1. DOMAIN <<>> = {}
        OBVIOUS
      <4> QED  BY <1>5, <3>3, <4>1
    <3>6. PICK h \in DOMAIN groups : p[h] = d
      BY <1>7, <3>5 DEF Places
    <3>7. h < g
      <4>1. h \in Nat /\ g \in Nat
        BY <1>8 DEF IsSeq
      <4>2. g < h => p[g] < p[h]
        BY <1>7 DEF Places
      <4> QED  BY <2>1, <3>1, <3>6, <4>1, <4>2 DEF e
    <3>8. groups[h] = all[d]
      BY <1>9, <3>6
    <3> QED  BY <3>3, <3>4, <3>7, <3>8
  <2>10. CASE specs[k].restartGroup = specs[m].restartGroup /\ k < m
    <3>1. PICK j \in DOMAIN groups[g] : t[j] = k
      BY <2>2, <2>3, <2>8, <2>10 DEF MembersAt
    <3>2. groups[g][j] = service
      BY <2>2, <2>5, <3>1 DEF MembersAt
    <3>3. j < i
      <4>1. j \in Nat /\ i \in Nat /\ k \in Nat /\ m \in Nat
        BY <1>10, <2>3 DEF IsSeq, InOrder
      <4>2. i < j => t[i] < t[j]
        BY <2>2 DEF MembersAt
      <4> QED  BY <2>10, <3>1, <4>1, <4>2 DEF m
    <3> QED  BY <2>4, <2>6, <2>10, <3>1, <3>2, <3>3
  <2> QED  BY <2>7, <2>9, <2>10
<1>12. WellPlanned(groups, specs, impacted)
  BY <1>8, <1>10, <1>11 DEF WellPlanned
<1> QED  BY <1>1, <1>12 DEF impacted

-----------------------------------------------------------------------------
\* An activation follows its plan.

Did(log, did, service) == \E j \in DOMAIN log : log[j] = [did |-> did, service |-> service]

Impacted(changed) == impactedServicesForChangedPaths(Manifest, changed)
GroupOf(service) == SpecOf(Manifest, service).restartGroup
Due(service, changed) == SpecOf(Manifest, service).dependsOn \cap Impacted(changed)

\* What has to be in the log before a service is restarted.
Awaited(log, service, changed) ==
  \A other \in Due(service, changed) :
    /\ Did(log, "restart", other)
    /\ Did(log, "healthy", other) \/ GroupOf(other) = GroupOf(service)

EarlierDid(log, i, did, service) == \E j \in 1..(i - 1) : log[j] = [did |-> did, service |-> service]

LogInOrder(log, changed) ==
  \A i \in DOMAIN log : log[i].did = "restart" =>
    \A other \in Due(log[i].service, changed) :
      /\ EarlierDid(log, i, "restart", other)
      /\ EarlierDid(log, i, "healthy", other) \/ GroupOf(other) = GroupOf(log[i].service)

\* What is left of a group when n of its services were restarted, or found healthy.
Left(todo, members, n) ==
  /\ n \in 0..(Len(members) - 1)
  /\ IsSeq(todo) /\ Len(todo) = Len(members) - n
  /\ \A i \in 1..Len(todo) : todo[i] = members[n + i]

GroupDid(log, did, members) == \A i \in DOMAIN members : Did(log, did, members[i])

\* Where an activation with these groups stands in its group.
Stands(groups, phase, group, todo, log) ==
  /\ group \in DOMAIN groups
  /\ \A g \in DOMAIN groups : g < group => GroupDid(log, "restart", groups[g]) /\ GroupDid(log, "healthy", groups[g])
  /\ \E n \in 0..(Len(groups[group]) - 1) :
       /\ Left(todo, groups[group], n)
       /\ \A i \in 1..n : Did(log, IF phase = "restart" THEN "restart" ELSE "healthy", groups[group][i])
  /\ phase = "health" => GroupDid(log, "restart", groups[group])

FollowsPlan(r) ==
  /\ IsRequest(r)
  /\ IsSeq(r.log)
  /\ LogInOrder(r.log, r.changed)
  /\ r.phase \in {"restart", "health"} =>
       r.changed \in Changes /\ Stands(Plan[r.changed], r.phase, r.group, r.todo, r.log)

OrderInv ==
  /\ requests = [a \in Activations |-> requests[a]]
  /\ \A a \in Activations : FollowsPlan(requests[a])

PlansAreGood == \A changed \in Changes : WellPlanned(Plan[changed], Manifest, Impacted(changed))

\* The log only grows.
LEMMA LogGrows ==
  ASSUME NEW log, IsSeq(log), NEW did, NEW service
  PROVE  LET more == Append(log, [did |-> did, service |-> service])
         IN  /\ IsSeq(more)
             /\ Did(more, did, service)
             /\ \A d, s : Did(log, d, s) => Did(more, d, s)
<1> DEFINE e == [did |-> did, service |-> service]
           more == Append(log, e)
<1>1. /\ IsSeq(more) /\ DOMAIN more = 1..(Len(log) + 1) /\ Len(log) \in Nat /\ DOMAIN log = 1..Len(log)
      /\ more[Len(log) + 1] = e /\ \A i \in DOMAIN log : more[i] = log[i]
  BY AppendIsSeq
<1> HIDE DEF more
<1>2. Did(more, did, service)
  BY <1>1 DEF Did
<1>3. ASSUME NEW d, NEW s, Did(log, d, s) PROVE Did(more, d, s)
  BY <1>1, <1>3 DEF Did
<1> QED  BY <1>1, <1>2, <1>3 DEF more

LEMMA LogStaysInOrder ==
  ASSUME NEW log, IsSeq(log), NEW changed, LogInOrder(log, changed), NEW did, NEW service,
         did = "restart" => Awaited(log, service, changed)
  PROVE  LogInOrder(Append(log, [did |-> did, service |-> service]), changed)
<1> DEFINE e == [did |-> did, service |-> service]
           more == Append(log, e)
           n == Len(log)
<1>1. /\ DOMAIN more = 1..(n + 1) /\ n \in Nat /\ DOMAIN log = 1..n
      /\ more[n + 1] = e /\ \A i \in DOMAIN log : more[i] = log[i]
  BY AppendIsSeq
<1> HIDE DEF more, n
<1>2. ASSUME NEW i \in 1..n, NEW d, NEW s, EarlierDid(log, i, d, s) PROVE EarlierDid(more, i, d, s)
  BY <1>1, <1>2 DEF EarlierDid
<1>3. ASSUME NEW d, NEW s, Did(log, d, s) PROVE EarlierDid(more, n + 1, d, s)
  BY <1>1, <1>3 DEF EarlierDid, Did
<1>4. ASSUME NEW i \in DOMAIN more, more[i].did = "restart", NEW other \in Due(more[i].service, changed)
      PROVE  /\ EarlierDid(more, i, "restart", other)
             /\ EarlierDid(more, i, "healthy", other) \/ GroupOf(other) = GroupOf(more[i].service)
  <2>1. CASE i \in 1..n
    <3>1. more[i] = log[i]
      BY <1>1, <2>1
    <3> QED  BY <1>1, <1>2, <1>4, <2>1, <3>1 DEF LogInOrder
  <2>2. CASE i = n + 1
    <3>1. more[i].did = did /\ more[i].service = service
      BY <1>1, <2>2
    <3> QED  BY <1>3, <1>4, <2>2, <3>1 DEF Awaited
  <2> QED  BY <1>1, <2>1, <2>2
<1> QED  BY <1>4 DEF LogInOrder, more

\* The next of the group, and what is left after it.
LEMMA LeftNext ==
  ASSUME NEW todo, NEW members, NEW n, IsSeq(members), Left(todo, members, n)
  PROVE  /\ n + 1 \in DOMAIN members /\ Head(todo) = members[n + 1] /\ n \in Nat
         /\ DOMAIN members = 1..Len(members) /\ Len(members) \in Nat
         /\ Tail(todo) = <<>> => n + 1 = Len(members)
         /\ Tail(todo) # <<>> => Left(Tail(todo), members, n + 1)
<1> DEFINE m == Len(members)
           rest == Tail(todo)
           first == Head(todo)
<1>1. m \in Nat /\ DOMAIN members = 1..m /\ n \in 0..(m - 1)
  BY DEF IsSeq, Left
<1>2. IsSeq(todo) /\ Len(todo) = m - n /\ \A i \in 1..(m - n) : todo[i] = members[n + i]
  BY DEF Left
<1>3. todo # <<>>
  <2>1. Len(<<>>) = 0
    OBVIOUS
  <2> QED  BY <1>1, <1>2, <2>1
<1>4. /\ IsSeq(rest) /\ Len(rest) = Len(todo) - 1 /\ first = todo[1]
      /\ DOMAIN rest = 1..(Len(todo) - 1)
      /\ \A i \in 1..(Len(todo) - 1) : rest[i] = todo[i + 1]
  BY <1>2, <1>3, TailIsSeq, Zenon
<1> HIDE DEF m, rest, first
<1>5. /\ IsSeq(rest) /\ Len(rest) = m - (n + 1) /\ first = members[n + 1]
      /\ \A i \in 1..(m - (n + 1)) : rest[i] = members[(n + 1) + i]
  <2>1. Len(rest) = m - (n + 1) /\ 1 \in 1..(m - n)
    BY <1>1, <1>2, <1>4
  <2>2. ASSUME NEW i \in 1..(m - (n + 1)) PROVE rest[i] = members[(n + 1) + i]
    <3>1. i + 1 \in 1..(m - n) /\ n + (i + 1) = (n + 1) + i
      BY <1>1
    <3> QED  BY <1>1, <1>2, <1>4, <3>1
  <2> QED  BY <1>1, <1>2, <1>4, <2>1, <2>2
<1>6. rest = <<>> => n + 1 = m
  <2>1. Len(<<>>) = 0
    OBVIOUS
  <2> QED  BY <1>1, <1>5, <2>1
<1>7. ASSUME rest # <<>> PROVE Left(rest, members, n + 1)
  <2>1. Len(rest) # 0
    <3>1. rest \in Seq(ToSet(rest))
      BY <1>5 DEF IsSeq
    <3> QED  BY <1>7, <3>1
  <2>2. n + 1 \in 0..(m - 1)
    BY <1>1, <1>5, <2>1
  <2> QED  BY <1>5, <2>2 DEF Left, m
<1>8. n + 1 \in DOMAIN members /\ n \in Nat
  BY <1>1
<1> QED  BY <1>1, <1>5, <1>6, <1>7, <1>8 DEF m, rest, first

LEMMA LeftAtFirst ==
  ASSUME NEW members, IsSeq(members), members # <<>>
  PROVE  Left(members, members, 0)
<1>1. Len(members) \in Nat /\ Len(members) # 0
  BY DEF IsSeq
<1> QED  BY <1>1 DEF Left

\* Where the next service of the group is, and what is known of the groups before.
LEMMA StandsAt ==
  ASSUME NEW groups, NEW specs, NEW impacted, WellPlanned(groups, specs, impacted), NEW phase, NEW group, NEW todo,
         NEW log, Stands(groups, phase, group, todo, log)
  PROVE  /\ IsSeq(groups) /\ group \in DOMAIN groups /\ IsSeq(groups[group]) /\ groups[group] # <<>>
         /\ \E n \in 0..(Len(groups[group]) - 1) :
              /\ Left(todo, groups[group], n)
              /\ \A i \in 1..n : Did(log, IF phase = "restart" THEN "restart" ELSE "healthy", groups[group][i])
              /\ n + 1 \in DOMAIN groups[group] /\ Head(todo) = groups[group][n + 1] /\ n \in Nat
              /\ DOMAIN groups[group] = 1..Len(groups[group]) /\ Len(groups[group]) \in Nat
              /\ Tail(todo) = <<>> => n + 1 = Len(groups[group])
              /\ Tail(todo) # <<>> => Left(Tail(todo), groups[group], n + 1)
<1>1. IsSeq(groups) /\ group \in DOMAIN groups /\ IsSeq(groups[group]) /\ groups[group] # <<>>
  BY DEF WellPlanned, Stands
<1>2. PICK n \in 0..(Len(groups[group]) - 1) :
        /\ Left(todo, groups[group], n)
        /\ \A i \in 1..n : Did(log, IF phase = "restart" THEN "restart" ELSE "healthy", groups[group][i])
  BY DEF Stands
<1> DEFINE members == groups[group]
<1> HIDE DEF members
<1>3. IsSeq(members) /\ Left(todo, members, n)
  BY <1>1, <1>2 DEF members
<1>4. /\ n + 1 \in DOMAIN members /\ Head(todo) = members[n + 1] /\ n \in Nat
      /\ DOMAIN members = 1..Len(members) /\ Len(members) \in Nat
      /\ Tail(todo) = <<>> => n + 1 = Len(members)
      /\ Tail(todo) # <<>> => Left(Tail(todo), members, n + 1)
  BY <1>3, LeftNext, Zenon
<1> QED  BY <1>1, <1>2, <1>4 DEF members

LEMMA NextIsAwaited ==
  ASSUME PlansAreGood, NEW changed \in Changes, NEW group, NEW todo, NEW log,
         Stands(Plan[changed], "restart", group, todo, log)
  PROVE  Awaited(log, Head(todo), changed)
<1> DEFINE groups == Plan[changed]
           service == Head(todo)
<1> HIDE DEF groups, service
<1>1. WellPlanned(groups, Manifest, Impacted(changed)) /\ Stands(groups, "restart", group, todo, log)
  BY DEF PlansAreGood, groups
<1>2. /\ IsSeq(groups) /\ group \in DOMAIN groups
      /\ \E n \in 0..(Len(groups[group]) - 1) :
           /\ \A i \in 1..n : Did(log, "restart", groups[group][i])
           /\ n + 1 \in DOMAIN groups[group] /\ service = groups[group][n + 1] /\ n \in Nat
           /\ DOMAIN groups[group] = 1..Len(groups[group])
  BY <1>1, StandsAt DEF service
<1>3. PICK n \in Nat :
        /\ \A i \in 1..n : Did(log, "restart", groups[group][i])
        /\ n + 1 \in DOMAIN groups[group] /\ service = groups[group][n + 1]
        /\ DOMAIN groups[group] = 1..Len(groups[group])
  BY <1>2
<1>4. ASSUME NEW other \in Due(service, changed)
      PROVE  Did(log, "restart", other) /\ (Did(log, "healthy", other) \/ GroupOf(other) = GroupOf(service))
  <2>1. \/ \E h \in DOMAIN groups : h < group /\ \E j \in DOMAIN groups[h] : groups[h][j] = other
        \/ /\ \E j \in DOMAIN groups[group] : j < n + 1 /\ groups[group][j] = other
           /\ GroupOf(other) = GroupOf(service)
    BY <1>1, <1>2, <1>3, <1>4 DEF WellPlanned, Due, GroupOf
  <2>2. ASSUME NEW h \in DOMAIN groups, h < group, NEW j \in DOMAIN groups[h], groups[h][j] = other
        PROVE  Did(log, "restart", other) /\ Did(log, "healthy", other)
    BY <1>1, <2>2 DEF Stands, GroupDid
  <2>3. ASSUME NEW j \in DOMAIN groups[group], j < n + 1, groups[group][j] = other
        PROVE  Did(log, "restart", other)
    <3>1. j \in 1..n
      BY <1>3, <2>3
    <3> QED  BY <1>3, <2>3, <3>1
  <2> QED  BY <2>1, <2>2, <2>3
<1> QED  BY <1>4 DEF Awaited, service

\* The next service is restarted: the group goes on, or waits for its health from its first on.
LEMMA StandsAfterRestart ==
  ASSUME NEW groups, NEW specs, NEW impacted, WellPlanned(groups, specs, impacted), NEW group, NEW todo,
         NEW log, Stands(groups, "restart", group, todo, log),
         NEW more, \A d, s : Did(log, d, s) => Did(more, d, s), Did(more, "restart", Head(todo))
  PROVE  /\ Tail(todo) # <<>> => Stands(groups, "restart", group, Tail(todo), more)
         /\ Tail(todo) = <<>> => Stands(groups, "health", group, groups[group], more)
<1>1. group \in DOMAIN groups /\ IsSeq(groups[group]) /\ groups[group] # <<>>
  BY StandsAt
<1>2. PICK n \in Nat :
        /\ n \in 0..(Len(groups[group]) - 1)
        /\ \A i \in 1..n : Did(log, "restart", groups[group][i])
        /\ Head(todo) = groups[group][n + 1]
        /\ DOMAIN groups[group] = 1..Len(groups[group]) /\ Len(groups[group]) \in Nat
        /\ Tail(todo) = <<>> => n + 1 = Len(groups[group])
        /\ Tail(todo) # <<>> => Left(Tail(todo), groups[group], n + 1)
  BY StandsAt
<1> DEFINE first == Head(todo)
           rest == Tail(todo)
<1> HIDE DEF first, rest
<1>3. \A i \in 1..(n + 1) : Did(more, "restart", groups[group][i])
  <2> TAKE i \in 1..(n + 1)
  <2>1. i = n + 1 \/ i \in 1..n
    OBVIOUS
  <2> QED  BY <1>2, <2>1
<1>4. \A g \in DOMAIN groups : g < group => GroupDid(more, "restart", groups[g]) /\ GroupDid(more, "healthy", groups[g])
  BY DEF Stands, GroupDid
<1>5. ASSUME rest # <<>> PROVE Stands(groups, "restart", group, rest, more)
  <2>1. Left(rest, groups[group], n + 1) /\ n + 1 \in 0..(Len(groups[group]) - 1)
    BY <1>2, <1>5 DEF rest, Left
  <2> QED  BY <1>1, <1>3, <1>4, <2>1 DEF Stands
<1>6. ASSUME rest = <<>> PROVE Stands(groups, "health", group, groups[group], more)
  <2>1. Left(groups[group], groups[group], 0) /\ 0 \in 0..(Len(groups[group]) - 1)
    BY <1>1, LeftAtFirst DEF Left
  <2>2. GroupDid(more, "restart", groups[group])
    BY <1>2, <1>3, <1>6 DEF GroupDid, rest
  <2> QED  BY <1>1, <1>4, <2>1, <2>2 DEF Stands
<1> QED  BY <1>5, <1>6 DEF rest

\* The next service is healthy: the group goes on, or is over, and the next one begins.
LEMMA StandsAfterHealth ==
  ASSUME NEW groups, NEW specs, NEW impacted, WellPlanned(groups, specs, impacted), NEW group, NEW todo,
         NEW log, Stands(groups, "health", group, todo, log),
         NEW more, \A d, s : Did(log, d, s) => Did(more, d, s), Did(more, "healthy", Head(todo))
  PROVE  /\ Tail(todo) # <<>> => Stands(groups, "health", group, Tail(todo), more)
         /\ Tail(todo) = <<>> /\ group # Len(groups) =>
              Stands(groups, "restart", group + 1, groups[group + 1], more)
<1>1. IsSeq(groups) /\ group \in DOMAIN groups /\ IsSeq(groups[group]) /\ groups[group] # <<>>
  BY StandsAt
<1>2. PICK n \in Nat :
        /\ n \in 0..(Len(groups[group]) - 1)
        /\ \A i \in 1..n : Did(log, "healthy", groups[group][i])
        /\ Head(todo) = groups[group][n + 1]
        /\ DOMAIN groups[group] = 1..Len(groups[group]) /\ Len(groups[group]) \in Nat
        /\ Tail(todo) = <<>> => n + 1 = Len(groups[group])
        /\ Tail(todo) # <<>> => Left(Tail(todo), groups[group], n + 1)
  BY StandsAt
<1> DEFINE first == Head(todo)
           rest == Tail(todo)
<1> HIDE DEF first, rest
<1>3. \A i \in 1..(n + 1) : Did(more, "healthy", groups[group][i])
  <2> TAKE i \in 1..(n + 1)
  <2>1. i = n + 1 \/ i \in 1..n
    OBVIOUS
  <2> QED  BY <1>2, <2>1
<1>4. /\ \A g \in DOMAIN groups : g < group => GroupDid(more, "restart", groups[g]) /\ GroupDid(more, "healthy", groups[g])
      /\ GroupDid(more, "restart", groups[group])
  BY DEF Stands, GroupDid
<1>5. ASSUME rest # <<>> PROVE Stands(groups, "health", group, rest, more)
  <2>1. Left(rest, groups[group], n + 1) /\ n + 1 \in 0..(Len(groups[group]) - 1)
    BY <1>2, <1>5 DEF rest, Left
  <2> QED  BY <1>1, <1>3, <1>4, <2>1 DEF Stands
<1>6. ASSUME rest = <<>>, group # Len(groups)
      PROVE  Stands(groups, "restart", group + 1, groups[group + 1], more)
  <2>1. group + 1 \in DOMAIN groups /\ group \in Nat /\ \A g \in DOMAIN groups : g < group + 1 => g = group \/ g < group
    BY <1>1, <1>6 DEF IsSeq
  <2>2. GroupDid(more, "healthy", groups[group])
    BY <1>2, <1>3, <1>6 DEF GroupDid, rest
  <2>3. IsSeq(groups[group + 1]) /\ groups[group + 1] # <<>>
    BY <2>1 DEF WellPlanned
  <2>4. Left(groups[group + 1], groups[group + 1], 0) /\ 0 \in 0..(Len(groups[group + 1]) - 1)
    BY <2>3, LeftAtFirst DEF Left
  <2>5. \A g \in DOMAIN groups :
          g < group + 1 => GroupDid(more, "restart", groups[g]) /\ GroupDid(more, "healthy", groups[g])
    BY <1>4, <2>1, <2>2
  <2> QED  BY <2>1, <2>4, <2>5 DEF Stands
<1> QED  BY <1>5, <1>6 DEF rest

\* A request that neither restarts nor waits for health goes on following its plan.
LEMMA RestingFollows ==
  ASSUME NEW r, FollowsPlan(r), NEW s, IsRequest(s), s.log = r.log, s.changed = r.changed,
         s.phase \notin {"restart", "health"}
  PROVE  FollowsPlan(s)
BY DEF FollowsPlan

\* One activation's request changes.
LEMMA OneFollows ==
  ASSUME OrderInv, NEW b \in Activations, NEW r, requests' = [requests EXCEPT ![b] = r], FollowsPlan(r)
  PROVE  OrderInv'
<1>1. /\ requests' = [a \in Activations |-> requests'[a]]
      /\ \A a \in Activations : requests'[a] = IF a = b THEN r ELSE requests[a]
  BY DEF OrderInv
<1>2. \A a \in Activations : FollowsPlan(requests'[a])
  BY <1>1 DEF OrderInv
<1> HIDE DEF FollowsPlan
<1> QED  BY <1>1, <1>2 DEF OrderInv

LEMMA FailingFollows ==
  ASSUME OrderInv, NEW b \in Activations, Fail(b)
  PROVE  OrderInv'
<1> DEFINE r == requests[b]
           s == [r EXCEPT !.phase = "failed"]
<1>1. requests' = [requests EXCEPT ![b] = s]
  BY DEF Fail
<1>2. FollowsPlan(r)
  BY DEF OrderInv
<1> HIDE DEF r
<1>3. IsRequest(s) /\ s.log = r.log /\ s.changed = r.changed /\ s.phase \notin {"restart", "health"}
  BY <1>2 DEF FollowsPlan, IsRequest
<1> HIDE DEF s
<1>4. FollowsPlan(s)
  BY <1>2, <1>3, RestingFollows
<1> QED  BY <1>1, <1>4, OneFollows

LEMMA CopyFollows ==
  ASSUME PlansAreGood, OrderInv, NEW b \in Activations, NEW release, NEW changed \in Changes, Copy(b, release, changed)
  PROVE  OrderInv'
<1> DEFINE s == Begins(release, changed)
           groups == Plan[changed]
<1>1. requests' = [requests EXCEPT ![b] = s]
  BY DEF Copy
<1>2. /\ IsRequest(s) /\ s.log = <<>> /\ s.changed = changed /\ s.group = 1
      /\ \/ s.phase = "observe"
         \/ s.phase = "restart" /\ groups # <<>> /\ s.todo = groups[1]
  BY DEF Begins, Idle, IsRequest
<1> HIDE DEF s, groups
<1>3. IsSeq(<<>>) /\ DOMAIN <<>> = {}
  <2>1. <<>> \in Seq({}) /\ DOMAIN <<>> = {}
    OBVIOUS
  <2>2. IsSeq(<<>>)
    BY <2>1, SeqIsSeq, Zenon
  <2> QED  BY <2>1, <2>2
<1>4. LogInOrder(<<>>, changed)
  BY <1>3 DEF LogInOrder
<1>5. ASSUME s.phase = "restart" PROVE Stands(groups, "restart", 1, groups[1], <<>>)
  <2>1. WellPlanned(groups, Manifest, Impacted(changed))
    BY DEF PlansAreGood, groups
  <2>2. 1 \in DOMAIN groups /\ \A g \in DOMAIN groups : ~(g < 1)
    BY <1>2, <1>5, <2>1 DEF WellPlanned, IsSeq
  <2>3. IsSeq(groups[1]) /\ groups[1] # <<>>
    BY <2>1, <2>2 DEF WellPlanned
  <2>4. Left(groups[1], groups[1], 0) /\ 0 \in 0..(Len(groups[1]) - 1)
    BY <2>3, LeftAtFirst DEF Left
  <2> QED  BY <2>2, <2>4 DEF Stands
<1>6. FollowsPlan(s)
  BY <1>2, <1>3, <1>4, <1>5 DEF FollowsPlan, groups
<1> QED  BY <1>1, <1>6, OneFollows

LEMMA RestartFollows ==
  ASSUME PlansAreGood, OrderInv, NEW b \in Activations, Restart(b)
  PROVE  OrderInv'
<1> DEFINE r == requests[b]
           service == Head(r.todo)
           rest == Tail(r.todo)
           done == rest = <<>>
           groups == Plan[r.changed]
           more == Append(r.log, [did |-> "restart", service |-> service])
           s == [r EXCEPT !.log = more, !.phase = IF done THEN "health" ELSE @,
                          !.todo = IF done THEN groups[r.group] ELSE rest]
<1>1. requests' = [requests EXCEPT ![b] = s] /\ r.phase = "restart"
  BY DEF Restart, Groups
<1>2. FollowsPlan(r)
  BY DEF OrderInv
<1> HIDE DEF r
<1>3. /\ IsSeq(r.log) /\ LogInOrder(r.log, r.changed) /\ r.changed \in Changes
      /\ Stands(groups, "restart", r.group, r.todo, r.log)
  BY <1>1, <1>2 DEF FollowsPlan
<1> HIDE DEF service, groups, more
<1>4. /\ IsRequest(s) /\ s.log = more /\ s.changed = r.changed /\ s.group = r.group
      /\ s.phase = (IF done THEN "health" ELSE "restart")
      /\ s.todo = (IF done THEN groups[r.group] ELSE rest)
  BY <1>1, <1>2 DEF FollowsPlan, IsRequest
<1> HIDE DEF s
<1>5. Awaited(r.log, service, r.changed)
  BY <1>3, NextIsAwaited DEF groups, service
<1>6. IsSeq(more) /\ Did(more, "restart", service) /\ \A d, t : Did(r.log, d, t) => Did(more, d, t)
  BY <1>3, LogGrows DEF more
<1>7. LogInOrder(more, r.changed)
  BY <1>3, <1>5, LogStaysInOrder DEF more
<1>8. WellPlanned(groups, Manifest, Impacted(r.changed))
  BY <1>3 DEF PlansAreGood, groups
<1>9. /\ ~done => Stands(groups, "restart", r.group, rest, more)
      /\ done => Stands(groups, "health", r.group, groups[r.group], more)
  BY <1>3, <1>6, <1>8, StandsAfterRestart DEF service
<1>10. Stands(groups, s.phase, s.group, s.todo, s.log)
  BY <1>4, <1>9
<1>11. FollowsPlan(s)
  BY <1>3, <1>4, <1>6, <1>7, <1>10 DEF FollowsPlan, groups
<1> QED  BY <1>1, <1>11, OneFollows

LEMMA HealthFollows ==
  ASSUME PlansAreGood, OrderInv, NEW b \in Activations, CheckHealth(b)
  PROVE  OrderInv'
<1> DEFINE r == requests[b]
           service == Head(r.todo)
           rest == Tail(r.todo)
           groups == Plan[r.changed]
           more == Append(r.log, [did |-> "healthy", service |-> service])
           logged == [r EXCEPT !.log = more, !.todo = rest]
           s == IF rest # <<>> THEN logged
                ELSE IF r.group = Len(groups) THEN [logged EXCEPT !.phase = "observe"]
                ELSE [logged EXCEPT !.phase = "restart", !.group = r.group + 1, !.todo = groups[r.group + 1]]
<1>1. r.phase = "health"
  BY DEF CheckHealth
<1>2. FollowsPlan(r)
  BY DEF OrderInv
<1>3. requests' = [requests EXCEPT ![b] = s]
  <2>1. logged.todo = rest /\ logged.group = r.group
    BY <1>2 DEF FollowsPlan, IsRequest
  <2> QED  BY <2>1 DEF CheckHealth, Groups
<1> HIDE DEF r
<1>4. /\ IsSeq(r.log) /\ LogInOrder(r.log, r.changed) /\ r.changed \in Changes
      /\ Stands(groups, "health", r.group, r.todo, r.log)
  BY <1>1, <1>2 DEF FollowsPlan
<1> HIDE DEF service, groups, more, rest
<1>5. /\ IsRequest(s) /\ s.log = more /\ s.changed = r.changed
      /\ \/ rest # <<>> /\ s.phase = "health" /\ s.group = r.group /\ s.todo = rest
         \/ rest = <<>> /\ s.phase = "observe"
         \/ rest = <<>> /\ r.group # Len(groups) /\ s.phase = "restart" /\ s.group = r.group + 1
              /\ s.todo = groups[r.group + 1]
  <2>1. IsRequest(logged) /\ logged.log = more /\ logged.changed = r.changed /\ logged.phase = "health"
        /\ logged.group = r.group /\ logged.todo = rest
    BY <1>1, <1>2 DEF FollowsPlan, IsRequest
  <2> HIDE DEF logged
  <2> QED  BY <2>1 DEF IsRequest
<1> HIDE DEF s
<1>6. IsSeq(more) /\ Did(more, "healthy", service) /\ \A d, t : Did(r.log, d, t) => Did(more, d, t)
  BY <1>4, LogGrows DEF more
<1>7. LogInOrder(more, r.changed)
  BY <1>4, LogStaysInOrder DEF more
<1>8. WellPlanned(groups, Manifest, Impacted(r.changed))
  BY <1>4 DEF PlansAreGood, groups
<1>9. /\ rest # <<>> => Stands(groups, "health", r.group, rest, more)
      /\ rest = <<>> /\ r.group # Len(groups) => Stands(groups, "restart", r.group + 1, groups[r.group + 1], more)
  BY <1>4, <1>6, <1>8, StandsAfterHealth DEF service, rest
<1>10. s.phase \in {"restart", "health"} => Stands(groups, s.phase, s.group, s.todo, s.log)
  BY <1>5, <1>9
<1>11. FollowsPlan(s)
  BY <1>4, <1>5, <1>6, <1>7, <1>10 DEF FollowsPlan, groups
<1> QED  BY <1>3, <1>11, OneFollows

LEMMA LookingFollows ==
  ASSUME OrderInv, NEW b \in Activations, Verify(b) \/ \E service \in Observed : Observe(b, service)
  PROVE  OrderInv'
<1> DEFINE r == requests[b]
<1>1. FollowsPlan(r) /\ IsRequest(r)
  BY DEF OrderInv, FollowsPlan
<1>2. r.phase = "observe"
  BY DEF Verify, Observe
<1>3. \E phase \in {"observe", "ok", "failed"} : \E seen :
        requests' = [requests EXCEPT ![b] = [r EXCEPT !.phase = phase, !.seen = seen]]
  <2>1. CASE Verify(b)
    <3>1. requests' = [requests EXCEPT ![b] = [r EXCEPT !.phase = IF Valid(r) THEN "ok" ELSE "failed", !.seen = <<>>]]
      BY <2>1 DEF Verify
    <3> QED  BY <3>1
  <2>2. ASSUME NEW service \in Observed, Observe(b, service)
        PROVE  \E seen : requests' = [requests EXCEPT ![b] = [r EXCEPT !.phase = "observe", !.seen = seen]]
    <3> DEFINE seen == Seeing(r.seen, service, Reports(service, r.release))
    <3>1. requests' = [requests EXCEPT ![b] = [r EXCEPT !.seen = seen]]
      BY <2>2 DEF Observe
    <3> HIDE DEF seen
    <3>2. [r EXCEPT !.seen = seen] = [r EXCEPT !.phase = "observe", !.seen = seen]
      BY <1>1, <1>2 DEF IsRequest
    <3> QED  BY <3>1, <3>2
  <2> QED  BY <2>1, <2>2
<1>7. PICK phase \in {"observe", "ok", "failed"} :
        \E seen : requests' = [requests EXCEPT ![b] = [r EXCEPT !.phase = phase, !.seen = seen]]
  BY <1>3
<1>4. PICK seen : requests' = [requests EXCEPT ![b] = [r EXCEPT !.phase = phase, !.seen = seen]]
  BY <1>7
<1> DEFINE s == [r EXCEPT !.phase = phase, !.seen = seen]
<1> HIDE DEF r
<1>5. IsRequest(s) /\ s.log = r.log /\ s.changed = r.changed /\ s.phase \notin {"restart", "health"}
  BY <1>1, <1>7 DEF IsRequest
<1>6. requests' = [requests EXCEPT ![b] = s]
  BY <1>4
<1> HIDE DEF s
<1>8. FollowsPlan(s)
  BY <1>1, <1>5, RestingFollows
<1> QED  BY <1>6, <1>8, OneFollows

LEMMA CrashFollows ==
  ASSUME OrderInv, AgentCrashes
  PROVE  OrderInv'
<1>1. /\ requests' = [a \in Activations |-> requests'[a]]
      /\ \A a \in Activations : requests'[a] = requests[a] \/ requests'[a] = [requests[a] EXCEPT !.phase = "failed"]
  BY DEF AgentCrashes
<1>2. ASSUME NEW a \in Activations PROVE FollowsPlan(requests'[a])
  <2> DEFINE r == requests[a]
             s == [r EXCEPT !.phase = "failed"]
  <2>1. FollowsPlan(r)
    BY DEF OrderInv
  <2>2. requests'[a] = r \/ requests'[a] = s
    BY <1>1
  <2> HIDE DEF r
  <2>3. IsRequest(s) /\ s.log = r.log /\ s.changed = r.changed /\ s.phase \notin {"restart", "health"}
    BY <2>1 DEF FollowsPlan, IsRequest
  <2> HIDE DEF s
  <2>4. FollowsPlan(s)
    BY <2>1, <2>3, RestingFollows
  <2> QED  BY <2>1, <2>2, <2>4
<1> HIDE DEF FollowsPlan
<1> QED  BY <1>1, <1>2 DEF OrderInv

LEMMA OrderStart == DeploymentInit => OrderInv
<1> SUFFICES ASSUME DeploymentInit PROVE OrderInv
  OBVIOUS
<1>1. /\ DOMAIN Idle = {"phase", "release", "changed", "group", "todo", "log", "seen"}
      /\ Idle.log = <<>> /\ Idle.phase = "idle"
  BY DEF Idle
<1>2. IsSeq(<<>>) /\ DOMAIN <<>> = {}
  <2>1. <<>> \in Seq({}) /\ DOMAIN <<>> = {}
    OBVIOUS
  <2>2. IsSeq(<<>>)
    BY <2>1, SeqIsSeq, Zenon
  <2> QED  BY <2>1, <2>2
<1>3. FollowsPlan(Idle)
  BY <1>1, <1>2 DEF FollowsPlan, IsRequest, LogInOrder
<1>4. requests = [a \in Activations |-> Idle]
  BY DEF DeploymentInit
<1> HIDE DEF Idle
<1> QED  BY <1>3, <1>4 DEF OrderInv

LEMMA OrderStep == PlansAreGood /\ OrderInv /\ [DeploymentNext]_deploymentVars => OrderInv'
<1> SUFFICES ASSUME PlansAreGood, OrderInv, [DeploymentNext]_deploymentVars PROVE OrderInv'
  OBVIOUS
<1>1. CASE UNCHANGED requests
  BY <1>1 DEF OrderInv
<1>2. ASSUME NEW a \in Activations, Proceeds(a) PROVE OrderInv'
  BY <1>2, RestartFollows, HealthFollows, LookingFollows, FailingFollows DEF Proceeds, HealthTimesOut
<1>3. ASSUME NEW a \in Activations, CopyFails(a) \/ RestartFails(a) PROVE OrderInv'
  BY <1>3, FailingFollows DEF CopyFails, RestartFails
<1>4. ASSUME NEW service \in Observed, ServiceStops(service) \/ ServiceStarts(service) PROVE UNCHANGED requests
  BY <1>4 DEF ServiceStops, ServiceStarts
<1> QED  BY <1>1, <1>2, <1>3, <1>4, CopyFollows, CrashFollows DEF DeploymentNext, deploymentVars

LEMMA OrderIsKept == OrderInv => DependenciesRestartFirst
BY DEF OrderInv, FollowsPlan, LogInOrder, EarlierDid, Due, Impacted, GroupOf, DependenciesRestartFirst

\* The platform's own services are in the order that takes: no service is listed before one of its
\* own group that it depends on, or in a group restarted before that of one it depends on
\* (SERVICE_SANDBOX_SPECS, SERVICE_RESTART_GROUP_ORDER).
THEOREM PlatformIsInOrder == InOrder(SERVICE_SANDBOX_SPECS)
<1> DEFINE specs == SERVICE_SANDBOX_SPECS
<1>1. DOMAIN specs = 1..9 /\ IsSeq(specs)
  BY DEF SERVICE_SANDBOX_SPECS, IsSeq, ToSet
<1> QED  BY <1>1 DEF InOrder, SERVICE_SANDBOX_SPECS, Spec, Agent, EarlierGroup, SERVICE_RESTART_GROUP_ORDER

\* With a manifest in that order, a service is restarted after those it depends on that are restarted
\* too, and after they were found healthy when they are of another group, in every one of any number of
\* activations that overlap, fail or lose their agent (planMountedReleaseActivation, activate).
THEOREM RestartsFollowDependencies == InOrder(Manifest) => (DeploymentSpec => []DependenciesRestartFirst)
<1> SUFFICES ASSUME InOrder(Manifest) PROVE DeploymentSpec => []DependenciesRestartFirst
  OBVIOUS
<1>1. PlansAreGood
  BY PlanRespectsDependencies DEF PlansAreGood, Plan, Impacted
<1>2. DeploymentInit => OrderInv
  BY OrderStart
<1>3. OrderInv /\ [DeploymentNext]_deploymentVars => OrderInv'
  BY <1>1, OrderStep
<1>4. OrderInv => DependenciesRestartFirst
  BY OrderIsKept
<1> QED  BY <1>2, <1>3, <1>4, PTL DEF DeploymentSpec
=============================================================================
