---------------------------- MODULE BrowserProofs ----------------------------
(***************************************************************************)
(* The browser pages, for any number of functions that overlap and of      *)
(* incidents.  Three invariants: what pages, calls and answers look like,  *)
(* with the file each lease was given for; where each confirmation is; and *)
(* how a page that lets its user command came to hold a stream.            *)
(***************************************************************************)
EXTENDS BrowserApps, SequenceProofs

-----------------------------------------------------------------------------
(* What pages, calls and answers look like. *)

\* l is a lease that was given for f.
LeaseFor(l, f, k) == l \in DOMAIN k.leases /\ k.leases[l].file = f

PageFields ==
  {"projection", "role", "workspace", "run", "online", "connection", "stream", "after", "frames", "reloads", "redraw",
   "confirm", "file", "lease", "original", "doc", "dirty", "bound"}

GoodCore(k) ==
  /\ DOMAIN k = {"events", "seeded", "runs", "applied", "leases", "disk"}
  /\ k.events \in Nat /\ k.seeded \in BOOLEAN /\ k.runs \in Nat /\ k.applied \in Seq(Nat)
  /\ IsSeq(k.leases) /\ \A l \in DOMAIN k.leases : DOMAIN k.leases[l] = {"file", "state"}
  /\ k.disk \in [Files -> Texts]

\* A call that page a makes.
GoodCall(c, k, a) ==
  /\ c = [op |-> c.op, role |-> c.role, confirm |-> c.confirm, file |-> c.file, text |-> c.text, lease |-> c.lease]
  /\ c.role \in Roles /\ c.confirm \in Nat /\ c.text \in Texts
  /\ c.op = "readFile" => c.file \in Files
  /\ c.op = "writeFile" => a = "workbench" /\ c.file \in Files /\ LeaseFor(c.lease, c.file, k)

\* Only the first call of a function is a confirmed action.
GoodCalls(s, k, a) ==
  IsSeq(s) /\ \A i \in DOMAIN s : GoodCall(s[i], k, a) /\ (i # 1 => s[i].confirm = 0)

GoodAnswer(a, c, k) ==
  /\ a.projection \in Projections /\ a.text \in Texts
  /\ c.op = "readFile" => LeaseFor(a.lease, c.file, k)

GoodTask(t, k, a) ==
  /\ DOMAIN t = {"todo", "answer", "boots"}
  /\ GoodCalls(t.todo, k, a) /\ t.todo # <<>>
  /\ t.answer # NoAnswer => GoodAnswer(t.answer, Head(t.todo), k)

GoodPage(p, k) ==
  /\ DOMAIN p = PageFields
  /\ p.projection \in Projections \cup {NoProjection} /\ p.role \in Roles
  /\ p.stream \in {"none", "connecting", "open"} /\ p.confirm \in Nat
  /\ p.file \in Files \cup {NoFile} /\ p.original \in Texts /\ p.doc \in Texts
  /\ p.lease # 0 => p.file \in Files /\ LeaseFor(p.lease, p.file, k)

PagesInv ==
  /\ app \in {"control_room", "mobile", "workbench"}
  /\ GoodPage(page, core) /\ GoodCore(core)
  /\ IsSeq(tasks) /\ \A i \in DOMAIN tasks : GoodTask(tasks[i], core, app)
  /\ spent = [k \in Kinds |-> spent[k]] /\ \A k \in Kinds : spent[k] \in Nat

-----------------------------------------------------------------------------
(* Where a confirmation is: shown, on its way, or carried out. *)

Token(t) == IF t.answer = NoAnswer THEN Head(t.todo).confirm ELSE 0

OnceOf(ts, applied, confirm, n) ==
  /\ IsInjective(applied) /\ \A i \in DOMAIN applied : applied[i] <= n
  /\ \A i \in DOMAIN ts : Token(ts[i]) <= n /\ (Token(ts[i]) # 0 => \A j \in DOMAIN applied : applied[j] # Token(ts[i]))
  /\ \A i, j \in DOMAIN ts : Token(ts[i]) # 0 /\ Token(ts[i]) = Token(ts[j]) => i = j
  /\ confirm <= n
  /\ confirm # 0 => /\ \A j \in DOMAIN applied : applied[j] # confirm
                    /\ \A i \in DOMAIN ts : Token(ts[i]) # confirm

OnceInv == OnceOf(tasks, core.applied, page.confirm, spent.clicks)

-----------------------------------------------------------------------------
(* How a page comes to hold a stream. *)

\* It holds one, opened or opening, or says that it has lost it.
HoldsStream(p) == p.stream # "none" \/ p.connection = "reconnecting"

HasLoad(s) == \E j \in DOMAIN s : s[j].op = "load"

StreamOf(a, p, ts, failures) ==
  \/ a = "control_room"
  \/ a = "mobile" /\ failures > 0
  \/ HoldsStream(p)
  \/ /\ \A i \in DOMAIN ts : ts[i].boots => HasLoad(ts[i].todo)
     /\ a = "workbench" => ~p.bound
     /\ a = "mobile" => \E i \in DOMAIN ts : ts[i].boots

StreamInv == StreamOf(app, page, tasks, spent.failures)
-----------------------------------------------------------------------------
(* Calls. *)

\* Calls without a confirmation.
PlainCalls(s, k, a) == GoodCalls(s, k, a) /\ \A i \in DOMAIN s : s[i].confirm = 0

LEMMA FetchIsGood ==
  ASSUME NEW op \in {"load", "seed", "createRun", "command"}, NEW k, NEW a
  PROVE  GoodCall(Fetch(op), k, a) /\ Fetch(op).confirm = 0 /\ Fetch(op).op = op
<1>1. NoText \in Texts /\ "user" \in Roles
  BY DEF NoText, Texts, Roles
<1> QED  BY <1>1 DEF GoodCall, Fetch

\* The lists of calls that a click can come to.
LEMMA ShortLists ==
  ASSUME NEW k, NEW a, NEW c1, NEW c2, NEW c3, GoodCall(c1, k, a), GoodCall(c2, k, a), GoodCall(c3, k, a),
         c2.confirm = 0, c3.confirm = 0
  PROVE  /\ PlainCalls(<<>>, k, a)
         /\ GoodCalls(<<c1>>, k, a) /\ GoodCalls(<<c1, c2>>, k, a) /\ GoodCalls(<<c1, c2, c3>>, k, a)
         /\ c1.confirm = 0 => /\ PlainCalls(<<c1>>, k, a) /\ PlainCalls(<<c1, c2>>, k, a)
                             /\ PlainCalls(<<c1, c2, c3>>, k, a)
<1> HIDE DEF GoodCall
<1>1. <<>> \in Seq({}) /\ <<c1>> \in Seq({c1}) /\ <<c1, c2>> \in Seq({c1, c2}) /\ <<c1, c2, c3>> \in Seq({c1, c2, c3})
  OBVIOUS
<1>2. IsSeq(<<>>) /\ IsSeq(<<c1>>) /\ IsSeq(<<c1, c2>>) /\ IsSeq(<<c1, c2, c3>>)
  BY <1>1, SeqIsSeq
<1>3. DOMAIN <<>> = {} /\ DOMAIN <<c1>> = {1} /\ DOMAIN <<c1, c2>> = {1, 2} /\ DOMAIN <<c1, c2, c3>> = {1, 2, 3}
  OBVIOUS
<1> QED  BY <1>2, <1>3 DEF GoodCalls, PlainCalls

LEMMA PlainConcat ==
  ASSUME NEW k, NEW a, NEW s, NEW t, PlainCalls(s, k, a), PlainCalls(t, k, a)
  PROVE  PlainCalls(s \o t, k, a)
<1> DEFINE u == s \o t
<1>1. /\ IsSeq(u) /\ Len(s) \in Nat /\ Len(t) \in Nat /\ DOMAIN s = 1..Len(s) /\ DOMAIN t = 1..Len(t)
      /\ DOMAIN u = 1..(Len(s) + Len(t))
      /\ \A i \in 1..(Len(s) + Len(t)) : u[i] = IF i <= Len(s) THEN s[i] ELSE t[i - Len(s)]
  BY ConcatIsSeq DEF PlainCalls, GoodCalls
<1> HIDE DEF u
<1>2. \A i \in DOMAIN u : (\E j \in DOMAIN s : u[i] = s[j]) \/ (\E j \in DOMAIN t : u[i] = t[j])
  BY <1>1
<1>3. PlainCalls(u, k, a)
  BY <1>1, <1>2 DEF PlainCalls, GoodCalls
<1> QED  BY <1>3 DEF u

\* What a function has left, and what it turns to instead.
LEMMA GoodAfterFirst ==
  ASSUME NEW k, NEW a, NEW s, NEW t, GoodCalls(s, k, a), s # <<>>, PlainCalls(t, k, a)
  PROVE  PlainCalls(t \o Tail(s), k, a) /\ GoodCall(Head(s), k, a)
<1>1. /\ IsSeq(Tail(s)) /\ Len(s) \in Nat \ {0} /\ DOMAIN s = 1..Len(s)
      /\ DOMAIN Tail(s) = 1..(Len(s) - 1) /\ Head(s) = s[1]
      /\ \A i \in 1..(Len(s) - 1) : Tail(s)[i] = s[i + 1]
  BY TailIsSeq DEF GoodCalls
<1>2. GoodCall(Head(s), k, a)
  BY <1>1 DEF GoodCalls
<1>3. \A i \in DOMAIN Tail(s) : i + 1 \in DOMAIN s /\ i + 1 # 1 /\ Tail(s)[i] = s[i + 1]
  BY <1>1
<1>4. PlainCalls(Tail(s), k, a)
  BY <1>1, <1>3 DEF PlainCalls, GoodCalls
<1> QED  BY <1>2, <1>4, PlainConcat

\* load() takes its role along.
LEMMA SentIsGood ==
  ASSUME NEW k, NEW a, NEW p, p.role \in Roles, NEW s, GoodCalls(s, k, a), s # <<>>
  PROVE  /\ GoodCalls(Sent(p, s), k, a) /\ Sent(p, s) # <<>> /\ Head(Sent(p, s)).confirm = Head(s).confirm
         /\ HasLoad(s) => HasLoad(Sent(p, s))
<1> DEFINE c == [s[1] EXCEPT !.role = p.role]
           t == [s EXCEPT ![1] = c]
<1>1. IsSeq(s) /\ Len(s) \in Nat \ {0} /\ DOMAIN s = 1..Len(s) /\ Head(s) = s[1] /\ GoodCall(s[1], k, a)
  BY TailIsSeq DEF GoodCalls
<1>2. GoodCall(c, k, a) /\ c.confirm = s[1].confirm /\ c.op = s[1].op
  BY <1>1 DEF GoodCall
<1> HIDE DEF c
<1>3. IsSeq(t) /\ DOMAIN t = DOMAIN s /\ \A j \in DOMAIN s : t[j] = IF j = 1 THEN c ELSE s[j]
  <2>1. 1 \in DOMAIN s
    BY <1>1
  <2> QED  BY <1>1, <2>1, ExceptIsSeq
<1> HIDE DEF t
<1>4. GoodCalls(t, k, a)
  BY <1>2, <1>3 DEF GoodCalls
<1>5. t # <<>> /\ Head(t) = c
  <2>1. t # <<>>
    BY <1>1, <1>3
  <2> QED  BY <1>1, <1>3, <2>1, TailIsSeq
<1>6. HasLoad(s) => HasLoad(t)
  BY <1>2, <1>3 DEF HasLoad
<1>7. Sent(p, s) = s \/ Sent(p, s) = t
  BY DEF Sent, t, c
<1> QED  BY <1>1, <1>2, <1>4, <1>5, <1>6, <1>7
-----------------------------------------------------------------------------
(* Leases are added and change their state, never their file. *)

Grows(k, m) ==
  DOMAIN k.leases \subseteq DOMAIN m.leases /\ \A l \in DOMAIN k.leases : m.leases[l].file = k.leases[l].file

LEMMA GrownIsGood ==
  ASSUME NEW k, NEW m, Grows(k, m), NEW a
  PROVE  /\ \A p : GoodPage(p, k) => GoodPage(p, m)
         /\ \A s : GoodCalls(s, k, a) => GoodCalls(s, m, a)
         /\ \A t : GoodTask(t, k, a) => GoodTask(t, m, a)
<1>1. \A l, f : LeaseFor(l, f, k) => LeaseFor(l, f, m)
  BY DEF Grows, LeaseFor
<1>2. \A c : GoodCall(c, k, a) => GoodCall(c, m, a)
  BY <1>1 DEF GoodCall
<1>3. \A s : GoodCalls(s, k, a) => GoodCalls(s, m, a)
  BY <1>2 DEF GoodCalls
<1>4. \A x, c : GoodAnswer(x, c, k) => GoodAnswer(x, c, m)
  BY <1>1 DEF GoodAnswer
<1>5. \A t : GoodTask(t, k, a) => GoodTask(t, m, a)
  <2> HIDE DEF GoodCalls, GoodAnswer
  <2> QED  BY <1>3, <1>4 DEF GoodTask
<1>6. \A p : GoodPage(p, k) => GoodPage(p, m)
  BY <1>1 DEF GoodPage
<1> QED  BY <1>3, <1>5, <1>6

\* What a call does at the gateway, and what it is answered.
LEMMA EffectIsGood ==
  ASSUME NEW k, GoodCore(k), NEW a, NEW c, GoodCall(c, k, a)
  PROVE  /\ GoodCore(Effect(k, c)) /\ Grows(k, Effect(k, c))
         /\ Effect(k, c).applied = k.applied \/ (c.confirm # 0 /\ Effect(k, c).applied = Append(k.applied, c.confirm))
         /\ GoodAnswer(AnswerTo(Effect(k, c), c), c, Effect(k, c)) /\ AnswerTo(Effect(k, c), c) # NoAnswer
<1> DEFINE m == Effect(k, c)
           Right(x) == /\ GoodCore(x) /\ Grows(k, x)
                       /\ x.applied = k.applied \/ (c.confirm # 0 /\ x.applied = Append(k.applied, c.confirm))
                       /\ c.op = "readFile" => LeaseFor(Len(x.leases), c.file, x)
<1>1. Right(m)
  <2>1. CASE c.op = "readFile"
    <3> DEFINE lease == [file |-> c.file, state |-> "live"]
               longer == Append(k.leases, lease)
    <3>1. m = [k EXCEPT !.leases = longer]
      BY <2>1 DEF Effect
    <3>2. /\ IsSeq(longer) /\ DOMAIN longer = 1..(Len(k.leases) + 1) /\ Len(k.leases) \in Nat
          /\ DOMAIN k.leases = 1..Len(k.leases)
          /\ longer[Len(k.leases) + 1] = lease /\ \A i \in DOMAIN k.leases : longer[i] = k.leases[i]
      BY AppendIsSeq DEF GoodCore
    <3>3. Len(longer) = Len(k.leases) + 1
      <4>1. Len(longer) \in Nat /\ DOMAIN longer = 1..Len(longer)
        BY <3>2, AppendIsSeq
      <4> QED  BY <3>2, <4>1
    <3>4. DOMAIN lease = {"file", "state"} /\ lease.file = c.file
      OBVIOUS
    <3> HIDE DEF longer, lease
    <3>5. m.leases = longer /\ m.applied = k.applied /\ m.disk = k.disk
          /\ m.events = k.events /\ m.seeded = k.seeded /\ m.runs = k.runs
          /\ DOMAIN m = DOMAIN k
      BY <3>1 DEF GoodCore
    <3> HIDE DEF m
    <3>6. GoodCore(m)
      <4>1. \A l \in DOMAIN longer : DOMAIN longer[l] = {"file", "state"}
        BY <3>2, <3>4 DEF GoodCore
      <4> QED  BY <3>2, <3>5, <4>1 DEF GoodCore
    <3>7. Grows(k, m) /\ LeaseFor(Len(m.leases), c.file, m)
      BY <3>2, <3>3, <3>4, <3>5 DEF Grows, LeaseFor
    <3> QED  BY <3>5, <3>6, <3>7
  <2>2. CASE c.op = "writeFile"
    <3> DEFINE leases == [k.leases EXCEPT ![c.lease].state = "used"]
               disk == [k.disk EXCEPT ![c.file] = c.text]
    <3>1. m = [k EXCEPT !.leases = leases, !.disk = disk, !.events = @ + 1]
      BY <2>2 DEF Effect
    <3>2. IsSeq(leases) /\ DOMAIN leases = DOMAIN k.leases
          /\ \A l \in DOMAIN k.leases : leases[l].file = k.leases[l].file /\ DOMAIN leases[l] = {"file", "state"}
      <4> DEFINE new == [k.leases[c.lease] EXCEPT !.state = "used"]
      <4>1. c.lease \in DOMAIN k.leases /\ IsSeq(k.leases) /\ \A l \in DOMAIN k.leases : DOMAIN k.leases[l] = {"file", "state"}
        BY <2>2 DEF GoodCall, LeaseFor, GoodCore
      <4>2. new.file = k.leases[c.lease].file /\ DOMAIN new = {"file", "state"}
        BY <4>1
      <4>3. leases = [k.leases EXCEPT ![c.lease] = new]
        OBVIOUS
      <4> HIDE DEF new, leases
      <4>4. IsSeq(leases) /\ DOMAIN leases = DOMAIN k.leases
            /\ \A l \in DOMAIN k.leases : leases[l] = IF l = c.lease THEN new ELSE k.leases[l]
        BY <4>1, <4>3, ExceptIsSeq
      <4> QED  BY <4>1, <4>2, <4>4
    <3>3. disk \in [Files -> Texts]
      BY DEF GoodCore, GoodCall
    <3> HIDE DEF leases, disk
    <3>5. /\ m.events = k.events + 1 /\ m.seeded = k.seeded /\ m.runs = k.runs /\ m.applied = k.applied
          /\ m.leases = leases /\ m.disk = disk
          /\ DOMAIN m = DOMAIN k
      BY <3>1 DEF GoodCore
    <3> HIDE DEF m
    <3>6. GoodCore(m)
      <4>1. m.events \in Nat /\ m.seeded \in BOOLEAN /\ m.runs \in Nat /\ m.applied \in Seq(Nat)
        BY <3>5 DEF GoodCore
      <4>2. IsSeq(m.leases) /\ \A l \in DOMAIN m.leases : DOMAIN m.leases[l] = {"file", "state"}
        BY <3>2, <3>5
      <4> QED  BY <3>3, <3>5, <4>1, <4>2 DEF GoodCore
    <3> QED  BY <2>2, <3>2, <3>5, <3>6 DEF Grows
  <2>3. CASE c.op \notin {"readFile", "writeFile"}
    <3> DEFINE Like(e, s, r, ap) == [k EXCEPT !.events = e, !.seeded = s, !.runs = r, !.applied = ap]
    <3>1. ASSUME NEW e \in Nat, NEW s \in BOOLEAN, NEW r \in Nat, NEW ap,
                 ap = k.applied \/ (c.confirm # 0 /\ ap = Append(k.applied, c.confirm))
          PROVE  Right(Like(e, s, r, ap))
      <4>1. ap \in Seq(Nat)
        <5>1. k.applied \in Seq(Nat) /\ c.confirm \in Nat
          BY DEF GoodCore, GoodCall
        <5>2. Append(k.applied, c.confirm) \in Seq(Nat)
          BY <5>1
        <5> QED  BY <3>1, <5>1, <5>2
      <4> DEFINE x == Like(e, s, r, ap)
      <4>2. /\ x.events = e /\ x.seeded = s /\ x.runs = r /\ x.applied = ap /\ x.leases = k.leases /\ x.disk = k.disk
            /\ DOMAIN x = DOMAIN k
        BY DEF GoodCore
      <4> HIDE DEF x
      <4> QED  BY <2>3, <3>1, <4>1, <4>2 DEF GoodCore, Grows
    <3>2. /\ k.events + 1 \in Nat /\ k.seeded \in BOOLEAN /\ TRUE \in BOOLEAN /\ k.runs \in Nat /\ k.runs + 1 \in Nat
      BY DEF GoodCore
    <3>4. Right(k)
      BY <2>3 DEF Grows
    <3>3. \/ m = k
          \/ m = Like(k.events + 1, TRUE, k.runs, k.applied)
          \/ m = Like(k.events + 1, TRUE, k.runs + 1, k.applied)
          \/ m = Like(k.events + 1, k.seeded, k.runs, k.applied)
          \/ c.confirm # 0 /\ m = Like(k.events + 1, k.seeded, k.runs, Append(k.applied, c.confirm))
      <4>1. CASE c.op = "seed" /\ ~k.seeded
        BY <4>1 DEF Effect, GoodCore
      <4>2. CASE c.op = "createRun"
        BY <4>2 DEF Effect, GoodCore
      <4>3. CASE c.op = "command" /\ c.confirm = 0
        BY <4>3 DEF Effect, GoodCore
      <4>4. CASE c.op = "command" /\ c.confirm # 0
        BY <4>4 DEF Effect, GoodCore
      <4>5. CASE c.op \notin {"createRun", "command"} /\ ~ (c.op = "seed" /\ ~k.seeded)
        BY <2>3, <4>5 DEF Effect
      <4> QED  BY <4>1, <4>2, <4>3, <4>4, <4>5
    <3> HIDE DEF m, Like, Right
    <3> QED  BY <3>1, <3>2, <3>3, <3>4
  <2> QED  BY <2>1, <2>2, <2>3
<1>2. AnswerTo(m, c) = [projection |-> [Projection(m) EXCEPT !.role = c.role], run |-> m.runs, lease |-> Len(m.leases),
                        text |-> IF c.op = "readFile" THEN m.disk[c.file] ELSE NoText]
  BY DEF AnswerTo
<1> HIDE DEF m
<1>3. [Projection(m) EXCEPT !.role = c.role] \in Projections
  BY <1>1 DEF Projection, Projections, GoodCore, GoodCall
<1>4. (IF c.op = "readFile" THEN m.disk[c.file] ELSE NoText) \in Texts
  <2>1. NoText \in Texts
    BY DEF NoText, Texts
  <2> QED  BY <1>1, <2>1 DEF GoodCore, GoodCall
<1>5. m.runs \in Nat /\ Len(m.leases) \in Nat
  <2>1. IsSeq(m.leases) /\ m.runs \in Nat
    BY <1>1 DEF GoodCore
  <2> QED  BY <2>1, AppendIsSeq
<1>6. AnswerTo(m, c) \in [projection : Projections, run : Nat, lease : Nat, text : Texts]
  BY <1>2, <1>3, <1>4, <1>5
<1>7. GoodAnswer(AnswerTo(m, c), c, m)
  BY <1>1, <1>2, <1>3, <1>4 DEF GoodAnswer
<1>8. AnswerTo(m, c) # NoAnswer
  BY <1>6, NothingIsNoAnswer
<1> HIDE DEF Right
<1>9. GoodCore(m) /\ Grows(k, m) /\ (m.applied = k.applied \/ (c.confirm # 0 /\ m.applied = Append(k.applied, c.confirm)))
  BY <1>1 DEF Right
<1> QED  BY <1>7, <1>8, <1>9 DEF m
-----------------------------------------------------------------------------
(* What becomes of a page. *)

Stays(p, q) == q.confirm = p.confirm /\ q.bound = p.bound /\ (HoldsStream(p) => HoldsStream(q))

LEMMA ConnectedIsGood ==
  ASSUME NEW k, NEW p, GoodPage(p, k), p.projection \in Projections
  PROVE  LET q == connectStream(FirstRun(p)) IN GoodPage(q, k) /\ Stays(p, q) /\ HoldsStream(q)
<1> DEFINE r == FirstRun(p)
           q == connectStream(r)
<1>1. GoodPage(r, k) /\ r.projection = p.projection /\ r.stream = p.stream /\ Stays(p, r)
  BY DEF FirstRun, GoodPage, PageFields, LeaseFor, Stays, HoldsStream
<1> HIDE DEF r
<1>2. r.projection # NoProjection
  BY <1>1, PageAssumption
<1>3. GoodPage(q, k) /\ q.stream # "none" /\ q.confirm = r.confirm /\ q.bound = r.bound
  BY <1>1, <1>2 DEF connectStream, GoodPage, PageFields, LeaseFor
<1> QED  BY <1>1, <1>3 DEF Stays, HoldsStream, r

\* A call of the page is answered.
LEMMA AnsweredIsGood ==
  ASSUME NEW k, GoodPage(page, k), app \in {"control_room", "mobile", "workbench"},
         NEW c, GoodCall(c, k, app), NEW a, GoodAnswer(a, c, k)
  PROVE  LET q == Answered(page, c, a)
         IN  GoodPage(q, k) /\ Stays(page, q) /\ (c.op = "load" => HoldsStream(q))
<1> DEFINE Right(q) == GoodPage(q, k) /\ Stays(page, q) /\ (c.op = "load" => HoldsStream(q))
           q == Answered(page, c, a)
<1> SUFFICES Right(q)
  OBVIOUS
<1>1. a.projection \in Projections /\ a.projection.role \in Roles /\ a.text \in Texts /\ c.text \in Texts
  BY DEF GoodAnswer, Projections, GoodCall
<1>2. ASSUME NEW p, GoodPage(p, k), p.projection \in Projections, Stays(page, p) PROVE Right(connectStream(FirstRun(p)))
  BY <1>2, ConnectedIsGood DEF Stays
<1>3. ASSUME NEW p, GoodPage(p, k), p.confirm = page.confirm, p.bound = page.bound, p.stream = page.stream,
             p.connection = page.connection, c.op # "load"
      PROVE  Right(p)
  BY <1>3 DEF Stays, HoldsStream
<1>4. CASE c.op = "load"
  <2>1. \E p : /\ GoodPage(p, k) /\ p.projection \in Projections /\ Stays(page, p)
               /\ q = connectStream(FirstRun(p))
    <3>1. CASE app = "control_room"
      <4> DEFINE p == [page EXCEPT !.projection = a.projection, !.role = a.projection.role,
                                   !.workspace = @ \/ a.projection.seeded]
      <4>1. q = connectStream(FirstRun(p))
        BY <1>4, <3>1 DEF Answered, controlRoomAnswered, controlRoomLoad
      <4>2. GoodPage(p, k) /\ p.projection \in Projections /\ Stays(page, p)
        BY <1>1 DEF GoodPage, PageFields, LeaseFor, Stays, HoldsStream
      <4> HIDE DEF p, q
      <4> QED  BY <4>1, <4>2
    <3>2. CASE app = "mobile"
      <4> DEFINE p == [page EXCEPT !.projection = a.projection]
      <4>1. q = connectStream(FirstRun(p))
        BY <1>4, <3>2 DEF Answered, mobileAnswered, mobileLoad
      <4>2. GoodPage(p, k) /\ p.projection \in Projections /\ Stays(page, p)
        BY <1>1 DEF GoodPage, PageFields, LeaseFor, Stays, HoldsStream
      <4> HIDE DEF p, q
      <4> QED  BY <4>1, <4>2
    <3>3. CASE app = "workbench"
      <4> DEFINE p == [page EXCEPT !.projection = a.projection, !.workspace = @ \/ a.projection.seeded]
      <4>1. q = connectStream(FirstRun(p))
        BY <1>4, <3>3 DEF Answered, workbenchAnswered, workbenchLoad
      <4>2. GoodPage(p, k) /\ p.projection \in Projections /\ Stays(page, p)
        BY <1>1 DEF GoodPage, PageFields, LeaseFor, Stays, HoldsStream
      <4> HIDE DEF p, q
      <4> QED  BY <4>1, <4>2
    <3> QED  BY <3>1, <3>2, <3>3
  <2> HIDE DEF Right, q
  <2> QED  BY <1>2, <2>1
<1>5. CASE c.op = "readFile" /\ app = "workbench"
  <2> DEFINE p == [page EXCEPT !.file = c.file, !.lease = a.lease, !.original = a.text, !.doc = a.text, !.dirty = FALSE]
  <2>1. q = p
    BY <1>5 DEF Answered, workbenchAnswered, fileOpened
  <2>2. LeaseFor(a.lease, c.file, k) /\ c.file \in Files
    BY <1>5 DEF GoodAnswer, GoodCall
  <2>3. p.file = c.file /\ p.lease = a.lease /\ p.original = a.text /\ p.doc = a.text
    BY DEF GoodPage, PageFields
  <2>4. /\ p.confirm = page.confirm /\ p.bound = page.bound /\ p.stream = page.stream /\ p.connection = page.connection
        /\ p.projection = page.projection /\ p.role = page.role /\ DOMAIN p = DOMAIN page
    BY DEF GoodPage, PageFields
  <2> HIDE DEF p, q, LeaseFor
  <2>5. GoodPage(p, k)
    BY <1>1, <2>2, <2>3, <2>4 DEF GoodPage
  <2> HIDE DEF Right
  <2> QED  BY <1>3, <1>5, <2>1, <2>4, <2>5
<1>6. CASE c.op # "load" /\ ~ (c.op = "readFile" /\ app = "workbench")
  <2>1. \/ q = [page EXCEPT !.projection = a.projection, !.run = a.run]
        \/ q = [page EXCEPT !.run = a.run]
        \/ q = [page EXCEPT !.projection = a.projection]
        \/ q = [page EXCEPT !.projection = a.projection, !.original = c.text, !.dirty = FALSE]
        \/ q = page
    <3>1. CASE app = "control_room"
      BY <1>6, <3>1 DEF Answered, controlRoomAnswered
    <3>2. CASE app = "mobile"
      BY <1>6, <3>2 DEF Answered, mobileAnswered
    <3>3. CASE app = "workbench"
      BY <1>6, <3>3 DEF Answered, workbenchAnswered, fileSaved
    <3> QED  BY <3>1, <3>2, <3>3
  <2>2. /\ GoodPage(q, k) /\ q.confirm = page.confirm /\ q.bound = page.bound /\ q.stream = page.stream
        /\ q.connection = page.connection
    <3> HIDE DEF q
    <3>1. CASE q = [page EXCEPT !.projection = a.projection, !.run = a.run]
      BY <1>1, <3>1 DEF GoodPage, PageFields, LeaseFor
    <3>2. CASE q = [page EXCEPT !.run = a.run]
      BY <3>2 DEF GoodPage, PageFields, LeaseFor
    <3>3. CASE q = [page EXCEPT !.projection = a.projection]
      BY <1>1, <3>3 DEF GoodPage, PageFields, LeaseFor
    <3>4. CASE q = [page EXCEPT !.projection = a.projection, !.original = c.text, !.dirty = FALSE]
      BY <1>1, <3>4 DEF GoodPage, PageFields, LeaseFor
    <3> QED  BY <2>1, <3>1, <3>2, <3>3, <3>4
  <2> HIDE DEF Right, q
  <2> QED  BY <1>3, <1>6, <2>2
<1> QED  BY <1>4, <1>5, <1>6
\* load() goes on to open a file.
LEMMA ThenIsGood ==
  ASSUME NEW k, NEW q, NEW c, NEW d \in Then(q, c), app \in {"control_room", "mobile", "workbench"}
  PROVE  d.page = q /\ PlainCalls(d.calls, k, app)
<1>1. GoodCall(readFile(Preferred), k, app) /\ readFile(Preferred).confirm = 0
  <2>1. NoText \in Texts /\ "user" \in Roles /\ Preferred \in Files
    BY PageAssumption DEF NoText, Texts, Roles
  <2> QED  BY <2>1 DEF readFile, Fetch, GoodCall
<1>2. PlainCalls(<<>>, k, app) /\ PlainCalls(<<readFile(Preferred)>>, k, app)
  BY <1>1, ShortLists
<1>3. d = Does(q, <<>>) \/ d = Does(q, <<readFile(Preferred)>>)
  BY DEF Then, workbenchThen, openFile
<1> QED  BY <1>2, <1>3 DEF Does
-----------------------------------------------------------------------------
(* What a function comes to that starts on page p: calls, and what becomes of the page.  A confirmation *)
(* is dropped, goes with the first call, or is asked for with the number n.                             *)

Sends(d, p, n) ==
  \/ (d.calls # <<>> => Head(d.calls).confirm = 0) /\ d.page.confirm \in {0, p.confirm}
  \/ d.calls # <<>> /\ Head(d.calls).confirm = p.confirm /\ d.page.confirm = 0
  \/ d.calls = <<>> /\ d.page.confirm = n

GoodStart(d, p, k, a, n) ==
  /\ GoodPage(d.page, k) /\ GoodCalls(d.calls, k, a)
  /\ d.page.bound = p.bound /\ (HoldsStream(p) => HoldsStream(d.page))
  /\ Sends(d, p, n)

LEMMA PlainStart ==
  ASSUME NEW k, NEW a, NEW n, NEW p, NEW q, NEW s, GoodPage(q, k), PlainCalls(s, k, a),
         q.bound = p.bound, HoldsStream(p) => HoldsStream(q), q.confirm \in {0, p.confirm}
  PROVE  GoodStart(Does(q, s), p, k, a, n)
<1>1. s # <<>> => Head(s).confirm = 0
  <2> SUFFICES ASSUME s # <<>> PROVE Head(s).confirm = 0
    OBVIOUS
  <2>1. IsSeq(s)
    BY DEF PlainCalls, GoodCalls
  <2>2. 1 \in DOMAIN s /\ Head(s) = s[1]
    BY <2>1, TailIsSeq
  <2> QED  BY <2>2 DEF PlainCalls
<1> DEFINE d == Does(q, s)
<1>2. d.page = q /\ d.calls = s
  BY DEF Does
<1> HIDE DEF d
<1>3. GoodStart(d, p, k, a, n)
  <2> HIDE DEF GoodPage, GoodCalls, HoldsStream
  <2>1. GoodCalls(s, k, a)
    BY DEF PlainCalls
  <2> QED  BY <1>1, <1>2, <2>1 DEF GoodStart, Sends
<1> QED  BY <1>3 DEF d

\* The calls that clicks come to.
LEMMA ClickCalls ==
  ASSUME NEW k, NEW a
  PROVE  /\ PlainCalls(<<>>, k, a) /\ PlainCalls(<<load>>, k, a) /\ PlainCalls(<<command>>, k, a)
         /\ PlainCalls(<<newRun>>, k, a) /\ PlainCalls(<<seed, load>>, k, a) /\ PlainCalls(<<command, load>>, k, a)
         /\ PlainCalls(<<seed, load, newRun>>, k, a) /\ PlainCalls(<<seed, newRun, load>>, k, a)
<1>1. \A c \in {load, seed, newRun, command} : GoodCall(c, k, a) /\ c.confirm = 0
  BY FetchIsGood DEF load, seed, newRun, command
<1> HIDE DEF load, seed, newRun, command
<1>2. ASSUME NEW c1 \in {load, seed, newRun, command}, NEW c2 \in {load, seed, newRun, command},
             NEW c3 \in {load, seed, newRun, command}
      PROVE  PlainCalls(<<>>, k, a) /\ PlainCalls(<<c1>>, k, a) /\ PlainCalls(<<c1, c2>>, k, a)
             /\ PlainCalls(<<c1, c2, c3>>, k, a)
  BY <1>1, ShortLists
<1> QED  BY <1>2

LEMMA ControlRoomClickIsGood ==
  ASSUME NEW k, NEW p, GoodPage(p, k), NEW a, NEW n, NEW offer \in controlRoomOffers(p)
  PROVE  GoodStart(controlRoomClick(p, offer), p, k, a, n)
<1> DEFINE q == [p EXCEPT !.role = IF @ = "operator" THEN "user" ELSE "operator"]
<1>1. GoodPage(q, k) /\ q.bound = p.bound /\ HoldsStream(q) = HoldsStream(p) /\ q.confirm = p.confirm
  BY DEF GoodPage, PageFields, Roles, LeaseFor, HoldsStream
<1>2. \/ controlRoomClick(p, offer) = Does(q, <<load>>)
      \/ \E s \in {<<seed, load>>, <<newRun>>, <<seed, load, newRun>>, <<command>>} : controlRoomClick(p, offer) = Does(p, s)
  BY DEF controlRoomOffers, controlRoomClick
<1> HIDE DEF q
<1>3. CASE controlRoomClick(p, offer) = Does(q, <<load>>)
  BY <1>1, <1>3, ClickCalls, PlainStart
<1>4. CASE \E s \in {<<seed, load>>, <<newRun>>, <<seed, load, newRun>>, <<command>>} :
             controlRoomClick(p, offer) = Does(p, s)
  BY <1>4, ClickCalls, PlainStart
<1> QED  BY <1>2, <1>3, <1>4

LEMMA MobileClickIsGood ==
  ASSUME NEW k, NEW p, GoodPage(p, k), NEW a, NEW n \in Nat, NEW offer \in mobileOffers(p)
  PROVE  GoodStart(mobileClick(p, offer, n), p, k, a, n)
<1> DEFINE With(x) == [p EXCEPT !.confirm = x]
<1>1. ASSUME NEW x \in Nat
      PROVE  GoodPage(With(x), k) /\ With(x).bound = p.bound /\ HoldsStream(With(x)) = HoldsStream(p) /\ With(x).confirm = x
  BY DEF GoodPage, PageFields, LeaseFor, HoldsStream
<1>2. CASE offer \in {"decide", "push", "settings", "quickCommand", "finalReview"}
  <2>1. PlainCalls(mobileEnsureRun(p), k, a) /\ PlainCalls(<<command, load>>, k, a)
    BY ClickCalls DEF mobileEnsureRun
  <2>2. PlainCalls(mobileEnsureRun(p) \o <<command, load>>, k, a)
    BY <2>1, PlainConcat
  <2>3. mobileClick(p, offer, n) \in {Does(p, <<command, load>>), Does(p, mobileEnsureRun(p) \o <<command, load>>)}
    BY <1>2 DEF mobileClick
  <2> QED  BY <2>1, <2>2, <2>3, PlainStart
<1>3. CASE offer = "cancelRun"
  <2>1. mobileClick(p, offer, n) = Does(With(n), <<>>)
    BY <1>3 DEF mobileClick, openConfirm
  <2>2. GoodCalls(<<>>, k, a)
    BY ClickCalls DEF PlainCalls
  <2> HIDE DEF With
  <2> QED  BY <1>1, <2>1, <2>2 DEF GoodStart, Sends, Does
<1>4. CASE offer = "dismiss"
  <2>1. mobileClick(p, offer, n) = Does(With(0), <<>>)
    BY <1>4 DEF mobileClick, closeConfirm
  <2> HIDE DEF With
  <2> QED  BY <1>1, <2>1, ClickCalls, PlainStart
<1>5. CASE offer = "confirm"
  <2> DEFINE c == [command EXCEPT !.confirm = p.confirm]
  <2>1. mobileClick(p, offer, n) = Does(With(0), <<c, load>>)
    BY <1>5 DEF mobileClick, confirmApply, closeConfirm
  <2>2. GoodCall(c, k, a) /\ c.confirm = p.confirm
    <3>1. NoText \in Texts /\ "user" \in Roles /\ p.confirm \in Nat
      BY DEF NoText, Texts, Roles, GoodPage
    <3> QED  BY <3>1 DEF command, Fetch, GoodCall
  <2>3. GoodCall(load, k, a) /\ load.confirm = 0
    BY FetchIsGood DEF load
  <2> HIDE DEF c, With, load
  <2>4. GoodCalls(<<c, load>>, k, a)
    BY <2>2, <2>3, ShortLists
  <2>5. <<c, load>> # <<>> /\ Head(<<c, load>>) = c
    OBVIOUS
  <2> QED  BY <1>1, <2>1, <2>2, <2>4, <2>5 DEF GoodStart, Sends, Does
<1> QED  BY <1>2, <1>3, <1>4, <1>5 DEF mobileOffers

LEMMA WorkbenchClickIsGood ==
  ASSUME NEW k, NEW p, GoodPage(p, k), NEW n, NEW offer \in workbenchOffers(p)
  PROVE  GoodStart(workbenchClick(p, offer), p, k, "workbench", n)
<1>1. CASE offer \in {"seed", "ide", "decideHunk"}
  <2>1. workbenchClick(p, offer) \in {Does(p, <<seed, load>>), Does(p, <<command>>)}
    BY <1>1 DEF workbenchClick
  <2> QED  BY <2>1, ClickCalls, PlainStart
<1>2. CASE offer = "run"
  <2>1. PlainCalls(workbenchEnsureRun(p), k, "workbench") /\ PlainCalls(<<command>>, k, "workbench")
    <3>1. workbenchEnsureRun(p) \in {<<>>, <<newRun>>, <<seed, load, newRun>>}
      BY DEF workbenchEnsureRun
    <3> QED  BY <3>1, ClickCalls
  <2>2. PlainCalls(workbenchEnsureRun(p) \o <<command>>, k, "workbench")
    BY <2>1, PlainConcat
  <2>3. workbenchClick(p, offer) = Does(p, workbenchEnsureRun(p) \o <<command>>)
    BY <1>2 DEF workbenchClick
  <2> QED  BY <2>2, <2>3, PlainStart
<1>3. CASE offer = "revert"
  <2> DEFINE q == [p EXCEPT !.doc = p.original, !.dirty = FALSE]
  <2>1. workbenchClick(p, offer) = Does(q, <<>>)
    BY <1>3 DEF workbenchClick, revertFile
  <2>2. GoodPage(q, k) /\ q.bound = p.bound /\ HoldsStream(q) = HoldsStream(p) /\ q.confirm = p.confirm
    BY DEF GoodPage, PageFields, LeaseFor, HoldsStream
  <2> HIDE DEF q
  <2> QED  BY <2>1, <2>2, ClickCalls, PlainStart
<1>4. CASE offer = "save"
  <2> DEFINE c == [Fetch("writeFile") EXCEPT !.file = p.file, !.text = p.doc, !.lease = p.lease]
  <2>1. p.file \in Files /\ LeaseFor(p.lease, p.file, k) /\ p.doc \in Texts
    BY <1>4 DEF workbenchOffers, GoodPage
  <2>2. GoodCall(c, k, "workbench") /\ c.confirm = 0
    <3> DEFINE Write(f, x, l) ==
                 [op |-> "writeFile", role |-> "user", confirm |-> 0, file |-> f, text |-> x, lease |-> l]
    <3>1. c = [op |-> "writeFile", role |-> "user", confirm |-> 0, file |-> p.file, text |-> p.doc, lease |-> p.lease]
      <4>1. Fetch("writeFile") = Write(NoFile, NoText, 0)
        BY DEF Fetch
      <4>2. [Write(NoFile, NoText, 0) EXCEPT !.file = p.file] = Write(p.file, NoText, 0)
        OBVIOUS
      <4>3. [Write(p.file, NoText, 0) EXCEPT !.text = p.doc] = Write(p.file, p.doc, 0)
        OBVIOUS
      <4>4. [Write(p.file, p.doc, 0) EXCEPT !.lease = p.lease] = Write(p.file, p.doc, p.lease)
        OBVIOUS
      <4>5. c = [[[Fetch("writeFile") EXCEPT !.file = p.file] EXCEPT !.text = p.doc] EXCEPT !.lease = p.lease]
        OBVIOUS
      <4> QED  BY <4>1, <4>2, <4>3, <4>4, <4>5
    <3> HIDE DEF c, LeaseFor
    <3>2. c.op = "writeFile" /\ c.role \in Roles /\ c.confirm = 0 /\ c.file = p.file /\ c.text = p.doc
          /\ c.lease = p.lease
          /\ c = [op |-> c.op, role |-> c.role, confirm |-> c.confirm, file |-> c.file, text |-> c.text, lease |-> c.lease]
      BY <3>1 DEF Roles
    <3> QED  BY <2>1, <3>2 DEF GoodCall
  <2>3. workbenchClick(p, offer) = Does(p, <<c>>)
    BY <1>4 DEF workbenchClick, saveFile
  <2> HIDE DEF c
  <2>4. PlainCalls(<<c>>, k, "workbench")
    BY <2>2, ShortLists
  <2> QED  BY <2>3, <2>4, PlainStart
<1> QED  BY <1>1, <1>2, <1>3, <1>4 DEF workbenchOffers

LEMMA OpenFileIsGood ==
  ASSUME NEW k, NEW p, GoodPage(p, k), NEW a, NEW n, NEW f \in Files
  PROVE  GoodStart(openFile(p, f), p, k, a, n)
<1>1. GoodCall(readFile(f), k, a) /\ readFile(f).confirm = 0
  <2>1. NoText \in Texts /\ "user" \in Roles
    BY DEF NoText, Texts, Roles
  <2> QED  BY <2>1 DEF readFile, Fetch, GoodCall
<1>2. PlainCalls(<<readFile(f)>>, k, a)
  BY <1>1, ShortLists
<1> QED  BY <1>2, PlainStart DEF openFile
-----------------------------------------------------------------------------
(* Where a confirmation may go. *)

\* The functions of us have the tokens of those of ts, but that some are gone: h says which is which.
TokensFrom(h, us, ts) ==
  /\ \A i \in DOMAIN ts : Token(ts[i]) \in Nat
  /\ \A i \in DOMAIN us : Token(us[i]) # 0 => h[i] \in DOMAIN ts /\ Token(us[i]) = Token(ts[h[i]])
  /\ \A i, j \in DOMAIN us : Token(us[i]) # 0 /\ Token(us[j]) # 0 /\ h[i] = h[j] => i = j
  /\ \A i \in DOMAIN us : Token(us[i]) \in Nat

\* A function ends, goes on, or was lost; a confirmation is dropped.
LEMMA OnceKept ==
  ASSUME NEW ts, NEW us, NEW h, TokensFrom(h, us, ts), NEW applied \in Seq(Nat), NEW confirm \in Nat, NEW n \in Nat,
         OnceOf(ts, applied, confirm, n), NEW m \in Nat, n <= m, NEW shown \in {0, confirm}
  PROVE  OnceOf(us, applied, shown, m)
<1> HIDE DEF Token
<1>1. IsInjective(applied) /\ \A i \in DOMAIN applied : applied[i] <= m
  BY DEF OnceOf
<1>2. \A i \in DOMAIN us : Token(us[i]) <= m /\ (Token(us[i]) # 0 => \A j \in DOMAIN applied : applied[j] # Token(us[i]))
  BY DEF OnceOf, TokensFrom
<1>3. \A i, j \in DOMAIN us : Token(us[i]) # 0 /\ Token(us[i]) = Token(us[j]) => i = j
  BY DEF OnceOf, TokensFrom
<1>4. shown # 0 => /\ \A j \in DOMAIN applied : applied[j] # shown
                   /\ \A i \in DOMAIN us : Token(us[i]) # shown
  BY DEF OnceOf, TokensFrom
<1>5. shown <= m
  BY DEF OnceOf
<1> QED  BY <1>1, <1>2, <1>3, <1>4, <1>5 DEF OnceOf

\* The confirmed action of function e is carried out.
LEMMA OnceCarried ==
  ASSUME NEW ts, NEW us, NEW h, TokensFrom(h, us, ts), NEW applied \in Seq(Nat), NEW confirm \in Nat, NEW n \in Nat,
         OnceOf(ts, applied, confirm, n), NEW e \in DOMAIN ts, Token(ts[e]) # 0,
         \A i \in DOMAIN us : Token(us[i]) # 0 => h[i] # e
  PROVE  OnceOf(us, Append(applied, Token(ts[e])), confirm, n)
<1> HIDE DEF Token
<1> DEFINE x == Token(ts[e])
           more == Append(applied, x)
<1>1. x \in Nat /\ x <= n /\ \A j \in DOMAIN applied : applied[j] # x
  BY DEF OnceOf, TokensFrom
<1>2. /\ DOMAIN more = 1..(Len(applied) + 1) /\ DOMAIN applied = 1..Len(applied) /\ Len(applied) \in Nat
      /\ more[Len(applied) + 1] = x /\ \A i \in DOMAIN applied : more[i] = applied[i]
  BY <1>1
<1>3. \A i \in DOMAIN more : (i \in DOMAIN applied /\ more[i] = applied[i]) \/ (i = Len(applied) + 1 /\ more[i] = x)
  BY <1>2
<1> HIDE DEF more
<1>4. IsInjective(more)
  <2>1. \A i, j \in DOMAIN applied : applied[i] = applied[j] => i = j
    BY DEF OnceOf, IsInjective
  <2>2. \A i, j \in DOMAIN more : more[i] = more[j] => i = j
    BY <1>1, <1>3, <2>1
  <2> QED  BY <2>2 DEF IsInjective
<1>5. \A i \in DOMAIN more : more[i] <= n
  BY <1>1, <1>3 DEF OnceOf
<1>6. \A i \in DOMAIN us : Token(us[i]) <= n /\ (Token(us[i]) # 0 => Token(us[i]) # x)
  <2> TAKE i \in DOMAIN us
  <2>1. CASE Token(us[i]) = 0
    BY <2>1
  <2>2. CASE Token(us[i]) # 0
    BY <2>2 DEF OnceOf, TokensFrom
  <2> QED  BY <2>1, <2>2
<1>7. \A i \in DOMAIN us : Token(us[i]) # 0 => \A j \in DOMAIN more : more[j] # Token(us[i])
  BY <1>3, <1>6 DEF OnceOf, TokensFrom
<1>8. \A i, j \in DOMAIN us : Token(us[i]) # 0 /\ Token(us[i]) = Token(us[j]) => i = j
  BY DEF OnceOf, TokensFrom
<1>9. confirm <= n
  BY DEF OnceOf
<1>10. confirm # 0 => /\ \A j \in DOMAIN more : more[j] # confirm
                      /\ \A i \in DOMAIN us : Token(us[i]) # confirm
  BY <1>3 DEF OnceOf, TokensFrom
<1> QED  BY <1>4, <1>5, <1>6, <1>7, <1>8, <1>9, <1>10 DEF OnceOf, more, x

\* The confirmation that was shown is sent, with a function of its own, or something else is.
LEMMA OnceSent ==
  ASSUME NEW ts, IsSeq(ts), \A i \in DOMAIN ts : Token(ts[i]) \in Nat,
         NEW applied \in Seq(Nat), NEW confirm \in Nat, NEW n \in Nat, OnceOf(ts, applied, confirm, n),
         NEW t, NEW m \in Nat, n <= m, NEW shown,
         (Token(t) = 0 /\ shown \in {0, confirm}) \/ (Token(t) = confirm /\ shown = 0)
  PROVE  OnceOf(Append(ts, t), applied, shown, m)
<1> HIDE DEF Token
<1> DEFINE us == Append(ts, t)
<1>1. /\ DOMAIN us = 1..(Len(ts) + 1) /\ DOMAIN ts = 1..Len(ts) /\ Len(ts) \in Nat
      /\ us[Len(ts) + 1] = t /\ \A i \in DOMAIN ts : us[i] = ts[i]
  BY AppendIsSeq
<1>2. \A i \in DOMAIN us : (i \in DOMAIN ts /\ us[i] = ts[i]) \/ (i = Len(ts) + 1 /\ us[i] = t)
  BY <1>1
<1> HIDE DEF us
<1>3. IsInjective(applied) /\ \A i \in DOMAIN applied : applied[i] <= m
  BY DEF OnceOf
<1>4. Token(t) <= m /\ (Token(t) # 0 => Token(t) = confirm /\ shown = 0) /\ shown <= m /\ Token(t) \in Nat
  BY DEF OnceOf
<1>5. \A i \in DOMAIN us : Token(us[i]) <= m /\ (Token(us[i]) # 0 => \A j \in DOMAIN applied : applied[j] # Token(us[i]))
  BY <1>2, <1>4 DEF OnceOf
<1>6. \A i, j \in DOMAIN us : Token(us[i]) # 0 /\ Token(us[i]) = Token(us[j]) => i = j
  BY <1>2, <1>4 DEF OnceOf
<1>7. shown # 0 => /\ \A j \in DOMAIN applied : applied[j] # shown
                   /\ \A i \in DOMAIN us : Token(us[i]) # shown
  BY <1>2, <1>4 DEF OnceOf
<1> QED  BY <1>3, <1>4, <1>5, <1>6, <1>7 DEF OnceOf, us

\* Another one is asked for.
LEMMA OnceAsked ==
  ASSUME NEW ts, \A i \in DOMAIN ts : Token(ts[i]) \in Nat, NEW applied \in Seq(Nat), NEW confirm \in Nat, NEW n \in Nat,
         OnceOf(ts, applied, confirm, n)
  PROVE  OnceOf(ts, applied, n + 1, n + 1)
<1> HIDE DEF Token
<1>1. IsInjective(applied) /\ \A i \in DOMAIN applied : applied[i] <= n /\ applied[i] \in Nat
  BY DEF OnceOf
<1>2. \A i \in DOMAIN ts : Token(ts[i]) <= n /\ (Token(ts[i]) # 0 => \A j \in DOMAIN applied : applied[j] # Token(ts[i]))
  BY DEF OnceOf
<1>3. \A i, j \in DOMAIN ts : Token(ts[i]) # 0 /\ Token(ts[i]) = Token(ts[j]) => i = j
  BY DEF OnceOf
<1>4. (\A j \in DOMAIN applied : applied[j] # n + 1) /\ (\A i \in DOMAIN ts : Token(ts[i]) # n + 1)
  BY <1>1, <1>2
<1>5. (\A i \in DOMAIN applied : applied[i] <= n + 1) /\ (\A i \in DOMAIN ts : Token(ts[i]) <= n + 1)
  BY <1>1, <1>2
<1> QED  BY <1>1, <1>2, <1>3, <1>4, <1>5 DEF OnceOf
-----------------------------------------------------------------------------
(* The steps. *)

BrowserInv == PagesInv /\ OnceInv /\ StreamInv

LEMMA TaskCalls ==
  ASSUME PagesInv, NEW i \in DOMAIN tasks
  PROVE  /\ IsSeq(tasks[i].todo) /\ GoodCall(Head(tasks[i].todo), core, app) /\ Token(tasks[i]) \in Nat
         /\ DOMAIN tasks[i] = {"todo", "answer", "boots"}
<1> DEFINE t == tasks[i]
<1>1. GoodTask(t, core, app)
  BY DEF PagesInv
<1> HIDE DEF t
<1>2. IsSeq(t.todo) /\ 1 \in DOMAIN t.todo /\ Head(t.todo) = t.todo[1]
  <2>1. IsSeq(t.todo) /\ t.todo # <<>>
    BY <1>1 DEF GoodTask, GoodCalls
  <2> QED  BY <2>1, TailIsSeq
<1>3. GoodCall(Head(t.todo), core, app)
  BY <1>1, <1>2 DEF GoodTask, GoodCalls
<1>4. Token(t) \in Nat
  <2>1. Head(t.todo).confirm \in Nat
    BY <1>3 DEF GoodCall
  <2> QED  BY <2>1 DEF Token
<1> QED  BY <1>1, <1>2, <1>3, <1>4 DEF GoodTask, t

\* Incidents are counted.
SpentMore ==
  /\ spent' = [k \in Kinds |-> spent'[k]]
  /\ \A k \in Kinds : spent'[k] \in Nat /\ spent[k] \in Nat /\ spent[k] <= spent'[k]

LEMMA HappensSpends ==
  ASSUME PagesInv, NEW kind \in Kinds, Happens(kind)
  PROVE  SpentMore /\ spent'[kind] = spent[kind] + 1
BY DEF PagesInv, Happens, SpentMore

LEMMA NothingSpent == ASSUME PagesInv, spent' = spent PROVE SpentMore
BY DEF PagesInv, SpentMore

\* A function starts.
LEMMA StartsKeeps ==
  ASSUME BrowserInv, NEW d, Starts(d), UNCHANGED <<app, core>>, SpentMore,
         GoodStart(d, page, core, app, spent'.clicks),
         d.page.confirm \in {0, page.confirm} \/ spent'.clicks = spent.clicks + 1
  PROVE  BrowserInv'
<1> DEFINE t == Task(d.page, d.calls, FALSE)
<1>1. GoodPage(d.page, core) /\ GoodCalls(d.calls, core, app) /\ d.page.role \in Roles
  BY DEF GoodStart, GoodPage
<1>2. ASSUME d.calls # <<>>
      PROVE  /\ GoodTask(t, core, app) /\ Token(t) = Head(d.calls).confirm /\ t.boots = FALSE
             /\ Token(t) \in Nat
  <2> DEFINE s == Sent(d.page, d.calls)
  <2>1. GoodCalls(s, core, app) /\ s # <<>> /\ Head(s).confirm = Head(d.calls).confirm
    <3>1. ASSUME NEW p, p.role \in Roles, NEW cs, GoodCalls(cs, core, app), cs # <<>>
          PROVE  GoodCalls(Sent(p, cs), core, app) /\ Sent(p, cs) # <<>> /\ Head(Sent(p, cs)).confirm = Head(cs).confirm
      BY <3>1, SentIsGood
    <3> HIDE DEF GoodCalls, Sent
    <3> QED  BY <1>1, <1>2, <3>1
  <2>2. t.todo = s /\ t.answer = NoAnswer /\ t.boots = FALSE /\ DOMAIN t = {"todo", "answer", "boots"}
    BY DEF Task
  <2> HIDE DEF t, s
  <2>3. GoodTask(t, core, app) /\ Token(t) = Head(d.calls).confirm
    BY <2>1, <2>2 DEF GoodTask, Token
  <2>4. GoodCall(Head(d.calls), core, app)
    <3>1. IsSeq(d.calls)
      BY <1>1 DEF GoodCalls
    <3>2. 1 \in DOMAIN d.calls /\ Head(d.calls) = d.calls[1]
      BY <1>2, <3>1, TailIsSeq
    <3> QED  BY <1>1, <3>2 DEF GoodCalls
  <2> QED  BY <2>2, <2>3, <2>4 DEF GoodCall
<1> HIDE DEF t
<1>3. IsSeq(tasks) /\ PagesInv /\ OnceInv /\ StreamInv
  BY DEF BrowserInv, PagesInv
<1>4. /\ page' = d.page /\ app' = app /\ core' = core
      /\ IF d.calls = <<>> THEN tasks' = tasks ELSE tasks' = Append(tasks, t)
  BY DEF Starts, t
<1>5. \A i \in DOMAIN tasks' : (i \in DOMAIN tasks /\ tasks'[i] = tasks[i]) \/ (d.calls # <<>> /\ tasks'[i] = t)
  <2>1. CASE d.calls = <<>>
    BY <1>4, <2>1
  <2>2. CASE d.calls # <<>>
    <3> DEFINE us == Append(tasks, t)
    <3>1. /\ DOMAIN us = 1..(Len(tasks) + 1) /\ DOMAIN tasks = 1..Len(tasks) /\ Len(tasks) \in Nat
          /\ us[Len(tasks) + 1] = t /\ \A i \in DOMAIN tasks : us[i] = tasks[i]
      BY <1>3, AppendIsSeq
    <3> HIDE DEF us
    <3>2. \A i \in DOMAIN us : (i \in DOMAIN tasks /\ us[i] = tasks[i]) \/ us[i] = t
      BY <3>1
    <3> QED  BY <1>4, <2>2, <3>2 DEF us
  <2> QED  BY <2>1, <2>2
<1>6. IsSeq(tasks') /\ \A i \in DOMAIN tasks : i \in DOMAIN tasks' /\ tasks'[i] = tasks[i]
  <2>1. CASE d.calls = <<>>
    BY <1>3, <1>4, <2>1
  <2>2. CASE d.calls # <<>>
    <3> DEFINE us == Append(tasks, t)
    <3>1. /\ IsSeq(us) /\ DOMAIN us = 1..(Len(tasks) + 1) /\ DOMAIN tasks = 1..Len(tasks) /\ Len(tasks) \in Nat
          /\ \A i \in DOMAIN tasks : us[i] = tasks[i]
      BY <1>3, AppendIsSeq
    <3> HIDE DEF us
    <3>2. \A i \in DOMAIN tasks : i \in DOMAIN us
      BY <3>1
    <3> QED  BY <1>4, <2>2, <3>1, <3>2 DEF us
  <2> QED  BY <2>1, <2>2
<1>7. PagesInv'
  <2>1. \A i \in DOMAIN tasks' : GoodTask(tasks'[i], core, app)
    BY <1>2, <1>3, <1>5 DEF PagesInv
  <2> QED  BY <1>1, <1>3, <1>4, <1>6, <2>1 DEF PagesInv, SpentMore
<1>8. OnceInv'
  <2> DEFINE n == spent.clicks
             m == spent'.clicks
  <2>1. /\ core.applied \in Seq(Nat) /\ page.confirm \in Nat /\ n \in Nat /\ m \in Nat /\ n <= m
        /\ \A i \in DOMAIN tasks : Token(tasks[i]) \in Nat
    BY <1>3, TaskCalls DEF PagesInv, GoodCore, GoodPage, SpentMore, Kinds
  <2>2. OnceOf(tasks, core.applied, page.confirm, n)
    BY <1>3 DEF OnceInv
  <2>3. Sends(d, page, m)
    BY DEF GoodStart
  <2> HIDE DEF n, m, Token
  <2>4. OnceOf(tasks', core.applied, d.page.confirm, m)
    <3>1. CASE d.calls # <<>>
      <4>1. \/ Token(t) = 0 /\ d.page.confirm \in {0, page.confirm}
            \/ Token(t) = page.confirm /\ d.page.confirm = 0
        BY <1>2, <2>3, <3>1 DEF Sends
      <4>2. OnceOf(Append(tasks, t), core.applied, d.page.confirm, m)
        BY <1>3, <2>1, <2>2, <4>1, OnceSent
      <4> QED  BY <1>4, <3>1, <4>2
    <3>2. CASE d.calls = <<>> /\ d.page.confirm \in {0, page.confirm}
      <4> DEFINE h == [i \in DOMAIN tasks |-> i]
      <4>1. TokensFrom(h, tasks, tasks)
        BY <2>1 DEF TokensFrom
      <4> HIDE DEF h
      <4>2. OnceOf(tasks, core.applied, d.page.confirm, m)
        BY <2>1, <2>2, <3>2, <4>1, OnceKept
      <4> QED  BY <1>4, <3>2, <4>2
    <3>3. CASE d.calls = <<>> /\ d.page.confirm \notin {0, page.confirm}
      <4>1. d.page.confirm = n + 1 /\ m = n + 1
        BY <2>3, <3>3 DEF Sends, n, m
      <4>2. OnceOf(tasks, core.applied, n + 1, n + 1)
        BY <2>1, <2>2, OnceAsked
      <4> QED  BY <1>4, <3>3, <4>1, <4>2
    <3> QED  BY <3>1, <3>2, <3>3
  <2> QED  BY <1>4, <2>4 DEF OnceInv, m
<1>9. StreamInv'
  <2> DEFINE f == spent.failures
             g == spent'.failures
  <2>1. StreamOf(app, page, tasks, f)
    BY <1>3 DEF StreamInv
  <2>2. f \in Nat /\ g \in Nat /\ f <= g
    BY DEF SpentMore, Kinds
  <2>3. d.page.bound = page.bound /\ (HoldsStream(page) => HoldsStream(d.page))
    BY DEF GoodStart
  <2> HIDE DEF f, g, HoldsStream, HasLoad
  <2>4. CASE app = "control_room" \/ (app = "mobile" /\ f > 0) \/ HoldsStream(page)
    <3>1. StreamOf(app, d.page, tasks', g)
      BY <2>2, <2>3, <2>4 DEF StreamOf
    <3> QED  BY <1>4, <3>1 DEF StreamInv, g
  <2>5. CASE ~ (app = "control_room" \/ (app = "mobile" /\ f > 0) \/ HoldsStream(page))
    <3>1. /\ \A i \in DOMAIN tasks : tasks[i].boots => HasLoad(tasks[i].todo)
          /\ app = "workbench" => ~page.bound
          /\ app = "mobile" => \E i \in DOMAIN tasks : tasks[i].boots
      BY <2>1, <2>5 DEF StreamOf
    <3>2. \A i \in DOMAIN tasks' : tasks'[i].boots => HasLoad(tasks'[i].todo)
      BY <1>2, <1>5, <3>1
    <3>3. app = "mobile" => \E i \in DOMAIN tasks' : tasks'[i].boots
      BY <1>6, <3>1
    <3>4. StreamOf(app, d.page, tasks', g)
      BY <2>3, <3>1, <3>2, <3>3 DEF StreamOf
    <3> QED  BY <1>4, <3>4 DEF StreamInv, g
  <2> QED  BY <2>4, <2>5
<1> QED  BY <1>7, <1>8, <1>9 DEF BrowserInv

\* What the gateway may have made of core.
Carries(m, c) ==
  /\ GoodCore(m) /\ Grows(core, m)
  /\ m.applied = core.applied \/ (c.confirm # 0 /\ m.applied = Append(core.applied, c.confirm))

\* Function i is gone, whether or not its call took effect.
LEMMA ThrowsKeeps ==
  ASSUME BrowserInv, NEW i \in DOMAIN tasks, InFlight(i), Throws(i), app' = app, SpentMore, spent'.clicks = spent.clicks,
         Carries(core', Head(tasks[i].todo)), app = "mobile" => spent'.failures > 0
  PROVE  BrowserInv'
<1>1. PagesInv /\ OnceInv /\ StreamInv /\ IsSeq(tasks)
  BY DEF BrowserInv, PagesInv
<1> DEFINE us == RemoveAt(tasks, i)
           h == [j \in DOMAIN us |-> IF j < i THEN j ELSE j + 1]
<1>2. IsSeq(us) /\ \A j \in DOMAIN us : h[j] \in DOMAIN tasks /\ us[j] = tasks[h[j]] /\ h[j] # i
  <2>1. /\ IsSeq(us) /\ Len(tasks) \in Nat \ {0} /\ DOMAIN tasks = 1..Len(tasks) /\ DOMAIN us = 1..(Len(tasks) - 1)
        /\ \A j \in 1..(Len(tasks) - 1) : us[j] = tasks[IF j < i THEN j ELSE j + 1]
    BY <1>1, RemoveIsSeq
  <2> HIDE DEF us
  <2> QED  BY <2>1
<1>3. \A j, l \in DOMAIN us : h[j] = h[l] => j = l
  <2>1. DOMAIN us = 1..(Len(tasks) - 1) /\ Len(tasks) \in Nat /\ i \in 1..Len(tasks)
    BY <1>1, RemoveIsSeq
  <2> HIDE DEF us
  <2> QED  BY <2>1
<1>4. tasks' = us
  BY DEF Throws
<1> HIDE DEF us, h
<1>5. GoodPage(page', core) /\ page'.confirm = page.confirm /\ page'.bound = page.bound
      /\ (app # "mobile" => page' = page)
  <2>1. GoodPage(page, core)
    BY <1>1 DEF PagesInv
  <2>2. CASE app = "mobile"
    <3>1. page' = [page EXCEPT !.connection = "offline"]
      BY <2>2 DEF Throws, mobileReportError
    <3> QED  BY <2>1, <2>2, <3>1 DEF GoodPage, PageFields, LeaseFor
  <2>3. CASE app # "mobile"
    BY <2>1, <2>3 DEF Throws
  <2> QED  BY <2>2, <2>3
<1>6. PagesInv'
  <2> DEFINE m == core'
  <2>1. GoodCore(m) /\ Grows(core, m)
    BY DEF Carries
  <2> HIDE DEF m
  <2>2. GoodPage(page', m) /\ \A j \in DOMAIN tasks : GoodTask(tasks[j], m, app)
    BY <1>1, <1>5, <2>1, GrownIsGood DEF PagesInv
  <2>3. \A j \in DOMAIN us : GoodTask(us[j], m, app)
    BY <1>2, <2>2
  <2> QED  BY <1>1, <1>2, <1>4, <2>1, <2>2, <2>3 DEF PagesInv, SpentMore, m
<1>7. OnceInv'
  <2> DEFINE n == spent.clicks
  <2>1. /\ core.applied \in Seq(Nat) /\ page.confirm \in Nat /\ n \in Nat /\ spent'.clicks = n
        /\ \A j \in DOMAIN tasks : Token(tasks[j]) \in Nat
    BY <1>1, TaskCalls DEF PagesInv, GoodCore, GoodPage, Kinds
  <2>2. OnceOf(tasks, core.applied, page.confirm, n)
    BY <1>1 DEF OnceInv
  <2>3. TokensFrom(h, us, tasks)
    BY <1>2, <1>3, <2>1 DEF TokensFrom
  <2>4. Token(tasks[i]) = Head(tasks[i].todo).confirm
    BY DEF InFlight, Token
  <2> HIDE DEF n, Token
  <2>5. OnceOf(us, core'.applied, page.confirm, n)
    <3>1. CASE core'.applied = core.applied
      BY <2>1, <2>2, <2>3, <3>1, OnceKept
    <3>2. CASE core'.applied # core.applied
      <4>1. Token(tasks[i]) # 0 /\ core'.applied = Append(core.applied, Token(tasks[i]))
        BY <2>4, <3>2 DEF Carries
      <4>2. OnceOf(us, Append(core.applied, Token(tasks[i])), page.confirm, n)
        BY <1>2, <2>1, <2>2, <2>3, <4>1, OnceCarried
      <4> QED  BY <4>1, <4>2
    <3> QED  BY <3>1, <3>2
  <2> QED  BY <1>4, <1>5, <2>1, <2>5 DEF OnceInv
<1>8. StreamInv'
  <2> DEFINE f == spent.failures
             g == spent'.failures
  <2>1. StreamOf(app, page, tasks, f)
    BY <1>1 DEF StreamInv
  <2> HIDE DEF f, g, HoldsStream, HasLoad
  <2>2. app = "mobile" => g > 0
    BY DEF g
  <2>3. StreamOf(app, page', us, g)
    <3>1. CASE app # "mobile" /\ (app = "control_room" \/ HoldsStream(page))
      BY <1>5, <3>1 DEF StreamOf
    <3>2. CASE app = "mobile"
      BY <2>2, <3>2 DEF StreamOf
    <3>3. CASE app \notin {"mobile", "control_room"} /\ ~ HoldsStream(page)
      BY <1>2, <1>5, <2>1, <3>3 DEF StreamOf
    <3> QED  BY <3>1, <3>2, <3>3
  <2> QED  BY <1>4, <2>3 DEF StreamInv, g
<1> QED  BY <1>6, <1>7, <1>8 DEF BrowserInv

\* A page's events, and what others do at the gateway.
LEMMA QuietKeeps ==
  ASSUME BrowserInv, UNCHANGED <<app, tasks>>, SpentMore, GoodPage(page', core), page'.confirm = page.confirm,
         page'.bound = page.bound, app = "control_room" \/ (HoldsStream(page) => HoldsStream(page')),
         GoodCore(core'), Grows(core, core'), core'.applied = core.applied
  PROVE  BrowserInv'
<1>1. PagesInv /\ OnceInv /\ StreamInv
  BY DEF BrowserInv
<1>2. PagesInv'
  <2> DEFINE m == core'
  <2>1. GoodCore(m) /\ Grows(core, m)
    OBVIOUS
  <2> HIDE DEF m
  <2>2. GoodPage(page', m) /\ \A j \in DOMAIN tasks : GoodTask(tasks[j], m, app)
    BY <1>1, <2>1, GrownIsGood DEF PagesInv
  <2> QED  BY <1>1, <2>1, <2>2 DEF PagesInv, SpentMore, m
<1>3. OnceInv'
  <2> DEFINE n == spent.clicks
             m == spent'.clicks
             h == [i \in DOMAIN tasks |-> i]
  <2>1. /\ core.applied \in Seq(Nat) /\ page.confirm \in Nat /\ n \in Nat /\ m \in Nat /\ n <= m
        /\ \A i \in DOMAIN tasks : Token(tasks[i]) \in Nat
    BY <1>1, TaskCalls DEF PagesInv, GoodCore, GoodPage, SpentMore, Kinds
  <2>2. OnceOf(tasks, core.applied, page.confirm, n)
    BY <1>1 DEF OnceInv
  <2> HIDE DEF n, m, Token
  <2>3. TokensFrom(h, tasks, tasks)
    BY <2>1 DEF TokensFrom
  <2> HIDE DEF h
  <2>4. OnceOf(tasks, core.applied, page.confirm, m)
    BY <2>1, <2>2, <2>3, OnceKept
  <2> QED  BY <2>4 DEF OnceInv, m
<1>4. StreamInv'
  <2> DEFINE f == spent.failures
             g == spent'.failures
  <2>1. StreamOf(app, page, tasks, f)
    BY <1>1 DEF StreamInv
  <2>2. f \in Nat /\ g \in Nat /\ f <= g
    BY DEF SpentMore, Kinds
  <2> HIDE DEF f, g, HoldsStream, HasLoad
  <2>3. StreamOf(app, page', tasks, g)
    BY <2>1, <2>2 DEF StreamOf
  <2> QED  BY <2>3 DEF StreamInv, g
<1> QED  BY <1>2, <1>3, <1>4 DEF BrowserInv

LEMMA AnswersKeeps ==
  ASSUME BrowserInv, NEW i \in DOMAIN tasks, GatewayAnswers(i)
  PROVE  BrowserInv'
<1> DEFINE c == Head(tasks[i].todo)
           a == AnswerTo(core', c)
           t == [tasks[i] EXCEPT !.answer = a]
           us == [tasks EXCEPT ![i] = t]
<1>1. PagesInv /\ OnceInv /\ StreamInv /\ IsSeq(tasks)
  BY DEF BrowserInv, PagesInv
<1>2. GoodCall(c, core, app) /\ DOMAIN tasks[i] = {"todo", "answer", "boots"} /\ GoodTask(tasks[i], core, app)
  BY <1>1, TaskCalls DEF PagesInv
<1>3. /\ core' = Effect(core, c) /\ tasks' = us /\ UNCHANGED <<app, page, spent>>
      /\ tasks[i].answer = NoAnswer
  BY DEF GatewayAnswers, InFlight
<1>4. /\ GoodCore(core') /\ Grows(core, core') /\ Carries(core', c) /\ GoodAnswer(a, c, core') /\ a # NoAnswer
  <2>1. GoodCore(core)
    BY <1>1 DEF PagesInv
  <2> HIDE DEF c
  <2> QED  BY <1>2, <1>3, <2>1, EffectIsGood DEF Carries
<1>5. t.todo = tasks[i].todo /\ t.answer = a /\ t.boots = tasks[i].boots /\ DOMAIN t = {"todo", "answer", "boots"}
  BY <1>2
<1> HIDE DEF a, t
<1>6. IsSeq(us) /\ DOMAIN us = DOMAIN tasks /\ \A j \in DOMAIN tasks : us[j] = IF j = i THEN t ELSE tasks[j]
  BY <1>1, ExceptIsSeq
<1> HIDE DEF us
<1>7. PagesInv'
  <2> DEFINE m == core'
  <2>1. GoodCore(m) /\ Grows(core, m) /\ GoodAnswer(a, c, m)
    BY <1>4
  <2> HIDE DEF m
  <2>2. GoodPage(page, m) /\ \A j \in DOMAIN tasks : GoodTask(tasks[j], m, app)
    BY <1>1, <2>1, GrownIsGood DEF PagesInv
  <2>3. GoodTask(t, m, app)
    <3>1. GoodTask(tasks[i], m, app)
      BY <2>2
    <3> QED  BY <1>5, <2>1, <3>1 DEF GoodTask
  <2>4. \A j \in DOMAIN us : GoodTask(us[j], m, app)
    BY <1>6, <2>2, <2>3
  <2> QED  BY <1>1, <1>3, <1>6, <2>1, <2>2, <2>4 DEF PagesInv, m
<1>8. OnceInv'
  <2> DEFINE n == spent.clicks
             h == [j \in DOMAIN tasks |-> j]
  <2>1. /\ core.applied \in Seq(Nat) /\ page.confirm \in Nat /\ n \in Nat
        /\ \A j \in DOMAIN tasks : Token(tasks[j]) \in Nat
    BY <1>1, TaskCalls DEF PagesInv, GoodCore, GoodPage, Kinds
  <2>2. OnceOf(tasks, core.applied, page.confirm, n)
    BY <1>1 DEF OnceInv
  <2>3. Token(t) = 0 /\ Token(tasks[i]) = c.confirm
    BY <1>3, <1>4, <1>5 DEF Token
  <2> HIDE DEF n, Token, c
  <2>4. TokensFrom(h, us, tasks) /\ \A j \in DOMAIN us : Token(us[j]) # 0 => h[j] # i
    BY <1>6, <2>1, <2>3 DEF TokensFrom
  <2> HIDE DEF h
  <2>5. OnceOf(us, core'.applied, page.confirm, n)
    <3>1. CASE core'.applied = core.applied
      BY <2>1, <2>2, <2>4, <3>1, OnceKept
    <3>2. CASE core'.applied # core.applied
      <4>1. Token(tasks[i]) # 0 /\ core'.applied = Append(core.applied, Token(tasks[i]))
        BY <1>4, <2>3, <3>2 DEF Carries
      <4>2. OnceOf(us, Append(core.applied, Token(tasks[i])), page.confirm, n)
        BY <2>1, <2>2, <2>4, <4>1, OnceCarried
      <4> QED  BY <4>1, <4>2
    <3> QED  BY <3>1, <3>2
  <2> QED  BY <1>3, <2>5 DEF OnceInv, n
<1>9. StreamInv'
  <2>1. \A j \in DOMAIN us : us[j].boots = tasks[j].boots /\ us[j].todo = tasks[j].todo
    BY <1>5, <1>6
  <2> DEFINE f == spent.failures
  <2>2. StreamOf(app, page, tasks, f)
    BY <1>1 DEF StreamInv
  <2> HIDE DEF f, HoldsStream, HasLoad
  <2>3. StreamOf(app, page, us, f)
    BY <1>6, <2>1, <2>2 DEF StreamOf
  <2> QED  BY <1>3, <2>3 DEF StreamInv, f
<1> QED  BY <1>7, <1>8, <1>9 DEF BrowserInv

LEMMA ResumesKeeps ==
  ASSUME BrowserInv, NEW i \in DOMAIN tasks, Resumes(i)
  PROVE  BrowserInv'
<1> DEFINE t == tasks[i]
           c == Head(t.todo)
           q == Answered(page, c, t.answer)
<1>1. PagesInv /\ OnceInv /\ StreamInv /\ IsSeq(tasks)
  BY DEF BrowserInv, PagesInv
<1>2. /\ GoodCall(c, core, app) /\ DOMAIN t = {"todo", "answer", "boots"} /\ GoodTask(t, core, app)
      /\ app \in {"control_room", "mobile", "workbench"} /\ GoodPage(page, core)
  BY <1>1, TaskCalls DEF PagesInv
<1>3. t.answer # NoAnswer
  BY DEF Resumes, InFlight
<1>4. GoodPage(q, core) /\ Stays(page, q) /\ (c.op = "load" => HoldsStream(q))
  <2>1. GoodAnswer(t.answer, c, core)
    BY <1>2, <1>3 DEF GoodTask
  <2> HIDE DEF c, t
  <2> QED  BY <1>2, <2>1, AnsweredIsGood
<1>5. PICK d \in Then(q, c) :
        LET todo == d.calls \o Tail(t.todo)
        IN  IF todo = <<>>
            THEN Ends(i, d.page)
            ELSE /\ tasks' = [tasks EXCEPT ![i].todo = Sent(d.page, todo), ![i].answer = NoAnswer]
                 /\ page' = d.page
  BY DEF Resumes
<1>6. UNCHANGED <<app, core, spent>>
  BY DEF Resumes
<1> DEFINE todo == d.calls \o Tail(t.todo)
<1>7. d.page = q /\ PlainCalls(d.calls, core, app)
  <2> HIDE DEF q, c
  <2> QED  BY <1>2, ThenIsGood
<1>8. PlainCalls(todo, core, app)
  <2>1. GoodCalls(t.todo, core, app) /\ t.todo # <<>>
    BY <1>2 DEF GoodTask
  <2> HIDE DEF t
  <2> QED  BY <1>7, <2>1, GoodAfterFirst
<1>9. HasLoad(t.todo) => c.op = "load" \/ HasLoad(todo)
  <2>1. IsSeq(t.todo) /\ t.todo # <<>> /\ IsSeq(d.calls)
    BY <1>2, <1>7 DEF GoodTask, GoodCalls, PlainCalls
  <2> HIDE DEF t
  <2>2. /\ IsSeq(Tail(t.todo)) /\ Len(t.todo) \in Nat \ {0} /\ DOMAIN t.todo = 1..Len(t.todo)
        /\ Len(Tail(t.todo)) = Len(t.todo) - 1 /\ Head(t.todo) = t.todo[1]
        /\ \A j \in 1..(Len(t.todo) - 1) : Tail(t.todo)[j] = t.todo[j + 1]
    BY <2>1, TailIsSeq
  <2> DEFINE s == Tail(t.todo)
             u == d.calls \o s
             x == Len(d.calls)
             n == Len(t.todo)
  <2>3. /\ x \in Nat /\ n \in Nat \ {0} /\ DOMAIN u = 1..(x + (n - 1))
        /\ \A j \in 1..(x + (n - 1)) : u[j] = IF j <= x THEN d.calls[j] ELSE s[j - x]
    <3>1. ASSUME NEW b, IsSeq(b), NEW e, IsSeq(e)
          PROVE  /\ Len(b) \in Nat /\ Len(e) \in Nat /\ DOMAIN (b \o e) = 1..(Len(b) + Len(e))
                 /\ \A j \in 1..(Len(b) + Len(e)) : (b \o e)[j] = IF j <= Len(b) THEN b[j] ELSE e[j - Len(b)]
      BY <3>1, ConcatIsSeq
    <3>2. IsSeq(d.calls) /\ IsSeq(s) /\ Len(s) = n - 1 /\ n \in Nat \ {0}
      BY <2>1, <2>2
    <3> HIDE DEF s, n, IsSeq
    <3> QED  BY <3>1, <3>2
  <2> SUFFICES ASSUME HasLoad(t.todo), c.op # "load" PROVE HasLoad(u)
    OBVIOUS
  <2>4. PICK j \in DOMAIN t.todo : t.todo[j].op = "load"
    BY DEF HasLoad
  <2>5. j \in 1..n /\ j # 1 /\ s[j - 1] = t.todo[j]
    <3>1. j \in 1..n /\ j # 1
      BY <2>2, <2>4
    <3>2. j - 1 \in 1..(n - 1) /\ (j - 1) + 1 = j
      BY <2>3, <3>1
    <3> QED  BY <2>2, <3>1, <3>2
  <2> HIDE DEF u, s, x, n
  <2>6. /\ x + (j - 1) \in 1..(x + (n - 1)) /\ ~(x + (j - 1) <= x) /\ (x + (j - 1)) - x = j - 1
    BY <2>3, <2>5
  <2>7. x + (j - 1) \in DOMAIN u /\ u[x + (j - 1)] = s[j - 1]
    BY <2>3, <2>6
  <2> QED  BY <2>4, <2>5, <2>7 DEF HasLoad
<1>10. Token(t) = 0
  BY <1>3 DEF Token
<1>11. /\ core.applied \in Seq(Nat) /\ page.confirm \in Nat /\ spent.clicks \in Nat
       /\ \A j \in DOMAIN tasks : Token(tasks[j]) \in Nat
  BY <1>1, TaskCalls DEF PagesInv, GoodCore, GoodPage, Kinds
<1>12. OnceOf(tasks, core.applied, page.confirm, spent.clicks) /\ StreamOf(app, page, tasks, spent.failures)
  BY <1>1 DEF OnceInv, StreamInv
<1>13. CASE todo = <<>>
  <2> DEFINE us == RemoveAt(tasks, i)
             h == [j \in DOMAIN us |-> IF j < i THEN j ELSE j + 1]
  <2>1. /\ tasks' = us
        /\ page' = IF t.boots THEN [q EXCEPT !.bound = TRUE] ELSE q
    BY <1>5, <1>7, <1>13 DEF Ends
  <2>2. /\ GoodPage(page', core) /\ page'.confirm = page.confirm /\ (HoldsStream(q) => HoldsStream(page'))
        /\ (~t.boots => page'.bound = page.bound)
    <3> DEFINE r == [q EXCEPT !.bound = TRUE]
    <3>1. GoodPage(r, core) /\ r.confirm = q.confirm /\ (HoldsStream(q) => HoldsStream(r))
      <4> HIDE DEF q
      <4> QED  BY <1>4 DEF GoodPage, PageFields, LeaseFor, HoldsStream
    <3> HIDE DEF r, q
    <3> QED  BY <1>4, <2>1, <3>1 DEF Stays, r
  <2>3. /\ IsSeq(us) /\ Len(tasks) \in Nat \ {0} /\ DOMAIN tasks = 1..Len(tasks) /\ DOMAIN us = 1..(Len(tasks) - 1)
        /\ \A j \in 1..(Len(tasks) - 1) : us[j] = tasks[IF j < i THEN j ELSE j + 1]
    BY <1>1, RemoveIsSeq
  <2>4. \A j \in DOMAIN us : h[j] \in DOMAIN tasks /\ us[j] = tasks[h[j]]
    <3> HIDE DEF us
    <3> QED  BY <2>3
  <2>5. \A j, l \in DOMAIN us : h[j] = h[l] => j = l
    <3> HIDE DEF us
    <3> QED  BY <2>3
  <2>6. \A j \in DOMAIN tasks : j # i => \E l \in DOMAIN us : us[l] = tasks[j]
    <3> HIDE DEF us
    <3> TAKE j \in DOMAIN tasks
    <3>1. CASE j < i
      <4>1. j \in DOMAIN us /\ us[j] = tasks[j]
        BY <2>3, <3>1
      <4> QED  BY <4>1
    <3>2. CASE j > i
      <4>1. j - 1 \in DOMAIN us /\ ~(j - 1 < i) /\ (j - 1) + 1 = j
        BY <2>3, <3>2
      <4>2. us[j - 1] = tasks[j]
        BY <2>3, <4>1
      <4> QED  BY <4>1, <4>2
    <3> QED  BY <2>3, <3>1, <3>2
  <2> HIDE DEF us, h, t, q
  <2>7. PagesInv'
    BY <1>1, <1>6, <2>1, <2>2, <2>3, <2>4 DEF PagesInv
  <2>8. OnceInv'
    <3> HIDE DEF Token
    <3>1. TokensFrom(h, us, tasks)
      BY <1>11, <2>4, <2>5 DEF TokensFrom
    <3>2. OnceOf(us, core.applied, page.confirm, spent.clicks)
      BY <1>11, <1>12, <3>1, OnceKept
    <3> QED  BY <1>6, <2>1, <2>2, <3>2 DEF OnceInv
  <2>9. StreamInv'
    <3>1. todo = <<>> => ~ HasLoad(todo)
      <4>1. ~ HasLoad(<<>>)
        <5>1. DOMAIN <<>> = {}
          OBVIOUS
        <5> QED  BY <5>1 DEF HasLoad
      <4> HIDE DEF todo, HasLoad
      <4> QED  BY <4>1
    <3> HIDE DEF todo, c, HoldsStream, HasLoad
    <3>2. StreamOf(app, page', us, spent.failures)
      <4>1. CASE app = "control_room" \/ (app = "mobile" /\ spent.failures > 0) \/ HoldsStream(page')
        BY <4>1 DEF StreamOf
      <4>2. CASE ~ (app = "control_room" \/ (app = "mobile" /\ spent.failures > 0) \/ HoldsStream(page'))
        <5>1. ~ HoldsStream(page) /\ c.op # "load"
          BY <1>4, <2>2, <4>2 DEF Stays
        <5>2. /\ \A j \in DOMAIN tasks : tasks[j].boots => HasLoad(tasks[j].todo)
              /\ app = "workbench" => ~page.bound
              /\ app = "mobile" => \E j \in DOMAIN tasks : tasks[j].boots
          BY <1>12, <4>2, <5>1 DEF StreamOf
        <5>3. ~ t.boots
          BY <1>9, <1>13, <3>1, <5>1, <5>2 DEF t
        <5>4. app = "mobile" => \E j \in DOMAIN us : us[j].boots
          BY <2>6, <5>2, <5>3 DEF t
        <5>5. \A j \in DOMAIN us : us[j].boots => HasLoad(us[j].todo)
          BY <2>4, <5>2
        <5> QED  BY <2>2, <5>2, <5>3, <5>4, <5>5 DEF StreamOf
      <4> QED  BY <4>1, <4>2
    <3> QED  BY <1>6, <2>1, <3>2 DEF StreamInv
  <2> QED  BY <2>7, <2>8, <2>9 DEF BrowserInv
<1>14. CASE todo # <<>>
  <2> DEFINE s == Sent(q, todo)
             r == [t EXCEPT !.todo = s, !.answer = NoAnswer]
             us == [tasks EXCEPT ![i] = r]
  <2>1. page' = q /\ tasks' = us
    BY <1>5, <1>7, <1>14
  <2>2. GoodCalls(s, core, app) /\ s # <<>> /\ Head(s).confirm = 0 /\ (HasLoad(todo) => HasLoad(s))
    <3> DEFINE w == todo
    <3>1. GoodCalls(w, core, app) /\ w # <<>> /\ Head(w).confirm = 0 /\ q.role \in Roles
      <4>1. IsSeq(w) /\ w # <<>>
        BY <1>8, <1>14 DEF PlainCalls, GoodCalls
      <4> HIDE DEF w
      <4>2. 1 \in DOMAIN w /\ Head(w) = w[1]
        BY <4>1, TailIsSeq
      <4>3. PlainCalls(w, core, app)
        BY <1>8 DEF w
      <4> HIDE DEF q
      <4> QED  BY <1>4, <4>1, <4>2, <4>3 DEF PlainCalls, GoodPage
    <3> HIDE DEF w, q
    <3>2. /\ GoodCalls(Sent(q, w), core, app) /\ Sent(q, w) # <<>> /\ Head(Sent(q, w)).confirm = Head(w).confirm
          /\ HasLoad(w) => HasLoad(Sent(q, w))
      BY <3>1, SentIsGood
    <3> QED  BY <3>1, <3>2 DEF w
  <2>3. r.todo = s /\ r.answer = NoAnswer /\ r.boots = t.boots /\ DOMAIN r = {"todo", "answer", "boots"}
    BY <1>2
  <2> HIDE DEF s, r
  <2>4. GoodTask(r, core, app) /\ Token(r) = 0
    BY <2>2, <2>3 DEF GoodTask, Token
  <2>5. IsSeq(us) /\ DOMAIN us = DOMAIN tasks /\ \A j \in DOMAIN tasks : us[j] = IF j = i THEN r ELSE tasks[j]
    BY <1>1, ExceptIsSeq
  <2> HIDE DEF us, t, q
  <2>6. PagesInv'
    <3>1. \A j \in DOMAIN us : GoodTask(us[j], core, app)
      BY <1>1, <2>4, <2>5 DEF PagesInv
    <3> QED  BY <1>1, <1>4, <1>6, <2>1, <2>5, <3>1 DEF PagesInv
  <2>7. OnceInv'
    <3> DEFINE h == [j \in DOMAIN tasks |-> j]
    <3> HIDE DEF Token
    <3>1. TokensFrom(h, us, tasks)
      BY <1>11, <2>4, <2>5 DEF TokensFrom
    <3> HIDE DEF h
    <3>2. OnceOf(us, core.applied, page.confirm, spent.clicks)
      BY <1>11, <1>12, <3>1, OnceKept
    <3> QED  BY <1>4, <1>6, <2>1, <3>2 DEF OnceInv, Stays
  <2>8. StreamInv'
    <3> HIDE DEF todo, c, HoldsStream, HasLoad
    <3>1. StreamOf(app, q, us, spent.failures)
      <4>1. CASE app = "control_room" \/ (app = "mobile" /\ spent.failures > 0) \/ HoldsStream(q)
        BY <4>1 DEF StreamOf
      <4>2. CASE ~ (app = "control_room" \/ (app = "mobile" /\ spent.failures > 0) \/ HoldsStream(q))
        <5>1. ~ HoldsStream(page) /\ c.op # "load" /\ q.bound = page.bound
          BY <1>4, <4>2 DEF Stays
        <5>2. /\ \A j \in DOMAIN tasks : tasks[j].boots => HasLoad(tasks[j].todo)
              /\ app = "workbench" => ~page.bound
              /\ app = "mobile" => \E j \in DOMAIN tasks : tasks[j].boots
          BY <1>12, <4>2, <5>1 DEF StreamOf
        <5>3. r.boots => HasLoad(r.todo)
          BY <1>9, <2>2, <2>3, <5>1, <5>2 DEF t
        <5>4. \A j \in DOMAIN us : us[j].boots = tasks[j].boots /\ (us[j].boots => HasLoad(us[j].todo))
          BY <2>3, <2>5, <5>2, <5>3 DEF t
        <5> QED  BY <2>5, <5>1, <5>2, <5>4 DEF StreamOf
      <4> QED  BY <4>1, <4>2
    <3> QED  BY <1>6, <2>1, <3>1 DEF StreamInv
  <2> QED  BY <2>6, <2>7, <2>8 DEF BrowserInv
<1> QED  BY <1>13, <1>14

LEMMA InitBrowserInv == ASSUME AppsInit PROVE BrowserInv
<1> DEFINE first == Task(page, <<load>>, TRUE)
<1>1. app \in {"control_room", "mobile", "workbench"} /\ page = [NewPage EXCEPT !.bound = app # "workbench"]
      /\ tasks = <<first>> /\ core \in {Empty, [Empty EXCEPT !.seeded = TRUE, !.runs = 1, !.events = 1]}
      /\ spent = [k \in Kinds |-> 0]
  BY AppsAreKnown DEF AppsInit
<1>2. GoodPage(page, core) /\ page.confirm = 0 /\ (app = "workbench" => ~page.bound)
  <2>1. NoText \in Texts
    BY DEF NoText, Texts
  <2>2. NewPage.stream = "none" /\ NewPage.confirm = 0 /\ NewPage.lease = 0 /\ NewPage.role = "user"
        /\ NewPage.projection = NoProjection /\ NewPage.file = NoFile /\ NewPage.original = NoText
        /\ NewPage.doc = NoText /\ DOMAIN NewPage = PageFields
    BY DEF NewPage, PageFields
  <2>3. /\ page.stream = "none" /\ page.confirm = 0 /\ page.lease = 0 /\ page.role = "user"
        /\ page.projection = NoProjection /\ page.file = NoFile /\ page.original = NoText
        /\ page.doc = NoText /\ DOMAIN page = PageFields /\ page.bound = (app # "workbench")
    BY <1>1, <2>2 DEF PageFields
  <2>4. GoodPage(page, core)
    BY <2>1, <2>3 DEF GoodPage, Roles
  <2>5. app = "workbench" => ~page.bound
    <3>1. page.bound = (app # "workbench")
      BY <2>3
    <3> QED  BY <3>1
  <2> QED  BY <2>3, <2>4, <2>5
<1>3. GoodCore(core) /\ core.applied = <<>>
  <2>1. Empty.disk \in [Files -> Texts]
    BY DEF Empty, Texts
  <2>2. <<>> \in Seq({}) /\ <<>> \in Seq(Nat) /\ DOMAIN <<>> = {}
    OBVIOUS
  <2>3. IsSeq(<<>>)
    BY <2>2, SeqIsSeq
  <2>4. /\ Empty.events = 0 /\ Empty.seeded \in BOOLEAN /\ Empty.runs = 0 /\ Empty.applied = <<>> /\ Empty.leases = <<>>
        /\ DOMAIN Empty = {"events", "seeded", "runs", "applied", "leases", "disk"}
    BY DEF Empty
  <2> DEFINE other == [Empty EXCEPT !.seeded = TRUE, !.runs = 1, !.events = 1]
  <2>5. /\ other.events = 1 /\ other.seeded \in BOOLEAN /\ other.runs = 1 /\ other.applied = <<>> /\ other.leases = <<>>
        /\ other.disk = Empty.disk /\ DOMAIN other = {"events", "seeded", "runs", "applied", "leases", "disk"}
    BY <2>4
  <2> HIDE DEF Empty, other
  <2>6. GoodCore(Empty) /\ GoodCore(other)
    <3> DEFINE nil == <<>>
    <3>1. nil \in Seq(Nat) /\ DOMAIN nil = {} /\ IsSeq(nil)
      BY <2>2, <2>3
    <3>2. Empty.applied = nil /\ Empty.leases = nil /\ other.applied = nil /\ other.leases = nil
      BY <2>4, <2>5
    <3> HIDE DEF nil
    <3> QED  BY <2>1, <2>4, <2>5, <3>1, <3>2 DEF GoodCore
  <2> QED  BY <1>1, <2>4, <2>5, <2>6 DEF other
<1>4. /\ GoodTask(first, core, app) /\ first.boots = TRUE /\ Token(first) = 0 /\ HasLoad(first.todo)
  <2> DEFINE s == Sent(page, <<load>>)
  <2>1. GoodCall(load, core, app) /\ load.confirm = 0 /\ load.op = "load"
    BY FetchIsGood DEF load
  <2> HIDE DEF load
  <2>2. GoodCalls(<<load>>, core, app) /\ <<load>> # <<>> /\ Head(<<load>>) = load /\ DOMAIN <<load>> = {1} /\ <<load>>[1] = load
    <3>1. GoodCalls(<<load>>, core, app)
      BY <2>1, ShortLists
    <3>2. <<load>> # <<>> /\ Head(<<load>>) = load /\ DOMAIN <<load>> = {1} /\ <<load>>[1] = load
      OBVIOUS
    <3> QED  BY <3>1, <3>2
  <2>3. HasLoad(<<load>>)
    BY <2>1, <2>2 DEF HasLoad
  <2>4. page.role \in Roles
    BY <1>2 DEF GoodPage
  <2> DEFINE w == <<load>>
  <2> HIDE DEF w
  <2>5. GoodCalls(w, core, app) /\ w # <<>> /\ HasLoad(w) /\ Head(w) = load
    BY <2>2, <2>3 DEF w
  <2>6. GoodCalls(Sent(page, w), core, app) /\ Sent(page, w) # <<>> /\ Head(Sent(page, w)).confirm = Head(w).confirm
        /\ HasLoad(Sent(page, w))
    BY <2>4, <2>5, SentIsGood
  <2>7. GoodCalls(s, core, app) /\ s # <<>> /\ Head(s).confirm = 0 /\ HasLoad(s)
    BY <2>1, <2>5, <2>6 DEF w
  <2>8. first.todo = s /\ first.answer = NoAnswer /\ first.boots = TRUE /\ DOMAIN first = {"todo", "answer", "boots"}
    BY DEF Task
  <2> HIDE DEF s, first
  <2> QED  BY <2>7, <2>8 DEF GoodTask, Token
<1> HIDE DEF first
<1>5. IsSeq(tasks) /\ DOMAIN tasks = {1} /\ tasks[1] = first
  <2>1. <<first>> \in Seq({first}) /\ DOMAIN <<first>> = {1} /\ <<first>>[1] = first
    OBVIOUS
  <2> QED  BY <1>1, <2>1, SeqIsSeq
<1>6. spent = [k \in Kinds |-> spent[k]] /\ (\A k \in Kinds : spent[k] \in Nat) /\ spent.clicks = 0
  BY <1>1 DEF Kinds
<1>7. PagesInv
  BY <1>1, <1>2, <1>3, <1>4, <1>5, <1>6 DEF PagesInv
<1>8. OnceInv
  <2>1. IsInjective(<<>>) /\ DOMAIN <<>> = {}
    BY DEF IsInjective
  <2> QED  BY <1>2, <1>3, <1>4, <1>5, <1>6, <2>1 DEF OnceInv, OnceOf
<1>9. StreamInv
  <2> HIDE DEF HasLoad
  <2> QED  BY <1>2, <1>4, <1>5 DEF StreamInv, StreamOf
<1> QED  BY <1>7, <1>8, <1>9 DEF BrowserInv

\* The steps in which a function starts.
LEMMA StartingKeeps ==
  ASSUME BrowserInv,
         FrameArrives \/ ReloadFires \/ RedrawFires \/ GoesOnline \/ ClicksControlRoom \/ ClicksMobile \/ ClicksWorkbench
  PROVE  BrowserInv'
<1>1. PagesInv /\ GoodPage(page, core)
  BY DEF BrowserInv, PagesInv
<1>2. ASSUME NEW q, NEW s, s \in {<<>>, <<load>>}, GoodPage(q, core), q.confirm = page.confirm, q.bound = page.bound,
             HoldsStream(page) => HoldsStream(q), Starts(Does(q, s)), UNCHANGED <<app, core, spent>>
      PROVE  BrowserInv'
  <2> DEFINE d == Does(q, s)
  <2>1. PlainCalls(s, core, app)
    BY <1>2, ClickCalls
  <2>2. GoodStart(d, page, core, app, spent'.clicks)
    BY <1>2, <2>1, PlainStart
  <2>3. d.page = q
    BY DEF Does
  <2>4. SpentMore
    BY <1>1, <1>2, NothingSpent
  <2>5. Starts(d) /\ UNCHANGED <<app, core>>
    BY <1>2
  <2> HIDE DEF d, Starts
  <2> QED  BY <1>2, <2>2, <2>3, <2>4, <2>5, StartsKeeps
<1>3. ASSUME NEW d, Starts(d), UsersTurn, GoodStart(d, page, core, app, spent'.clicks) PROVE BrowserInv'
  <2>1. SpentMore /\ spent'.clicks = spent.clicks + 1
    BY <1>1, <1>3, HappensSpends DEF UsersTurn, Kinds
  <2>2. UNCHANGED <<app, core>>
    BY <1>3 DEF UsersTurn
  <2> HIDE DEF Starts
  <2> QED  BY <1>3, <2>1, <2>2, StartsKeeps
<1>4. CASE FrameArrives
  <2> DEFINE p == [page EXCEPT !.frames = @ - 1]
  <2>1. GoodPage(p, core) /\ p.confirm = page.confirm /\ p.bound = page.bound /\ HoldsStream(p) = HoldsStream(page)
    BY <1>1 DEF GoodPage, PageFields, LeaseFor, HoldsStream
  <2> HIDE DEF p
  <2> DEFINE drawn == [p EXCEPT !.redraw = TRUE]
             fresh == [p EXCEPT !.connection = "connected"]
  <2>2. /\ GoodPage(drawn, core) /\ drawn.confirm = p.confirm /\ drawn.bound = p.bound /\ HoldsStream(drawn) = HoldsStream(p)
        /\ GoodPage(fresh, core) /\ fresh.confirm = p.confirm /\ fresh.bound = p.bound /\ fresh.stream = p.stream
    BY <2>1 DEF GoodPage, PageFields, LeaseFor, HoldsStream
  <2>3. page.stream = "open" /\ p.stream = page.stream /\ UNCHANGED <<app, core, spent>>
        /\ (Starts(Does(drawn, <<>>)) \/ Starts(Does(fresh, <<load>>)))
    <3>1. page.stream = "open" /\ UNCHANGED <<app, core, spent>>
          /\ (Starts(Does(drawn, <<>>)) \/ Starts(Does(fresh, <<load>>)))
      BY <1>4 DEF FrameArrives, controlRoomEvent, mobileEvent, workbenchEvent, p
    <3>2. p.stream = page.stream
      BY <1>1 DEF GoodPage, PageFields, p
    <3> QED  BY <3>1, <3>2
  <2>4. HoldsStream(fresh)
    BY <2>2, <2>3 DEF HoldsStream
  <2> HIDE DEF drawn, fresh, Starts, Does
  <2> QED  BY <1>2, <2>1, <2>2, <2>3, <2>4
<1>5. CASE ReloadFires \/ RedrawFires \/ GoesOnline
  <2> DEFINE sooner == [page EXCEPT !.reloads = @ - 1]
             drawn == [page EXCEPT !.redraw = FALSE]
             online == [page EXCEPT !.online = TRUE]
  <2>1. \A q \in {sooner, drawn, online} :
          GoodPage(q, core) /\ q.confirm = page.confirm /\ q.bound = page.bound /\ HoldsStream(q) = HoldsStream(page)
    BY <1>1 DEF GoodPage, PageFields, LeaseFor, HoldsStream
  <2>2. \E q \in {sooner, drawn, online} : Starts(Does(q, <<load>>)) /\ UNCHANGED <<app, core, spent>>
    BY <1>5 DEF ReloadFires, RedrawFires, GoesOnline
  <2> HIDE DEF sooner, drawn, online, Starts, Does
  <2> QED  BY <1>2, <2>1, <2>2
<1>6. CASE ClicksControlRoom
  <2>1. PICK offer \in controlRoomOffers(page) : UsersTurn /\ Starts(controlRoomClick(page, offer))
    BY <1>6 DEF ClicksControlRoom
  <2> HIDE DEF Starts, UsersTurn
  <2> QED  BY <1>1, <1>3, <2>1, ControlRoomClickIsGood
<1>7. CASE ClicksMobile
  <2>1. PICK offer \in mobileOffers(page) : UsersTurn /\ Starts(mobileClick(page, offer, spent'.clicks))
    BY <1>7 DEF ClicksMobile
  <2>2. spent'.clicks \in Nat
    BY <1>1, <2>1, HappensSpends DEF UsersTurn, Kinds, SpentMore
  <2> HIDE DEF Starts, UsersTurn
  <2> QED  BY <1>1, <1>3, <2>1, <2>2, MobileClickIsGood
<1>8. CASE ClicksWorkbench
  <2>1. app = "workbench" /\ UsersTurn
        /\ \/ \E offer \in workbenchOffers(page) : Starts(workbenchClick(page, offer))
           \/ \E f \in Files : Starts(openFile(page, f))
    BY <1>8 DEF ClicksWorkbench
  <2> HIDE DEF Starts, UsersTurn
  <2> QED  BY <1>1, <1>3, <2>1, WorkbenchClickIsGood, OpenFileIsGood
<1> QED  BY <1>4, <1>5, <1>6, <1>7, <1>8

\* The steps that only the page, or only the gateway, makes.
LEMMA QuietStepsKeep ==
  ASSUME BrowserInv, StreamOpens \/ StreamBreaks \/ UserTypes \/ GoesOffline \/ OthersWrite \/ LeaseExpires
  PROVE  BrowserInv'
<1>1. PagesInv /\ GoodPage(page, core) /\ GoodCore(core) /\ app \in {"control_room", "mobile", "workbench"}
  BY DEF BrowserInv, PagesInv
<1>2. Grows(core, core)
  BY DEF Grows
<1>3. ASSUME UNCHANGED <<app, tasks, core>>, SpentMore, GoodPage(page', core), page'.confirm = page.confirm,
             page'.bound = page.bound, app = "control_room" \/ (HoldsStream(page) => HoldsStream(page'))
      PROVE  BrowserInv'
  BY <1>1, <1>2, <1>3, QuietKeeps
<1>4. CASE StreamOpens
  <2>1. /\ page.stream = "connecting" /\ UNCHANGED <<app, tasks, core, spent>>
        /\ page' = [page EXCEPT !.stream = "open", !.frames = core.events - page.after]
    BY <1>4 DEF StreamOpens
  <2>2. GoodPage(page', core) /\ page'.confirm = page.confirm /\ page'.bound = page.bound /\ HoldsStream(page')
    BY <1>1, <2>1 DEF GoodPage, PageFields, LeaseFor, HoldsStream
  <2> QED  BY <1>1, <1>3, <2>1, <2>2, NothingSpent
<1>5. CASE StreamBreaks
  <2>1. UNCHANGED <<app, tasks, core>> /\ SpentMore
    BY <1>1, <1>5, HappensSpends DEF StreamBreaks, Kinds
  <2> DEFINE shut == [page EXCEPT !.stream = "none", !.frames = 0, !.reloads = @ + 1]
             told == [shut EXCEPT !.connection = "reconnecting"]
  <2>2. GoodPage(shut, core) /\ shut.confirm = page.confirm /\ shut.bound = page.bound
    BY <1>1 DEF GoodPage, PageFields, LeaseFor
  <2>3. page' = IF app = "control_room" THEN shut ELSE told
    BY <1>1, <1>5 DEF StreamBreaks, controlRoomOnerror, mobileOnerror, workbenchOnerror, GivesUp
  <2> HIDE DEF shut
  <2>4. GoodPage(told, core) /\ told.confirm = shut.confirm /\ told.bound = shut.bound /\ HoldsStream(told)
    BY <2>2 DEF GoodPage, PageFields, LeaseFor, HoldsStream
  <2> HIDE DEF told
  <2> QED  BY <1>3, <2>1, <2>2, <2>3, <2>4
<1>6. CASE UserTypes
  <2>1. UNCHANGED <<app, tasks, core>> /\ SpentMore /\ spent'.edits \in Nat
    BY <1>1, <1>6, HappensSpends DEF UserTypes, Kinds, SpentMore
  <2>2. page' = [page EXCEPT !.doc = <<page.file, spent'.edits>>,
                             !.dirty = <<page.file, spent'.edits>> # page.original]
    BY <1>6 DEF UserTypes, Types
  <2>3. <<page.file, spent'.edits>> \in Texts
    BY <1>1, <2>1 DEF Texts, GoodPage
  <2>4. GoodPage(page', core) /\ page'.confirm = page.confirm /\ page'.bound = page.bound /\ HoldsStream(page') = HoldsStream(page)
    BY <1>1, <2>2, <2>3 DEF GoodPage, PageFields, LeaseFor, HoldsStream
  <2> QED  BY <1>3, <2>1, <2>4
<1>7. CASE GoesOffline
  <2>1. UNCHANGED <<app, tasks, core>> /\ SpentMore /\ page' = [page EXCEPT !.online = FALSE]
    BY <1>1, <1>7, HappensSpends DEF GoesOffline, UsersTurn, Kinds
  <2>2. GoodPage(page', core) /\ page'.confirm = page.confirm /\ page'.bound = page.bound /\ HoldsStream(page') = HoldsStream(page)
    BY <1>1, <2>1 DEF GoodPage, PageFields, LeaseFor, HoldsStream
  <2> QED  BY <1>3, <2>1, <2>2
<1>8. CASE OthersWrite
  <2>1. UNCHANGED <<app, page, tasks>> /\ SpentMore /\ core' = [core EXCEPT !.events = @ + 1]
    BY <1>1, <1>8, HappensSpends DEF OthersWrite, Kinds
  <2> DEFINE m == [core EXCEPT !.events = @ + 1]
  <2>2. m.events \in Nat /\ m.leases = core.leases /\ m.applied = core.applied /\ m.seeded = core.seeded
        /\ m.runs = core.runs /\ m.disk = core.disk /\ DOMAIN m = DOMAIN core
    BY <1>1 DEF GoodCore
  <2> HIDE DEF m
  <2>3. GoodCore(m) /\ Grows(core, m)
    BY <1>1, <2>2 DEF GoodCore, Grows
  <2>4. core' = m
    BY <2>1 DEF m
  <2> QED  BY <1>1, <2>1, <2>2, <2>3, <2>4, QuietKeeps
<1>9. CASE LeaseExpires
  <2>1. UNCHANGED <<app, page, tasks>> /\ SpentMore
    BY <1>1, <1>9, HappensSpends DEF LeaseExpires, Kinds
  <2>2. PICK l \in DOMAIN core.leases : core' = [core EXCEPT !.leases[l].state = "expired"]
    BY <1>9 DEF LeaseExpires
  <2> DEFINE new == [core.leases[l] EXCEPT !.state = "expired"]
             leases == [core.leases EXCEPT ![l] = new]
             m == [core EXCEPT !.leases = leases]
  <2>3. new.file = core.leases[l].file /\ DOMAIN new = {"file", "state"}
    <3>1. DOMAIN core.leases[l] = {"file", "state"}
      BY <1>1 DEF GoodCore
    <3> QED  BY <3>1
  <2>4. core' = m
    BY <2>2
  <2> HIDE DEF new
  <2>5. IsSeq(leases) /\ DOMAIN leases = DOMAIN core.leases
        /\ \A j \in DOMAIN core.leases : leases[j] = IF j = l THEN new ELSE core.leases[j]
    <3>1. IsSeq(core.leases)
      BY <1>1 DEF GoodCore
    <3> QED  BY <3>1, ExceptIsSeq
  <2> HIDE DEF leases
  <2>6. m.leases = leases /\ m.applied = core.applied /\ m.seeded = core.seeded /\ m.events = core.events
        /\ m.runs = core.runs /\ m.disk = core.disk /\ DOMAIN m = DOMAIN core
    BY <1>1 DEF GoodCore
  <2> HIDE DEF m
  <2>7. \A j \in DOMAIN leases : DOMAIN leases[j] = {"file", "state"} /\ leases[j].file = core.leases[j].file
    BY <1>1, <2>3, <2>5 DEF GoodCore
  <2>8. GoodCore(m) /\ Grows(core, m)
    BY <1>1, <2>5, <2>6, <2>7 DEF GoodCore, Grows
  <2> QED  BY <1>1, <2>1, <2>4, <2>6, <2>8, QuietKeeps
<1> QED  BY <1>4, <1>5, <1>6, <1>7, <1>8, <1>9

\* A function is told no, or told nothing.
LEMMA LosingKeeps ==
  ASSUME BrowserInv, NEW i \in DOMAIN tasks, GatewayRefuses(i) \/ CallIsLost(i)
  PROVE  BrowserInv'
<1> DEFINE c == Head(tasks[i].todo)
<1>1. PagesInv /\ GoodCore(core) /\ GoodCall(c, core, app)
  BY TaskCalls DEF BrowserInv, PagesInv
<1>2. Carries(core, c)
  BY <1>1 DEF Carries, Grows
<1>3. CASE GatewayRefuses(i)
  <2>1. InFlight(i) /\ Throws(i) /\ UNCHANGED <<app, core, spent>> /\ Refuses(core, c)
    BY <1>3 DEF GatewayRefuses
  <2>2. app # "mobile"
    BY <1>1, <2>1 DEF Refuses, GoodCall
  <2> HIDE DEF c, InFlight, Throws
  <2>3. SpentMore /\ spent'.clicks = spent.clicks /\ Carries(core', c) /\ app' = app
    BY <1>1, <1>2, <2>1, NothingSpent
  <2> QED  BY <2>1, <2>2, <2>3, ThrowsKeeps DEF c
<1>4. CASE CallIsLost(i)
  <2>1. InFlight(i) /\ Throws(i) /\ app' = app /\ Happens("failures") /\ core' \in {core, Effect(core, c)}
    BY <1>4 DEF CallIsLost
  <2>2. SpentMore /\ spent'.failures = spent.failures + 1 /\ spent'.clicks = spent.clicks
    BY <1>1, <2>1, HappensSpends DEF Kinds, Happens, PagesInv
  <2>3. spent'.failures > 0
    BY <2>2 DEF SpentMore, Kinds
  <2>4. Carries(core', c)
    <3>1. Carries(Effect(core, c), c)
      <4> HIDE DEF c
      <4> QED  BY <1>1, EffectIsGood DEF Carries
    <3> QED  BY <1>2, <2>1, <3>1
  <2> HIDE DEF InFlight, Throws
  <2> QED  BY <2>1, <2>2, <2>3, <2>4, ThrowsKeeps
<1> QED  BY <1>3, <1>4

LEMMA NextBrowserInv == ASSUME BrowserInv, [AppsNext]_appVars PROVE BrowserInv'
<1>1. CASE \E i \in DOMAIN tasks : GatewayAnswers(i) \/ GatewayRefuses(i) \/ Resumes(i) \/ CallIsLost(i)
  BY <1>1, AnswersKeeps, ResumesKeeps, LosingKeeps
<1>2. CASE UNCHANGED appVars
  BY <1>2 DEF appVars, BrowserInv, PagesInv, OnceInv, StreamInv
<1> QED  BY <1>1, <1>2, StartingKeeps, QuietStepsKeep DEF AppsNext, Works

LEMMA BrowserIsKept == AppsSpec => []BrowserInv
<1>1. AppsInit => BrowserInv
  BY InitBrowserInv
<1>2. BrowserInv /\ [AppsNext]_appVars => BrowserInv'
  BY NextBrowserInv
<1> QED  BY <1>1, <1>2, PTL DEF AppsSpec

-----------------------------------------------------------------------------
(* Theorems. *)

\* Whatever broke before, a page that is loaded and lets its user command holds a stream, opened or opening:
\* the workbench always, the phone until a call of its fails (onerror, connectionState, reportError).  It
\* says nothing of what arrives on a stream that is open.
THEOREM UnlockedPagesHoldAStream == AppsSpec => []LockedWithoutStream
<1>1. BrowserInv => LockedWithoutStream
  <2> SUFFICES ASSUME BrowserInv, app # "control_room", ~ (app = "mobile" /\ spent.failures > 0), page.bound,
                      \A i \in DOMAIN tasks : ~ tasks[i].boots, canExecute(page)
               PROVE  page.stream # "none"
    BY DEF LockedWithoutStream
  <2>1. app \in {"control_room", "mobile", "workbench"} /\ StreamOf(app, page, tasks, spent.failures)
    BY DEF BrowserInv, PagesInv, StreamInv
  <2>2. HoldsStream(page)
    BY <2>1 DEF StreamOf
  <2>3. page.connection # "reconnecting"
    BY DEF canExecute, connectionState
  <2> QED  BY <2>2, <2>3 DEF HoldsStream
<1> QED  BY <1>1, BrowserIsKept, PTL

\* However often the sheet's button is pressed, and whatever is lost on the way, what a user confirmed is
\* carried out at most once (handleClick, closeConfirm).
THEOREM ConfirmationsActOnce == AppsSpec => []ConfirmedOnce
<1>1. BrowserInv => ConfirmedOnce
  BY DEF BrowserInv, OnceInv, OnceOf, ConfirmedOnce
<1> QED  BY <1>1, BrowserIsKept, PTL

\* Whichever files are opened meanwhile, and whichever answers overtake each other, the workbench saves to
\* the file its lease was given for (openFile, saveFile).
THEOREM SavesFitTheirLease == AppsSpec => []WritesFitTheirLease
<1>1. BrowserInv => WritesFitTheirLease
  BY TaskCalls DEF BrowserInv, WritesFitTheirLease, GoodCall, LeaseFor
<1> QED  BY <1>1, BrowserIsKept, PTL
=============================================================================
