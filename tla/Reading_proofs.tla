----------------------------- MODULE Reading_proofs -----------------------------
(***************************************************************************)
(* Proofs about the parts a client reads the portal with.                  *)
(*                                                                         *)
(* Protocols, for every number of retries: a call that is not idempotent   *)
(* is carried out at most once and a guarded one only when mutations are   *)
(* allowed, a call that returns was carried out, and no declaration,       *)
(* shipped or not, sends a field twice or loses one.                       *)
(*                                                                         *)
(* Paging, for every number of tasks, every calendar and week length:      *)
(* nothing is skipped, and without overlap everything is in order.         *)
(*                                                                         *)
(* Watchers, for every set of identities and contents and lists of any     *)
(* length: an event tells what happened to its item, for the cache and the *)
(* snapshot never lose one another.                                        *)
(*                                                                         *)
(* Bell, for every day and lead: the bells ring in order, none early, none *)
(* left out, and the three questions are answered alike.                   *)
(*                                                                         *)
(* Caches, for every number of concurrent downloads, every ttl and however *)
(* long it goes on: what a cache hit serves is fresh.                      *)
(*                                                                         *)
(* The last theorems hold of all the parts together, as the run has them.  *)
(***************************************************************************)
EXTENDS MCReading, TLAPS, FiniteSetTheorems, FunctionTheorems, SequenceTheorems

(* Protocols: what a declaration makes of its fields, and one call. *)

\* Whatever fields a declaration d names where, none of the fields given goes to two parts
\* of the request and none that was not given goes out (rest.py:113-150).
THEOREM RestRoutesOnce ==
  ASSUME NEW d, NEW g
  PROVE  LET r == RestRoute(d, g)
         IN  /\ (r.path \cap g) \cap r.query = {} /\ (r.path \cap g) \cap r.body = {}
             /\ r.query \cap r.body = {}
             /\ r.query \cup r.body \subseteq g
BY DEF RestRoute

-------------------------------------------------------------------------------
Idempotent == IsIdempotent(method)

\* Up to the last attempt of a call that is not idempotent nothing was sent.
SentByPhase ==
  /\ sends \in Nat /\ changed \in Nat /\ changed <= sends
  /\ phase \in {"idle", "build"} => sends = 0
  /\ phase = "wire" /\ ~Idempotent => sends = 0
  /\ phase = "wait" => Idempotent
  /\ ~Idempotent => sends <= 1
  /\ phase \notin {"idle", "done"} /\ name \in Guarded => allow
  /\ name \in Guarded /\ ~allow => sends = 0

\* What the outcome of a call says of its answer.
OutcomeByAnswer ==
  /\ phase # "done" => outcome = "none"
  /\ phase = "decode" /\ answer = "answer" => changed >= 1
  /\ ValueIsAnswer

CallInv == SentByPhase /\ OutcomeByAnswer

LEMMA ValueNeedsAnswer ==
  ASSUME NEW d, NEW r, Decode(d, r) = "value"
  PROVE  \/ r = "answer" \/ d.returns \in {"bytes", "html"}
         \/ r = "odd" /\ TakesAny(d)
         \/ r \in Objects /\ d.proto = "rest" /\ d.returns = "lenient"
BY DEF Decode, RestDecode, RpcDecode

LEMMA CallPreserves ==
  ASSUME CallInv, NEW m, NEW d, NEW g, NEW v, Call(m, d, g, v)
  PROVE  CallInv'
<1>1. /\ phase = "idle" /\ name' = m /\ method' = d
      /\ sends' = sends /\ changed' = changed /\ answer' = answer
  BY DEF Call
<1>2. allow' = allow
  BY DEF Call
<1>3. sends = 0 /\ changed = 0 /\ outcome = "none"
  BY <1>1 DEF CallInv, SentByPhase, OutcomeByAnswer
<1>4. \/ phase' = "done" /\ outcome' \in {"not bound", "mutations disabled", "report format"}
      \/ phase' = "build" /\ outcome' = "none" /\ (m \in Guarded => allow)
  BY <1>1, <1>3 DEF Call, Finish
<1>5. SentByPhase'
  <2>1. sends' = 0 /\ changed' = 0
    BY <1>1, <1>3
  <2>2. sends' \in Nat /\ changed' \in Nat /\ changed' <= sends'
    BY <2>1
  <2>3. phase' \notin {"idle", "done"} /\ name' \in Guarded => allow'
    BY <1>1, <1>2, <1>4
  <2>4. phase' = "wait" => Idempotent'
    BY <1>4
  <2>5. ~Idempotent' => sends' <= 1
    BY <2>1
  <2> QED
    BY <2>1, <2>2, <2>3, <2>4, <2>5 DEF SentByPhase
<1>6. OutcomeByAnswer'
  BY <1>1, <1>3, <1>4 DEF OutcomeByAnswer, ValueIsAnswer
<1> QED
  BY <1>5, <1>6 DEF CallInv

LEMMA AttemptPreserves == CallInv /\ Attempt => CallInv'
<1> SUFFICES ASSUME CallInv, Attempt PROVE CallInv'
  OBVIOUS
<1>1. /\ phase = "wire" /\ sends' = sends + 1 /\ outcome = "none"
      /\ UNCHANGED <<method, name, allow>>
  BY DEF Attempt, CallInv, OutcomeByAnswer
<1>2. /\ sends \in Nat /\ changed \in Nat /\ changed <= sends
      /\ name \in Guarded => allow
      /\ ~Idempotent => sends = 0
  BY <1>1 DEF CallInv, SentByPhase
<1>3. Idempotent' = Idempotent
  BY <1>1 DEF Idempotent, IsIdempotent
<1>4. /\ changed' \in {changed, changed + 1}
      /\ \/ phase' = "decode" /\ (answer' = "answer" => changed' = changed + 1)
            /\ outcome' = outcome
         \/ phase' = "wait" /\ Idempotent /\ outcome' = outcome
         \/ phase' = "done" /\ outcome' = "http error"
  BY DEF Attempt, Finish, Idempotent
<1>5. SentByPhase'
  <2>1. sends' \in Nat /\ changed' \in Nat /\ changed' <= sends'
    <3>1. sends \in Nat /\ changed \in Nat /\ changed <= sends /\ sends' = sends + 1
      BY <1>1, <1>2
    <3>2. changed' = changed \/ changed' = changed + 1
      BY <1>4
    <3> QED
      BY <3>1, <3>2
  <2>2. phase' \notin {"idle", "build", "wire"} /\ (phase' = "wait" => Idempotent')
    BY <1>3, <1>4
  <2>3. ~Idempotent' => sends' <= 1
    BY <1>1, <1>2, <1>3
  <2>4. name' \in Guarded => allow'
    BY <1>1, <1>2
  <2> QED
    BY <2>1, <2>2, <2>3, <2>4 DEF SentByPhase
<1>6. OutcomeByAnswer'
  <2>1. phase' # "done" => outcome' = "none"
    BY <1>1, <1>4
  <2>2. phase' = "decode" /\ answer' = "answer" => changed' >= 1
    BY <1>2, <1>4
  <2>3. outcome' # "value"
    BY <1>1, <1>4
  <2> QED
    BY <2>1, <2>2, <2>3 DEF OutcomeByAnswer, ValueIsAnswer
<1> QED
  BY <1>5, <1>6 DEF CallInv

LEMMA CallInvPreserved == CallInv /\ [CallsNext]_callVars => CallInv'
<1> SUFFICES ASSUME CallInv, [CallsNext]_callVars PROVE CallInv'
  OBVIOUS
<1>1. ASSUME UNCHANGED method PROVE Idempotent' = Idempotent
  BY <1>1 DEF Idempotent, IsIdempotent
<1>2. CASE ShellRead
  BY <1>2, <1>1 DEF ShellRead, CallInv, SentByPhase, OutcomeByAnswer, ValueIsAnswer
<1>3. CASE \E m \in DOMAIN Shipped, v \in {"client", "emit", "naked"} :
             \E g \in {Shipped[m].fields, Shipped[m].fields \ Optional} : Call(m, Shipped[m], g, v)
  BY <1>3, CallPreserves
<1>4. CASE \E d \in Own : \E g \in SUBSET d.fields : Call("own", d, g, "client")
  BY <1>4, CallPreserves
<1>5. CASE Build
  <2>1. /\ phase = "build" /\ phase' \in {"done", "wire"} /\ outcome' # "value"
        /\ phase' = "wire" => outcome' = "none"
        /\ UNCHANGED <<method, name, sends, answer, allow, changed>>
    BY <1>5 DEF Build, Finish, CallInv, OutcomeByAnswer
  <2> QED
    BY <2>1, <1>1 DEF CallInv, SentByPhase, OutcomeByAnswer, ValueIsAnswer
<1>6. CASE Attempt
  BY <1>6, AttemptPreserves
<1>7. CASE Retry
  BY <1>7, <1>1 DEF Retry, CallInv, SentByPhase, OutcomeByAnswer, ValueIsAnswer
<1>8. CASE Decoded
  <2>1. /\ phase = "decode" /\ phase' = "done" /\ outcome' = Decode(method, answer)
        /\ UNCHANGED <<method, name, sends, answer, allow, changed>>
    BY <1>8 DEF Decoded, Finish
  <2>2. SentByPhase'
    BY <2>1, <1>1 DEF CallInv, SentByPhase
  <2>3. OutcomeByAnswer'
    BY <2>1, ValueNeedsAnswer DEF CallInv, OutcomeByAnswer, ValueIsAnswer
  <2> QED
    BY <2>2, <2>3 DEF CallInv
<1>9. CASE UNCHANGED callVars
  BY <1>9, <1>1 DEF callVars, CallInv, SentByPhase, OutcomeByAnswer, ValueIsAnswer
<1> QED
  BY <1>2, <1>3, <1>4, <1>5, <1>6, <1>7, <1>8, <1>9 DEF CallsNext

LEMMA CallInvHolds == CallsSpec => []CallInv
<1>1. CallsInit => CallInv
  BY DEF CallsInit, CallInv, SentByPhase, OutcomeByAnswer, ValueIsAnswer, Guarded
<1> QED
  BY <1>1, CallInvPreserved, PTL DEF CallsSpec

\* A call that returns a value was carried out by the portal and answered with it, unless
\* its method hands on what it gets or its result accepts every object.
THEOREM ValuesAreAnswers == CallsSpec => []ValueIsAnswer
BY CallInvHolds, PTL DEF CallInv, OutcomeByAnswer

\* A call that is_idempotent() denies goes out once at most, and so is carried out once at
\* most, for any number of retries; a guarded one does not go out while mutations are off
\* (journal.py:86, retry.py:67).
THEOREM ChangesAreSentOnce ==
  CallsSpec => [](/\ ~IsIdempotent(method) => sends <= 1 /\ changed <= 1
                  /\ name \in Guarded /\ ~allow => sends = 0)
<1>1. CallInv => /\ ~IsIdempotent(method) => sends <= 1 /\ changed <= 1
                 /\ name \in Guarded /\ ~allow => sends = 0
  BY DEF CallInv, SentByPhase, Idempotent
<1> QED
  BY <1>1, CallInvHolds, PTL

-------------------------------------------------------------------------------
(* The declarations. *)

LEMMA ShippedIsDeclared ==
  ASSUME NEW m \in DOMAIN Shipped
  PROVE  \E t \in Tables : m \in DOMAIN t /\ Shipped[m] = t[m]
<1>1. \E t \in Tables : m \in DOMAIN t
  BY DEF Shipped
<1>2. Shipped[m] = (CHOOSE t \in Tables : m \in DOMAIN t)[m]
  BY DEF Shipped
<1>3. PICK u : u = CHOOSE t \in Tables : m \in DOMAIN t
  OBVIOUS
<1>4. u \in Tables /\ m \in DOMAIN u
  BY <1>1, <1>3
<1> QED
  BY <1>2, <1>3, <1>4

LEMMA TablesAre ==
  ASSUME NEW t \in Tables
  PROVE  \/ t = Diary \/ t = Schedule \/ t = Portal \/ t = Eje \/ t = Printed \/ t = Qr
         \/ t = Reports \/ t = Scheduler \/ t = Journal \/ t = Services \/ t = Orm
BY DEF Tables

\* The methods that change something, and none of them is idempotent.
LEMMA MutationsAre ==
  ASSUME NEW m \in Mutations
  PROVE  m \in DOMAIN Shipped /\ ~IsIdempotent(Shipped[m])
<1>1. m \in {"SaveJournal", "DeleteJournal", "GenerateQr", "ConfirmQr"}
  BY DEF Mutations, Guarded
<1>2. m \in DOMAIN Shipped
  <2>1. m \in DOMAIN Journal \/ m \in DOMAIN Qr
    BY <1>1 DEF Journal, Qr
  <2>2. Journal \in Tables /\ Qr \in Tables
    BY DEF Tables
  <2>3. QED BY <2>1, <2>2 DEF Shipped
<1>3. PICK t \in Tables : m \in DOMAIN t /\ Shipped[m] = t[m]
  BY <1>2, ShippedIsDeclared
<1>4. CASE m \in {"SaveJournal", "DeleteJournal"}
  <2>1. t = Journal
    BY <1>3, <1>4, TablesAre DEF Diary, Schedule, Portal, Eje, Printed, Qr, Reports, Scheduler,
                                 Services, Orm
  <2>2. Shipped[m].proto = "ext" /\ Shipped[m].verb \in {"save", "delete"}
    BY <1>3, <1>4, <2>1 DEF Journal, Ext, Rpc
  <2>3. QED BY <1>2, <2>2 DEF IsIdempotent
<1>5. CASE m \in {"GenerateQr", "ConfirmQr"}
  <2>1. t = Qr
    BY <1>3, <1>5, TablesAre DEF Diary, Schedule, Portal, Eje, Printed, Journal, Reports, Scheduler,
                                 Services, Orm
  <2>2. Shipped[m].proto = "rest" /\ Shipped[m].verb = "POST"
    BY <1>3, <1>5, <2>1 DEF Qr, Rest
  <2>3. QED BY <1>2, <2>2 DEF IsIdempotent
<1>6. QED BY <1>1, <1>2, <1>4, <1>5

-------------------------------------------------------------------------------
\* A declaration whose request takes every field that is given, with_dates excepted.
Sends(d, g) ==
  LET r == Route(d, g)
  IN  g \ (r.path \cup r.query \cup r.body) \subseteq {"with_dates"}

Complete(d) ==
  /\ d.proto \in {"rest", "ext", "x1"} /\ IsFiniteSet(d.fields)
  /\ \A g \in SUBSET d.fields : Sends(d, g)

LEMMA SmallSets ==
  /\ IsFiniteSet({})
  /\ \A a : IsFiniteSet({a})
  /\ \A a, b : IsFiniteSet({a, b})
  /\ \A a, b, c : IsFiniteSet({a, b, c})
<1>1. IsFiniteSet({}) /\ \A a : IsFiniteSet({a})
  BY FS_EmptySet, FS_Singleton
<1>2. ASSUME NEW a, NEW b PROVE IsFiniteSet({a, b})
  <2>1. IsFiniteSet({a}) /\ IsFiniteSet({b})
    BY <1>1
  <2>2. IsFiniteSet({a} \cup {b}) /\ {a} \cup {b} = {a, b}
    BY <2>1, FS_Union
  <2>3. QED BY <2>2
<1>3. ASSUME NEW a, NEW b, NEW c PROVE IsFiniteSet({a, b, c})
  <2>1. IsFiniteSet({a, b}) /\ IsFiniteSet({c})
    BY <1>1, <1>2
  <2>2. IsFiniteSet({a, b} \cup {c})
    BY <2>1, FS_Union
  <2>3. {a, b} \cup {c} = {a, b, c}
    OBVIOUS
  <2>4. QED BY <2>2, <2>3
<1>4. QED BY <1>1, <1>2, <1>3

LEMMA GetIsComplete ==
  ASSUME NEW p, NEW n, NEW r, IsFiniteSet(p), IsFiniteSet(n)
  PROVE  Complete(Get(p, n, r))
<1> DEFINE d == Get(p, n, r)
<1>1. /\ d.proto = "rest" /\ d.verb = "GET" /\ d.path = p /\ d.query = {n} /\ d.body = {}
      /\ d.fields = p \cup n
  BY DEF Get, Rest
<1>2. IsFiniteSet(d.fields)
  <2>1. IsFiniteSet(p \cup n)
    BY FS_Union
  <2>2. QED BY <1>1, <2>1
<1> HIDE DEF d
<1>3. ASSUME NEW g \in SUBSET d.fields PROVE Sends(d, g)
  <2>1. UNION d.query = n
    BY <1>1
  <2>2. Route(d, g).path = p /\ Route(d, g).query = (g \ p) \cap n
    BY <1>1, <2>1 DEF Route, RestRoute
  <2>3. QED BY <1>1, <2>2 DEF Sends
<1>4. QED BY <1>1, <1>2, <1>3 DEF Complete, d

LEMMA GetAllIsComplete ==
  ASSUME NEW p, NEW o, NEW r, IsFiniteSet(p), IsFiniteSet(o)
  PROVE  Complete(GetAll(p, o, r))
<1> DEFINE d == GetAll(p, o, r)
<1>1. /\ d.proto = "rest" /\ d.verb = "GET" /\ d.path = p /\ d.query = {} /\ d.body = {}
      /\ d.fields = p \cup o
  BY DEF GetAll, Rest
<1>2. IsFiniteSet(d.fields)
  BY <1>1, FS_Union
<1> HIDE DEF d
<1>3. ASSUME NEW g \in SUBSET d.fields PROVE Sends(d, g)
  <2>1. Route(d, g).path = p /\ Route(d, g).query = g \ p
    BY <1>1 DEF Route, RestRoute, Bodyless
  <2>2. QED BY <1>1, <2>1 DEF Sends
<1>4. QED BY <1>1, <1>2, <1>3 DEF Complete, d

LEMMA ExtIsComplete ==
  ASSUME NEW v, NEW a, NEW r, IsFiniteSet(a)
  PROVE  Complete(Ext(v, a, r))
<1> DEFINE d == Ext(v, a, r)
<1>1. d.proto = "ext" /\ d.body = {a} /\ d.fields = a
  BY DEF Ext, Rpc
<1> HIDE DEF d
<1>2. ASSUME NEW g \in SUBSET d.fields PROVE Sends(d, g)
  <2>1. UNION d.body = a
    BY <1>1
  <2>2. Route(d, g).body = g
    BY <1>1, <2>1 DEF Route, NoRequest
  <2>3. QED BY <2>2 DEF Sends
<1>3. QED BY <1>1, <1>2 DEF Complete, d

LEMMA X1IsComplete ==
  ASSUME NEW v, NEW a, IsFiniteSet(a)
  PROVE  Complete(X1(v, a))
<1> DEFINE d == X1(v, a)
<1>1. d.proto = "x1" /\ d.fields = a
  BY DEF X1, Rpc
<1> HIDE DEF d
<1>2. ASSUME NEW g \in SUBSET d.fields PROVE Sends(d, g)
  <2>1. Route(d, g).body = g \cup {"model"}
    BY <1>1 DEF Route, NoRequest
  <2>2. QED BY <2>1 DEF Sends
<1>3. QED BY <1>1, <1>2 DEF Complete, d

\* The three declarations of other forms.
LEMMA OthersAreComplete ==
  /\ Complete(Rest("GET", {"participant_guid"}, {{"withDates"}}, {}, {"with_dates"}, "model"))
  /\ Complete(Rest("POST", {}, {}, {}, {}, "model"))
  /\ Complete(Rest("POST", {}, {}, {{"code"}}, {"code"}, "lenient"))
<1>1. Complete(Rest("GET", {"participant_guid"}, {{"withDates"}}, {}, {"with_dates"}, "model"))
  <2> DEFINE d == Rest("GET", {"participant_guid"}, {{"withDates"}}, {}, {"with_dates"}, "model")
  <2>1. /\ d.proto = "rest" /\ d.path = {"participant_guid"}
        /\ d.fields = {"participant_guid", "with_dates"} /\ IsFiniteSet(d.fields)
    <3>1. {"participant_guid"} \cup {"with_dates"} = {"participant_guid", "with_dates"}
      OBVIOUS
    <3>2. /\ d.proto = "rest" /\ d.path = {"participant_guid"}
          /\ d.fields = {"participant_guid"} \cup {"with_dates"}
      BY DEF Rest
    <3>3. IsFiniteSet({"participant_guid", "with_dates"})
      BY SmallSets
    <3> HIDE DEF d
    <3>4. QED BY <3>1, <3>2, <3>3
  <2> HIDE DEF d
  <2>2. ASSUME NEW g \in SUBSET d.fields PROVE Sends(d, g)
    <3>1. Route(d, g).path = {"participant_guid"}
      BY <2>1 DEF Route, RestRoute
    <3>2. QED BY <2>1, <3>1 DEF Sends
  <2>3. QED BY <2>1, <2>2 DEF Complete, d
<1>2. Complete(Rest("POST", {}, {}, {}, {}, "model"))
  <2> DEFINE d == Rest("POST", {}, {}, {}, {}, "model")
  <2>1. d.proto = "rest" /\ d.fields = {}
    BY DEF Rest
  <2> HIDE DEF d
  <2>2. \A g \in SUBSET d.fields : Sends(d, g)
    BY <2>1 DEF Sends
  <2>3. QED BY <2>1, <2>2, SmallSets DEF Complete, d
<1>3. Complete(Rest("POST", {}, {}, {{"code"}}, {"code"}, "lenient"))
  <2> DEFINE d == Rest("POST", {}, {}, {{"code"}}, {"code"}, "lenient")
  <2>1. /\ d.proto = "rest" /\ d.fields = {"code"} /\ d.verb = "POST" /\ d.path = {}
        /\ d.query = {} /\ d.body = {{"code"}} /\ IsFiniteSet(d.fields)
    BY SmallSets DEF Rest
  <2> HIDE DEF d
  <2>2. ASSUME NEW g \in SUBSET d.fields PROVE Sends(d, g)
    <3>1. UNION d.body = {"code"}
      BY <2>1
    <3>2. Route(d, g).body = g
      BY <2>1, <3>1 DEF Route, RestRoute, Bodyless
    <3>3. QED BY <3>2 DEF Sends
  <2>3. QED BY <2>1, <2>2 DEF Complete, d
<1>4. QED BY <1>1, <1>2, <1>3

\* Every shipped class sends whatever it is given.
LEMMA ShippedIsComplete ==
  ASSUME NEW m \in DOMAIN Shipped
  PROVE  Complete(Shipped[m])
<1>1. PICK t \in Tables : m \in DOMAIN t /\ Shipped[m] = t[m]
  BY ShippedIsDeclared
<1>2. CASE t = Diary
  <2>1. t[m] \in {Get({"participant_guid"}, {"date"}, "model"),
                  Get({"participant_guid"}, {"date", "format"}, "bytes"),
                  Rest("GET", {"participant_guid"}, {{"withDates"}}, {}, {"with_dates"}, "model")}
    BY <1>1, <1>2 DEF Diary
  <2>2. QED BY <1>1, <2>1, GetIsComplete, OthersAreComplete, SmallSets
<1>3. CASE t = Schedule
  <2>1. t[m] \in {Get({"grade_guid", "date_str"}, {"single"}, "model"), GetAll({}, {}, "model")}
    BY <1>1, <1>3 DEF Schedule
  <2>2. QED BY <1>1, <2>1, GetIsComplete, GetAllIsComplete, SmallSets
<1>4. CASE t = Portal
  <2>1. t[m] \in {GetAll({}, {}, "html"), GetAll({"uuid"}, {}, "bytes"), Get({}, {"value"}, "model"),
                  GetAll({}, {}, "lenient")}
    BY <1>1, <1>4 DEF Portal
  <2>2. QED BY <1>1, <2>1, GetIsComplete, GetAllIsComplete, SmallSets
<1>5. CASE t = Eje
  <2>1. t[m] = GetAll({}, {}, "lenient")
    BY <1>1, <1>5 DEF Eje
  <2>2. QED BY <1>1, <2>1, GetAllIsComplete, SmallSets
<1>6. CASE t = Printed
  <2>1. t[m] \in {GetAll({"base", "tail"}, {"params", "format"}, "bytes"),
                  GetAll({"base", "tail"}, {"params"}, "html")}
    BY <1>1, <1>6 DEF Printed
  <2>2. QED BY <1>1, <2>1, GetAllIsComplete, SmallSets
<1>7. CASE t = Qr
  <2>1. t[m] \in {Rest("POST", {}, {}, {}, {}, "model"),
                  Rest("POST", {}, {}, {{"code"}}, {"code"}, "lenient")}
    BY <1>1, <1>7 DEF Qr
  <2>2. QED BY <1>1, <2>1, OthersAreComplete
<1>8. CASE t = Reports
  <2>1. t[m] \in {Ext("show", {}, "model"), Ext("get", {}, "model")}
    BY <1>1, <1>8 DEF Reports
  <2>2. QED BY <1>1, <2>1, ExtIsComplete, SmallSets
<1>9. CASE t = Scheduler
  <2>1. t[m] = Ext("get", {}, "model")
    BY <1>1, <1>9 DEF Scheduler
  <2>2. QED BY <1>1, <2>1, ExtIsComplete, SmallSets
<1>10. CASE t = Journal
  <2>1. t[m] \in {Ext("read", {"grades"}, "model"), Ext("get", {"journal_guid"}, "model"),
                  Ext("save", {"journal_guid", "state", "rows"}, "model"),
                  Ext("delete", {"journal_guid"}, "none")}
    BY <1>1, <1>10 DEF Journal
  <2>2. QED BY <1>1, <2>1, ExtIsComplete, SmallSets
<1>11. CASE t = Services
  <2>1. t[m] \in {Ext("read", {"grades"}, "lenient"), Ext("read", {"part"}, "lenient"),
                  Ext("get", {"start", "end", "type"}, "model")}
    BY <1>1, <1>11 DEF Services
  <2>2. QED BY <1>1, <2>1, ExtIsComplete, SmallSets
<1>12. CASE t = Orm
  <2>1. t[m] \in {X1("select", {"model", "where", "limit"}), X1("get", {"model", "guid"}),
                  X1("select", {"where", "limit"})}
    BY <1>1, <1>12 DEF Orm
  <2>2. QED BY <1>1, <2>1, X1IsComplete, SmallSets
<1>13. QED
  BY <1>2, <1>3, <1>4, <1>5, <1>6, <1>7, <1>8, <1>9, <1>10, <1>11, <1>12, TablesAre

-------------------------------------------------------------------------------
(* What a call sends. *)

\* Where a call stands, its method is the declared one, and what it sends is what the
\* protocol makes of the fields given.
SentAsDeclared ==
  /\ \/ name \in DOMAIN Shipped /\ method = Shipped[name]
     \/ name = "own" /\ method \in Own
     \/ phase = "idle"
  /\ given \subseteq method.fields
  /\ phase \in {"wire", "wait", "decode"} =>
       /\ request = Route(method, given)
       /\ method.proto = "rest" => method.path \subseteq given

LEMMA OwnIs ==
  ASSUME NEW d \in Own
  PROVE  d.proto = "rest" /\ IsFiniteSet(d.fields)
<1>1. PICK p, v, q, b : p \in SUBSET {"f", "g"} /\ d = Rest(v, p, q, b, {"f", "g"}, "model")
  BY DEF Own
<1>2. d.proto = "rest" /\ d.fields = p \cup {"f", "g"}
  BY <1>1 DEF Rest
<1>3. p \cup {"f", "g"} = {"f", "g"}
  BY <1>1
<1>4. IsFiniteSet({"f", "g"})
  BY SmallSets
<1>5. QED BY <1>2, <1>3, <1>4

LEMMA RouteCounts ==
  ASSUME NEW d, d.proto \in {"rest", "ext", "x1"}, NEW g, IsFiniteSet(g),
         d.proto = "rest" => d.path \subseteq g
  PROVE  LET r == Route(d, g)
             all == r.path \cup r.query \cup r.body
         IN  /\ Cardinality(all) = Cardinality(r.path) + Cardinality(r.query) + Cardinality(r.body)
             /\ all \subseteq g \cup {"model"}
<1> DEFINE r == Route(d, g)
           ps == r.path
           qs == r.query
           bs == r.body
<1>1. IsFiniteSet(g \cup {"model"})
  BY FS_Union, FS_Singleton
<1>2. /\ ps \cap qs = {} /\ ps \cap bs = {} /\ qs \cap bs = {}
      /\ ps \subseteq g \cup {"model"} /\ qs \subseteq g \cup {"model"} /\ bs \subseteq g \cup {"model"}
  <2>1. CASE d.proto = "rest"
    <3>1. r = RestRoute(d, g)
      BY <2>1 DEF Route
    <3>2. r.path = d.path
      BY <3>1 DEF RestRoute
    <3>3. r.query \cap d.path = {} /\ r.query \subseteq g
      BY <3>1 DEF RestRoute
    <3>4. r.body \cap d.path = {} /\ r.body \subseteq g /\ r.query \cap r.body = {}
      BY <3>1 DEF RestRoute
    <3>5. QED BY <2>1, <3>2, <3>3, <3>4
  <2>2. CASE d.proto = "ext"
    <3>1. r = [NoRequest EXCEPT !.body = g \cap UNION d.body]
      BY <2>2 DEF Route
    <3>2. QED BY <3>1 DEF NoRequest
  <2>3. CASE d.proto = "x1"
    <3>1. r = [NoRequest EXCEPT !.body = g \cup {"model"}]
      BY <2>3 DEF Route
    <3>2. QED BY <3>1 DEF NoRequest
  <2>4. QED BY <2>1, <2>2, <2>3
<1> HIDE DEF r, ps, qs, bs
<1>3. IsFiniteSet(ps) /\ IsFiniteSet(qs) /\ IsFiniteSet(bs)
  BY <1>1, <1>2, FS_Subset
<1>4. PICK x, y, z \in Nat : x = Cardinality(ps) /\ y = Cardinality(qs) /\ z = Cardinality(bs)
  BY <1>3, FS_CardinalityType
<1>5. IsFiniteSet(ps \cup qs) /\ Cardinality(ps \cup qs) = x + y
  <2>1. /\ IsFiniteSet(ps \cup qs)
        /\ Cardinality(ps \cup qs) = Cardinality(ps) + Cardinality(qs) - Cardinality(ps \cap qs)
    BY <1>3, FS_Union
  <2>2. Cardinality(ps \cap qs) = 0
    BY <1>2, FS_EmptySet
  <2>3. QED BY <1>4, <2>1, <2>2
<1>6. Cardinality((ps \cup qs) \cup bs) = x + y + z
  <2>1. Cardinality((ps \cup qs) \cup bs)
          = Cardinality(ps \cup qs) + Cardinality(bs) - Cardinality((ps \cup qs) \cap bs)
    BY <1>3, <1>5, FS_Union
  <2>2. (ps \cup qs) \cap bs = {}
    BY <1>2
  <2>3. Cardinality((ps \cup qs) \cap bs) = 0
    BY <2>2, FS_EmptySet
  <2>4. QED BY <1>4, <1>5, <2>1, <2>3
<1>7. QED
  BY <1>2, <1>4, <1>6 DEF r, ps, qs, bs

LEMMA SentAsDeclaredPreserved ==
  ASSUME SentAsDeclared, [CallsNext]_callVars
  PROVE  SentAsDeclared'
<1>1. ASSUME NEW m, NEW d, NEW g, NEW v, Call(m, d, g, v), g \subseteq d.fields,
             (m \in DOMAIN Shipped /\ d = Shipped[m]) \/ (m = "own" /\ d \in Own)
      PROVE  SentAsDeclared'
  <2>1. /\ name' = m /\ method' = d /\ given' = g /\ phase' \in {"done", "build"}
    BY <1>1 DEF Call, Finish
  <2>2. QED BY <1>1, <2>1 DEF SentAsDeclared
<1>2. CASE \E m \in DOMAIN Shipped, v \in {"client", "emit", "naked"} :
             \E g \in {Shipped[m].fields, Shipped[m].fields \ Optional} : Call(m, Shipped[m], g, v)
  BY <1>1, <1>2
<1>3. CASE \E d \in Own : \E g \in SUBSET d.fields : Call("own", d, g, "client")
  BY <1>1, <1>3
<1>4. CASE ShellRead
  BY <1>4 DEF ShellRead, SentAsDeclared
<1>5. CASE Build
  <2>1. /\ UNCHANGED <<method, name, given>> /\ phase = "build"
        /\ \/ phase' = "done"
           \/ /\ phase' = "wire" /\ request' = Route(method, given)
              /\ method.proto = "rest" => method.path \subseteq given
    BY <1>5 DEF Build, Finish
  <2>2. PICK d, g : d = method /\ g = given /\ d = method' /\ g = given'
    BY <2>1
  <2>3. Route(d, g)' = Route(d, g)
    BY DEF Route, RestRoute
  <2>4. QED
    BY <2>1, <2>2, <2>3 DEF SentAsDeclared
<1>6. CASE Attempt \/ Retry \/ Decoded \/ UNCHANGED callVars
  <2>1. /\ UNCHANGED <<method, name, given, request>>
        /\ \/ phase' = phase
           \/ phase \in {"wire", "wait", "decode"} /\ phase' # "idle"
    BY <1>6 DEF Attempt, Retry, Decoded, Finish, callVars
  <2>2. PICK d, g : d = method /\ g = given /\ d = method' /\ g = given'
    BY <2>1
  <2>3. Route(d, g)' = Route(d, g)
    BY DEF Route, RestRoute
  <2>4. QED
    BY <2>1, <2>2, <2>3 DEF SentAsDeclared
<1>7. QED
  BY <1>2, <1>3, <1>4, <1>5, <1>6 DEF CallsNext

LEMMA SentAsDeclaredHolds == CallsSpec => []SentAsDeclared
<1>1. CallsInit => SentAsDeclared
  BY DEF CallsInit, SentAsDeclared
<1> QED
  BY <1>1, SentAsDeclaredPreserved, PTL DEF CallsSpec

\* Whatever a call is given, no field goes out in two places and none that was not given;
\* a shipped class sends all it is given but with_dates (rest.py:113-150, rpc.py, x1.py).
THEOREM FieldsAreSentOnce == CallsSpec => []SentOnce
<1>1. SentAsDeclared => SentOnce
  <2> SUFFICES ASSUME SentAsDeclared, phase \in {"wire", "wait", "decode"}
               PROVE  LET all == request.path \cup request.query \cup request.body
                      IN  /\ Cardinality(all) = Cardinality(request.path)
                                + Cardinality(request.query) + Cardinality(request.body)
                          /\ all \subseteq given \cup {"model"}
                          /\ name # "own" => given \ all \subseteq {"with_dates"}
    BY DEF SentOnce
  <2>1. /\ request = Route(method, given) /\ given \subseteq method.fields
        /\ method.proto = "rest" => method.path \subseteq given
        /\ (name \in DOMAIN Shipped /\ method = Shipped[name]) \/ (name = "own" /\ method \in Own)
    BY DEF SentAsDeclared
  <2>2. /\ method.proto \in {"rest", "ext", "x1"} /\ IsFiniteSet(method.fields)
        /\ name # "own" => Sends(method, given)
    BY <2>1, OwnIs, ShippedIsComplete DEF Complete
  <2>3. IsFiniteSet(given)
    BY <2>1, <2>2, FS_Subset
  <2>4. LET r == Route(method, given)
            all == r.path \cup r.query \cup r.body
        IN  /\ Cardinality(all) = Cardinality(r.path) + Cardinality(r.query) + Cardinality(r.body)
            /\ all \subseteq given \cup {"model"}
    BY <2>1, <2>2, <2>3, RouteCounts
  <2>5. QED
    BY <2>1, <2>2, <2>4 DEF Sends
<1> QED
  BY <1>1, SentAsDeclaredHolds, PTL

\* The portal carries out what is not a mere read once at most, for any number of retries,
\* and what is guarded not at all while mutations are off (journal.py:3, retry.py:67).
THEOREM ChangesAreMadeOnce == CallsSpec => []ChangesOnce
<1>1. SentAsDeclared /\ CallInv => ChangesOnce
  <2> SUFFICES ASSUME SentAsDeclared, CallInv, name \in Mutations
               PROVE  changed <= 1 /\ sends <= 1
    BY DEF ChangesOnce, CallInv, SentByPhase
  <2>1. name # "own"
    BY DEF Mutations, Guarded
  <2>2. CASE phase = "idle"
    BY <2>2 DEF CallInv, SentByPhase
  <2>3. CASE method = Shipped[name]
    BY <2>3, MutationsAre DEF CallInv, SentByPhase, Idempotent
  <2>4. QED BY <2>1, <2>2, <2>3 DEF SentAsDeclared
<1> QED
  BY <1>1, SentAsDeclaredHolds, CallInvHolds, PTL

-------------------------------------------------------------------------------
(* Caches: one entry, its downloads and crashes. *)

\* A timestamp is never later than what it dates, as long as no clock was set back.
StampIsOld == skew = 0 /\ stamp >= 0 =>
                stamp <= time /\ (bin # NoFile => stamp <= bin.stored_at)

\* While no two downloads were under way at one time, what the entry holds, and what is on
\* its way, is not older than any answer it has held.
NothingOvertaken ==
  ~racing =>
    /\ \A l, m \in Loaders : loads[l] # Unused /\ loads[m] # Unused => l = m
    /\ \A l \in Loaders : loads[l] >= 0 => loads[l] >= newest
    /\ bin # NoFile => bin.given_at >= newest

\* The types that the argument needs.
EntryOK ==
  /\ ttl \in Nat /\ time \in Nat /\ skew \in {0, 1} /\ newest \in 0 .. time
  /\ bin \in Blob \cup {NoFile} /\ (bin # NoFile => bin.stored_at <= time)
  /\ stamp \in Int /\ (stamp < 0 => stamp \in {Missing, Garbled, -1})
  /\ loads \in [Loaders -> Int]
  /\ \A l \in Loaders : loads[l] \in {Unused, Asked} \cup 0 .. time

CacheInv == EntryOK /\ StampIsOld /\ NothingOvertaken /\ ServedIsFresh

\* A hit serves what is there, and nothing else changes.
LEMMA HitIsFresh ==
  ASSUME CacheInv, Live,
         served' = [stored_at |-> bin.stored_at, age |-> time - bin.stored_at,
                    dated |-> stamp # Missing, behind |-> bin.given_at < newest],
         UNCHANGED <<ttl, skew, racing>>
  PROVE  ServedIsFresh'
<1>1. bin # NoFile /\ bin \in Blob /\ ttl' = ttl /\ skew' = skew /\ racing' = racing
  BY DEF CacheInv, EntryOK, Live
<1>2. served'.age = time - bin.stored_at /\ (served'.dated <=> stamp # Missing)
      /\ (served'.behind <=> bin.given_at < newest)
  OBVIOUS
<1>3. bin.stored_at \in Nat /\ bin.given_at \in Nat /\ time \in Nat /\ stamp \in Int
      /\ newest \in Nat /\ ttl \in Nat
  BY <1>1 DEF CacheInv, EntryOK, Blob
<1>4. ASSUME ttl > 0, skew = 0, stamp # Missing PROVE time - bin.stored_at <= ttl
  <2>1. time - stamp <= ttl
    BY <1>1, <1>3, <1>4 DEF Live, Wall
  <2>2. stamp <= bin.stored_at
    BY <1>1, <1>3, <1>4 DEF CacheInv, EntryOK, StampIsOld, Missing, Garbled, Live
  <2> QED
    BY <1>3, <2>1, <2>2
<1>5. ~racing => ~(bin.given_at < newest)
  BY <1>1, <1>3 DEF CacheInv, NothingOvertaken
<1> QED
  BY <1>1, <1>2, <1>4, <1>5 DEF ServedIsFresh

LEMMA DownloadPreserves ==
  ASSUME CacheInv, NEW l \in Loaders, NEW bypass \in BOOLEAN, Download(l, bypass)
  PROVE  CacheInv'
<1>1. loads[l] = Unused /\ ttl' = ttl /\ time' = time /\ skew' = skew /\ newest' = newest
  BY DEF Download
<1>2. CASE Live /\ ~bypass
  <2>1. bin' = bin /\ stamp' = stamp /\ loads' = loads /\ racing' = racing
    BY <1>2 DEF Download
  <2>2. ServedIsFresh'
    BY <1>1, <1>2, <2>1, HitIsFresh DEF Download
  <2> QED
    BY <1>1, <2>1, <2>2 DEF CacheInv, EntryOK, StampIsOld, NothingOvertaken
<1>3. CASE ~(Live /\ ~bypass)
  <2>1. /\ loads' = [loads EXCEPT ![l] = Asked] /\ served' = served
    BY <1>3 DEF Download
  <2>2. ~racing' => ~racing /\ \A m \in Loaders : loads[m] = Unused
    BY <1>3 DEF Download
  <2>3. (bin' = NoFile /\ stamp' = Missing) \/ (bin' = bin /\ stamp' = stamp)
    BY <1>3 DEF Download
  <2>4. EntryOK'
    BY <1>1, <2>1, <2>3 DEF CacheInv, EntryOK, Asked, Missing
  <2>5. StampIsOld'
    BY <1>1, <2>3 DEF CacheInv, StampIsOld, Missing
  <2>6. NothingOvertaken'
    BY <1>1, <2>1, <2>2, <2>3 DEF CacheInv, EntryOK, NothingOvertaken, Asked, Unused
  <2>7. ServedIsFresh'
    BY <1>1, <2>1, <2>2 DEF CacheInv, ServedIsFresh
  <2> QED
    BY <2>4, <2>5, <2>6, <2>7 DEF CacheInv
<1> QED
  BY <1>2, <1>3

\* What put() leaves behind, whether it ends or breaks off.
LEMMA StoredPreserves ==
  ASSUME CacheInv, NEW l \in Loaders, loads[l] >= 0,
         bin' = Data(l), stamp' \in {stamp, Garbled, Wall}, newest' = Newer(l),
         Gone \/ loads' = [loads EXCEPT ![l] = Unused],
         UNCHANGED <<ttl, time, skew, served, racing>>
  PROVE  CacheInv'
<1>1. /\ loads[l] \in 0 .. time /\ time \in Nat /\ newest \in Nat /\ newest <= time
      /\ stamp \in Int /\ skew \in {0, 1} /\ loads \in [Loaders -> Int]
  BY DEF CacheInv, EntryOK, Unused, Asked
<1>2. ttl' = ttl /\ time' = time /\ skew' = skew /\ served' = served /\ racing' = racing
  OBVIOUS
<1>3. bin' \in Blob /\ bin'.stored_at = time /\ bin'.given_at = loads[l]
  BY <1>1 DEF Data, Blob
<1>4. newest' \in 0 .. time /\ newest' >= loads[l] /\ newest' >= newest
      /\ (newest' = loads[l] \/ newest' = newest)
  BY <1>1 DEF Newer
<1>5. \A m \in Loaders : loads'[m] = Unused \/ (m # l /\ loads'[m] = loads[m])
  BY <1>1 DEF Gone
<1>6. loads' \in [Loaders -> Int]
  BY <1>1 DEF Gone, Unused
<1>7. EntryOK'
  <2>1. stamp' \in Int /\ (stamp' < 0 => stamp' \in {Missing, Garbled, -1})
    BY <1>1 DEF CacheInv, EntryOK, Garbled, Wall
  <2>2. \A m \in Loaders : loads'[m] \in {Unused, Asked} \cup 0 .. time
    BY <1>5 DEF CacheInv, EntryOK
  <2> QED
    BY <1>2, <1>3, <1>4, <1>6, <2>1, <2>2 DEF CacheInv, EntryOK
<1>8. StampIsOld'
  <2>1. ASSUME skew = 0, stamp' >= 0 PROVE stamp' <= time
    <3>1. stamp' = stamp \/ stamp' = time
      BY <1>1, <2>1 DEF Garbled, Wall
    <3>2. CASE stamp' = stamp
      BY <1>1, <2>1, <3>2 DEF CacheInv, StampIsOld, EntryOK, NoFile
    <3> QED
      BY <1>1, <3>1, <3>2
  <2> QED
    BY <1>2, <1>3, <2>1 DEF StampIsOld
<1>9. NothingOvertaken'
  <2>1. ASSUME ~racing PROVE /\ \A m \in Loaders : loads'[m] = Unused
                             /\ loads[l] >= newest
    BY <1>1, <1>5, <2>1 DEF CacheInv, NothingOvertaken, Unused
  <2> QED
    BY <1>1, <1>2, <1>3, <1>4, <2>1 DEF NothingOvertaken, Unused
<1>10. ServedIsFresh'
  BY <1>2 DEF CacheInv, ServedIsFresh
<1> QED
  BY <1>7, <1>8, <1>9, <1>10 DEF CacheInv

LEMMA CacheInvPreserved == CacheInv /\ [CachesNext]_cacheVars => CacheInv'
<1> SUFFICES ASSUME CacheInv, [CachesNext]_cacheVars PROVE CacheInv'
  OBVIOUS
<1> USE DEF CacheInv
<1>1. CASE \E l \in Loaders, bypass \in BOOLEAN : Download(l, bypass)
  BY <1>1, DownloadPreserves
<1>2. ASSUME NEW l \in Loaders, Respond(l) PROVE CacheInv'
  <2>1. /\ loads[l] = Asked /\ loads' = [loads EXCEPT ![l] = time]
        /\ ttl' = ttl /\ time' = time /\ skew' = skew /\ bin' = bin /\ stamp' = stamp
        /\ served' = served /\ newest' = newest /\ racing' = racing
    BY <1>2 DEF Respond
  <2>2. EntryOK'
    BY <2>1 DEF EntryOK
  <2>3. StampIsOld' /\ ServedIsFresh'
    BY <2>1 DEF StampIsOld, ServedIsFresh
  <2>4. NothingOvertaken'
    BY <2>1 DEF EntryOK, NothingOvertaken, Asked, Unused
  <2> QED
    BY <2>2, <2>3, <2>4
<1>3. ASSUME NEW l \in Loaders, Put(l) \/ PutBreaks(l) PROVE CacheInv'
  BY <1>3, StoredPreserves DEF Put, PutBreaks
<1>4. ASSUME NEW l \in Loaders, LoadFails(l) PROVE CacheInv'
  BY <1>4 DEF LoadFails, EntryOK, StampIsOld, NothingOvertaken, ServedIsFresh, Unused
<1>5. CASE Drop
  BY <1>5 DEF Drop, Gone, EntryOK, StampIsOld, NothingOvertaken, ServedIsFresh, Missing, Unused
<1>6. CASE Die
  BY <1>6 DEF Die, Gone, EntryOK, StampIsOld, NothingOvertaken, ServedIsFresh, Unused
<1>7. CASE Pass
  BY <1>7 DEF Pass, EntryOK, StampIsOld, NothingOvertaken, ServedIsFresh, Blob, NoFile
<1>8. CASE SetWall
  BY <1>8 DEF SetWall, EntryOK, StampIsOld, NothingOvertaken, ServedIsFresh
<1>9. CASE UNCHANGED cacheVars
  BY <1>9 DEF cacheVars, EntryOK, StampIsOld, NothingOvertaken, ServedIsFresh
<1> QED
  BY <1>1, <1>2, <1>3, <1>4, <1>5, <1>6, <1>7, <1>8, <1>9 DEF CachesNext

\* What a cache hit serves was put there no longer than the ttl ago, however many downloads
\* crashed between the two files, and is the newest answer held, unless downloads raced
\* (cache.py:65-83, 100-102).
THEOREM HitsAreFresh == CachesSpec => []ServedIsFresh
<1>1. CachesInit => CacheInv
  BY CachesAssumption
  DEF CachesInit, CacheInv, EntryOK, StampIsOld, NothingOvertaken, ServedIsFresh, Missing, Unused
<1>2. CachesSpec => []CacheInv
  BY <1>1, CacheInvPreserved, PTL DEF CachesSpec
<1> QED
  BY <1>2, PTL DEF CacheInv

-------------------------------------------------------------------------------
(* Paging: pages, windows, and several tasks that draw on one iterator. *)

LEMMA MondayFacts ==
  ASSUME NEW c \in Nat, NEW d \in Nat
  PROVE  /\ Monday(d) \in Nat /\ Monday(d) <= d /\ d < Monday(d) + WeekLength
         /\ Monday(c) < Monday(d) => Monday(c) + WeekLength <= Monday(d)
<1>1. WeekLength \in Nat \ {0}
  BY PagingAssumption
<1>2. ASSUME NEW n \in Nat
      PROVE  \E q \in Nat : Monday(n) = WeekLength * q /\ Monday(n) <= n /\ n < Monday(n) + WeekLength
  <2>1. /\ n = WeekLength * (n \div WeekLength) + (n % WeekLength)
        /\ n \div WeekLength \in Nat /\ n % WeekLength \in 0 .. WeekLength - 1
    BY <1>1
  <2>2. PICK q \in Nat, r \in 0 .. WeekLength - 1 : n = WeekLength * q + r /\ r = n % WeekLength
    BY <2>1
  <2>3. PICK m \in Nat : m = WeekLength * q
    BY <1>1
  <2>4. n = m + r
    BY <2>2, <2>3
  <2>5. Monday(n) = n - r
    BY <2>2 DEF Monday
  <2>6. Monday(n) = m /\ Monday(n) <= n /\ n < Monday(n) + WeekLength
    BY <1>1, <2>4, <2>5
  <2>7. QED
    BY <2>3, <2>6
<1>3. PICK p \in Nat : Monday(c) = WeekLength * p /\ Monday(c) <= c /\ c < Monday(c) + WeekLength
  BY <1>2
<1>4. PICK q \in Nat : Monday(d) = WeekLength * q /\ Monday(d) <= d /\ d < Monday(d) + WeekLength
  BY <1>2
<1>5. ASSUME Monday(c) < Monday(d) PROVE Monday(c) + WeekLength <= Monday(d)
  <2>1. p < q
    <3>1. CASE q <= p
      <4>1. PICK r \in Nat : p = q + r
        BY <3>1
      <4>2. WeekLength * p = WeekLength * q + WeekLength * r /\ WeekLength * r >= 0
        BY <1>1, <4>1
      <4>3. QED BY <1>1, <1>3, <1>4, <1>5, <4>2
    <3>2. QED BY <3>1
  <2>2. PICK r \in Nat : q = p + 1 + r
    BY <2>1
  <2>3. WeekLength * q = WeekLength * p + WeekLength + WeekLength * r /\ WeekLength * r >= 0
    BY <1>1, <2>2
  <2>4. WeekLength * p \in Nat /\ WeekLength * r \in Nat
    BY <1>1
  <2>5. QED BY <1>1, <1>3, <1>4, <2>3, <2>4
<1>6. QED
  BY <1>1, <1>3, <1>4, <1>5

\* What the windows of two days have to do with each other; of one window, they hold the
\* same items.
First(d) == WindowOf(d).first
LastOf(d) == WindowOf(d).last

LEMMA Windows ==
  ASSUME NEW c \in Nat, NEW d \in Nat
  PROVE  /\ First(d) \in Nat /\ LastOf(d) \in Nat /\ First(d) <= d /\ d <= LastOf(d)
         /\ First(c) < First(d) => LastOf(c) < First(d)
         /\ First(c) = First(d) => LastOf(c) = LastOf(d) /\ Items(c) = Items(d)
         /\ First(c) > First(d) => LastOf(d) < First(c)
<1>1. WeekLength \in Nat \ {0}
  BY PagingAssumption
<1>2. CASE kind = "schedule"
  <2>1. First(c) = c /\ LastOf(c) = c /\ First(d) = d /\ LastOf(d) = d
    BY <1>2 DEF First, LastOf, WindowOf
  <2>2. QED BY <2>1
<1>3. CASE kind # "schedule"
  <2>1. /\ First(c) = Monday(c) /\ LastOf(c) = Monday(c) + WeekLength - 1
        /\ First(d) = Monday(d) /\ LastOf(d) = Monday(d) + WeekLength - 1
    BY <1>3 DEF First, LastOf, WindowOf
  <2>2. /\ Monday(d) \in Nat /\ Monday(d) <= d /\ d < Monday(d) + WeekLength
        /\ Monday(c) \in Nat /\ Monday(c) <= c /\ c < Monday(c) + WeekLength
        /\ Monday(c) < Monday(d) => Monday(c) + WeekLength <= Monday(d)
        /\ Monday(d) < Monday(c) => Monday(d) + WeekLength <= Monday(c)
    BY MondayFacts
  <2>3. Monday(c) = Monday(d) => Items(c) = Items(d)
    BY <1>3 DEF Items
  <2>4. QED
    BY <1>1, <2>1, <2>2, <2>3
<1>4. QED BY <1>2, <1>3

LEMMA WindowOrder ==
  ASSUME NEW c \in Nat, NEW d \in Nat
  PROVE  /\ LastOf(c) < d \/ LastOf(d) <= LastOf(c)
         /\ LastOf(c) < d \/ LastOf(d) < LastOf(c) \/ First(c) = First(d)
         /\ c <= LastOf(d) => LastOf(c) <= LastOf(d)
<1>1. /\ First(c) \in Nat /\ LastOf(c) \in Nat /\ First(c) <= c /\ c <= LastOf(c)
      /\ First(d) \in Nat /\ LastOf(d) \in Nat /\ First(d) <= d /\ d <= LastOf(d)
  BY Windows
<1>2. CASE First(c) < First(d)
  <2>1. LastOf(c) < First(d)
    BY <1>2, Windows
  <2>2. QED BY <1>1, <1>2, <2>1
<1>3. CASE First(c) = First(d)
  <2>1. LastOf(c) = LastOf(d)
    BY <1>3, Windows
  <2>2. QED BY <1>1, <1>3, <2>1
<1>4. CASE First(c) > First(d)
  <2>1. LastOf(d) < First(c)
    BY <1>4, Windows
  <2>2. QED BY <1>1, <1>4, <2>1
<1>5. QED BY <1>1, <1>2, <1>3, <1>4

-------------------------------------------------------------------------------
\* The items of a page, and those of the page at hand that are still to be drawn.
PageItems(d) == {Items(d)[n] : n \in 1 .. Len(Items(d))}
Undrawn == {buf[i] : i \in pos + 1 .. Len(buf)}

PageTypes ==
  /\ PagingTypeOK
  /\ next \in Days \cup {Done} /\ fetching \in [Tasks -> Days \cup {Idle}]
  /\ kind = "open" => entries[Monday(LastDay)] = 0

\* Between what was drawn and the page to come there is nothing but the rest of the page at
\* hand, and when there is no page to come that rest is all that is left of the range.
NoGap ==
  /\ kind = "none" => /\ next = Done /\ buf = << >> /\ drawn = << >> /\ ~stopped
                      /\ \A t \in Tasks : fetching[t] = Idle
  /\ next # Done => Before(next) \subseteq Drawn \cup Undrawn
  /\ kind \notin {"none", "open"} /\ next = Done => Before(LastOf(end) + 1) \subseteq Drawn \cup Undrawn
  /\ NothingSkipped

Less(x, y) == x[1] < y[1] \/ (x[1] = y[1] /\ x[2] < y[2])

\* While no fetches overlap, only the page to come is under way, and only when the page at
\* hand is drawn; what was drawn, the rest and the page to come follow one another.
Ordered ==
  ~overlap =>
    /\ \A t, u \in Tasks : fetching[t] # Idle /\ fetching[u] # Idle => t = u
    /\ \A t \in Tasks : fetching[t] # Idle => fetching[t] = next /\ pos = Len(buf)
    /\ \A m, n \in 1 .. Len(drawn) : m < n => Less(drawn[m], drawn[n])
    /\ \A m \in 1 .. Len(drawn), i \in pos + 1 .. Len(buf) : Less(drawn[m], buf[i])
    /\ \A i, j \in 1 .. Len(buf) : i < j => Less(buf[i], buf[j])
    /\ next # Done => /\ \A m \in 1 .. Len(drawn) : drawn[m][1] < First(next)
                      /\ \A i \in 1 .. Len(buf) : buf[i][1] < First(next)

PageInv == PageTypes /\ NoGap /\ Ordered

LEMMA DaysFacts ==
  /\ Days \subseteq Nat /\ LastDay \in Days /\ 0 \in Days
  /\ \A d \in Days : d <= LastDay
  /\ Done \notin Days /\ Idle \notin Days /\ Done = Idle
BY PagingAssumption DEF Days, Done, Idle

LEMMA ItemFacts ==
  ASSUME PageTypes, NEW d \in Days
  PROVE  /\ Items(d) \in Seq(PageItem)
         /\ \A i \in 1 .. Len(Items(d)) : Items(d)[i][1] = First(d)
         /\ \A i, j \in 1 .. Len(Items(d)) : i < j => Items(d)[i][2] < Items(d)[j][2]
<1>1. d \in Nat /\ First(d) \in Nat
  BY DaysFacts, Windows
<1>2. CASE kind = "schedule"
  <2>1. Items(d) = <<<<d, 1>>>> /\ First(d) = d
    BY <1>2 DEF Items, First, WindowOf
  <2>2. <<d, 1>> \in PageItem
    BY <1>1 DEF PageItem
  <2>3. QED
    BY <2>1, <2>2
<1>3. CASE kind # "schedule"
  <2>1. PICK e \in Nat : e = entries[Monday(d)]
    BY DEF PageTypes, PagingTypeOK, Weeks
  <2>2. Items(d) = [n \in 1 .. e |-> <<Monday(d), n>>] /\ First(d) = Monday(d)
    BY <1>3, <2>1 DEF Items, First, WindowOf
  <2>3. \A n \in 1 .. e : <<Monday(d), n>> \in PageItem
    BY <1>1, <2>2 DEF PageItem
  <2>4. Items(d) \in Seq(PageItem) /\ Len(Items(d)) = e
    BY <2>2, <2>3, IsASeq
  <2>5. QED
    BY <2>2, <2>4
<1>4. QED BY <1>2, <1>3

LEMMA BeforeStart == PageTypes => Before(start) = {}
<1> SUFFICES ASSUME PageTypes, NEW c \in Days, First(start) <= c, LastOf(c) < start
             PROVE  FALSE
  BY DEF Before, First, LastOf
<1>1. c \in Nat /\ start \in Nat
  BY DaysFacts DEF PageTypes, PagingTypeOK
<1>2. QED
  BY <1>1, Windows

LEMMA BeforeGrows ==
  ASSUME NEW a \in Nat, NEW b \in Nat, a <= b
  PROVE  Before(a) \subseteq Before(b)
<1>1. \A c \in Days : LastOf(c) \in Nat
  BY DaysFacts, Windows
<1>2. \A c \in Days : LastOf(c) < a => LastOf(c) < b
  BY <1>1
<1>3. QED
  BY <1>2 DEF Before, LastOf

LEMMA BeforeNext ==
  ASSUME NEW d \in Days
  PROVE  Before(LastOf(d) + 1) \subseteq Before(d) \cup PageItems(d)
<1> SUFFICES ASSUME NEW c \in Days, First(start) <= c, LastOf(c) < LastOf(d) + 1,
                    NEW n \in 1 .. Len(Items(c))
             PROVE  Items(c)[n] \in Before(d) \cup PageItems(d)
  BY DEF Before, First, LastOf
<1>1. c \in Nat /\ d \in Nat
  BY DaysFacts
<1>2. LastOf(c) < d \/ Items(c) = Items(d)
  <2>1. LastOf(c) \in Nat /\ LastOf(d) \in Nat
    BY <1>1, Windows
  <2>2. LastOf(c) < d \/ LastOf(d) < LastOf(c) \/ First(c) = First(d)
    BY <1>1, WindowOrder
  <2>3. LastOf(c) < d \/ First(c) = First(d)
    BY <2>1, <2>2
  <2>4. QED BY <1>1, <2>3, Windows
<1>3. CASE LastOf(c) < d
  BY <1>3 DEF Before, First, LastOf
<1>4. CASE Items(c) = Items(d)
  BY <1>4 DEF PageItems
<1>5. QED BY <1>2, <1>3, <1>4

LEMMA AdvanceFacts ==
  ASSUME PageTypes, NEW d \in Days
  PROVE  /\ Advance(d) \in Days \cup {Done}
         /\ Advance(d) # Done => Advance(d) = LastOf(d) + 1
         /\ Advance(d) = Done /\ kind # "open" => LastOf(end) <= LastOf(d)
<1>1. d \in Nat /\ end \in Nat /\ end \in Days /\ LastDay \in Nat
  BY DaysFacts DEF PageTypes, PagingTypeOK
<1>2. LastOf(d) \in Nat /\ First(d) \in Nat /\ LastOf(d) >= d
  BY <1>1, Windows
<1>3. CASE kind = "open"
  <2>1. Advance(d) = IF Items(d) = << >> THEN Done ELSE LastOf(d) + 1
    BY <1>3 DEF Advance, LastOf
  <2>2. ASSUME Items(d) # << >> PROVE LastOf(d) + 1 \in Days
    <3>1. Items(LastDay) = << >>
      BY <1>3 DEF Items, PageTypes
    <3>2. First(d) # First(LastDay)
      BY <1>1, <2>2, <3>1, Windows
    <3>3. d <= LastDay
      BY DaysFacts
    <3>4. LastOf(d) < LastDay
      <4>1. LastOf(LastDay) \in Nat /\ LastDay <= LastOf(LastDay)
        BY <1>1, Windows
      <4>2. LastOf(d) < LastDay \/ LastOf(LastDay) < LastOf(d)
        BY <1>1, <3>2, WindowOrder
      <4>3. d <= LastOf(LastDay) => LastOf(d) <= LastOf(LastDay)
        BY <1>1, WindowOrder
      <4>4. QED BY <1>1, <1>2, <3>3, <4>1, <4>2, <4>3
    <3>5. QED
      BY <1>1, <1>2, <3>4 DEF Days
  <2>3. QED
    BY <1>3, <2>1, <2>2, <1>2, DaysFacts
<1>4. CASE kind # "open"
  <2>1. Advance(d) = IF LastOf(d) + 1 > end THEN Done ELSE LastOf(d) + 1
    BY <1>4 DEF Advance, LastOf
  <2>2. LastOf(d) + 1 <= end => LastOf(d) + 1 \in Days
    BY <1>1, <1>2 DEF Days
  <2>3. LastOf(d) >= end => LastOf(end) <= LastOf(d)
    BY <1>1, WindowOrder
  <2>4. QED
    BY <1>1, <1>2, <2>1, <2>2, <2>3, DaysFacts
<1>5. QED BY <1>3, <1>4

LEMMA CalendarStays ==
  ASSUME UNCHANGED <<kind, start, end, entries>>
  PROVE  \A d : /\ First(d)' = First(d) /\ LastOf(d)' = LastOf(d)
                /\ Items(d)' = Items(d) /\ Before(d)' = Before(d)
BY DEF First, LastOf, WindowOf, Items, Before

(* The page of day d came: what it leaves at hand.                           *)
LEMMA PageCame ==
  ASSUME PageTypes, NEW t \in Tasks, Fetched(t)
  PROVE  LET d == fetching[t]
         IN  /\ d \in Days /\ Items(d) \in Seq(PageItem) /\ Len(Items(d)) \in Nat
             /\ next' = Advance(d) /\ buf' = Items(d)
             /\ UNCHANGED <<kind, start, end, entries, overlap>>
             /\ \/ /\ Len(Items(d)) > 0 /\ pos' = 1 /\ drawn' = Append(drawn, Items(d)[1])
                   /\ Items(d)[1] \in PageItem
                   /\ fetching' = [fetching EXCEPT ![t] = Idle] /\ stopped' = stopped
                \/ /\ Len(Items(d)) = 0 /\ pos' = 0 /\ drawn' = drawn
                   /\ fetching' = [fetching EXCEPT ![t] = Advance(d)]
                   /\ stopped' = (stopped \/ Advance(d) = Done)
<1> DEFINE d == fetching[t]
<1>1. d \in Days
  BY DEF Fetched, PageTypes
<1>2. Items(d) \in Seq(PageItem) /\ Len(Items(d)) \in Nat
  BY <1>1, ItemFacts, LenProperties
<1>3. Items(d) # << >> <=> Len(Items(d)) > 0
  BY <1>2, EmptySeq
<1>4. Len(Items(d)) > 0 => Items(d)[1] \in PageItem
  BY <1>2, ElementOfSeq
<1> QED
  BY <1>1, <1>2, <1>3, <1>4 DEF Fetched

(* What Ask() does: it draws, is told that there is no more, or fetches.     *)
LEMMA WhatAskDoes ==
  ASSUME PageTypes, NEW t \in Tasks, Ask(t)
  PROVE  /\ UNCHANGED <<kind, start, end, entries, next, buf>>
         /\ kind # "none" /\ fetching[t] = Idle
         /\ Len(buf) \in Nat /\ pos \in 0 .. Len(buf) /\ Len(drawn) \in Nat
         /\ \/ /\ pos < Len(buf) /\ buf[pos + 1] \in PageItem
               /\ drawn' = Append(drawn, buf[pos + 1]) /\ pos' = pos + 1
               /\ UNCHANGED <<fetching, stopped, overlap>>
            \/ /\ pos = Len(buf) /\ next = Done /\ stopped' = TRUE
               /\ UNCHANGED <<drawn, pos, fetching, overlap>>
            \/ /\ pos = Len(buf) /\ next \in Days
               /\ fetching' = [fetching EXCEPT ![t] = next]
               /\ overlap' = (overlap \/ \E u \in Tasks : fetching[u] # Idle)
               /\ UNCHANGED <<drawn, pos, stopped>>
<1>1. /\ Len(buf) \in Nat /\ pos \in 0 .. Len(buf) /\ Len(drawn) \in Nat
      /\ buf \in Seq(PageItem) /\ next \in Days \cup {Done}
  BY LenProperties DEF PageTypes, PagingTypeOK
<1>2. pos < Len(buf) => buf[pos + 1] \in PageItem
  BY <1>1, ElementOfSeq
<1> QED
  BY <1>1, <1>2 DEF Ask

LEMMA PageTypesPreserved ==
  ASSUME PageTypes, [PagingNext]_pageVars
  PROVE  PageTypes'
<1>0. Days \subseteq Nat /\ Done = Idle
  BY DaysFacts
<1>1. ASSUME NEW k \in {"diary", "open", "schedule"}, NEW a \in Days, NEW b \in Days,
             NEW e \in [Weeks -> 0 .. MaxEntries], Iterate(k, a, b, e)
      PROVE  PageTypes'
  <2>1. e \in [Weeks -> Nat]
    BY PagingAssumption
  <2>2. k = "open" => e[Monday(LastDay)] = 0
    BY <1>1 DEF Iterate
  <2>3. QED
    BY <1>0, <1>1, <2>1, <2>2 DEF Iterate, PageTypes, PagingTypeOK
<1>2. ASSUME NEW t \in Tasks, Ask(t) PROVE PageTypes'
  <2>1. drawn' \in Seq(PageItem)
    <3>1. \/ drawn' = drawn
          \/ buf[pos + 1] \in PageItem /\ drawn' = Append(drawn, buf[pos + 1])
      BY <1>2, WhatAskDoes
    <3>2. drawn \in Seq(PageItem)
      BY DEF PageTypes, PagingTypeOK
    <3>3. \A x \in PageItem : Append(drawn, x) \in Seq(PageItem)
      BY <3>2, AppendProperties
    <3>4. QED BY <3>1, <3>2, <3>3
  <2>2. pos' \in 0 .. Len(buf')
    <3>1. /\ Len(buf) \in Nat /\ pos \in 0 .. Len(buf) /\ buf' = buf
          /\ pos' = pos \/ (pos < Len(buf) /\ pos' = pos + 1)
      BY <1>2, WhatAskDoes
    <3>2. pos' \in 0 .. Len(buf)
      BY <3>1
    <3>3. QED BY <3>1, <3>2
  <2>3. {stopped', overlap'} \subseteq BOOLEAN
    <3>1. \/ UNCHANGED <<stopped, overlap>>
          \/ stopped' = TRUE /\ UNCHANGED overlap
          \/ overlap' = (overlap \/ \E u \in Tasks : fetching[u] # Idle) /\ UNCHANGED stopped
      BY <1>2, WhatAskDoes
    <3>2. QED BY <3>1 DEF PageTypes, PagingTypeOK
  <2>4. fetching' \in [Tasks -> Days \cup {Idle}]
    BY <1>2, WhatAskDoes DEF PageTypes
  <2>5. fetching' \in [Tasks -> Nat \cup {Idle}]
    BY <1>0, <2>4
  <2>6. UNCHANGED <<kind, start, end, entries, next, buf>>
    BY <1>2, WhatAskDoes
  <2>7. QED
    BY <2>1, <2>2, <2>3, <2>4, <2>5, <2>6 DEF PageTypes, PagingTypeOK
<1>3. ASSUME NEW t \in Tasks, Fetched(t) PROVE PageTypes'
  <2> DEFINE d == fetching[t]
  <2>1. d \in Days
    BY <1>3, PageCame
  <2>2. Advance(d) \in Days \cup {Done}
    BY <2>1, AdvanceFacts
  <2>3. /\ next' \in Days \cup {Done} /\ buf' \in Seq(PageItem)
        /\ UNCHANGED <<kind, start, end, entries, overlap>>
    BY <1>3, <2>2, PageCame
  <2>4. fetching' \in [Tasks -> Days \cup {Idle}] /\ stopped' \in BOOLEAN
    BY <1>0, <1>3, <2>2, PageCame DEF PageTypes, PagingTypeOK
  <2>5. drawn' \in Seq(PageItem)
    <3>1. \/ drawn' = drawn
          \/ Items(d)[1] \in PageItem /\ drawn' = Append(drawn, Items(d)[1])
      BY <1>3, PageCame
    <3>2. drawn \in Seq(PageItem)
      BY DEF PageTypes, PagingTypeOK
    <3>3. \A x \in PageItem : Append(drawn, x) \in Seq(PageItem)
      BY <3>2, AppendProperties
    <3>4. QED BY <3>1, <3>2, <3>3
  <2>6. pos' \in 0 .. Len(buf')
    BY <1>3, PageCame
  <2>7. next' \in Nat \cup {Done} /\ fetching' \in [Tasks -> Nat \cup {Idle}]
    BY <1>0, <2>3, <2>4
  <2>8. QED
    BY <2>3, <2>4, <2>5, <2>6, <2>7 DEF PageTypes, PagingTypeOK
<1>4. ASSUME NEW t \in Tasks, FetchFails(t) PROVE PageTypes'
  <2>1. fetching' \in [Tasks -> Days \cup {Idle}]
    BY <1>4 DEF FetchFails, PageTypes
  <2>2. fetching' \in [Tasks -> Nat \cup {Idle}]
    BY <1>0, <2>1
  <2>3. QED
    BY <1>4, <2>1, <2>2 DEF FetchFails, PageTypes, PagingTypeOK
<1>5. CASE UNCHANGED pageVars
  BY <1>5 DEF pageVars, PageTypes, PagingTypeOK
<1>6. QED
  BY <1>1, <1>2, <1>3, <1>4, <1>5 DEF PagingNext

(* Nothing drawn is forgotten, and what a step takes out of the rest is      *)
(* drawn.                                                                    *)
LEMMA DrawnGrows ==
  ASSUME PageTypes, NEW x \in PageItem, drawn' = Append(drawn, x)
  PROVE  Drawn' = Drawn \cup {x}
<1>1. drawn \in Seq(PageItem) /\ Len(drawn) \in Nat
  BY LenProperties DEF PageTypes, PagingTypeOK
<1>2. /\ Len(drawn') = Len(drawn) + 1 /\ drawn'[Len(drawn) + 1] = x
      /\ \A n \in 1 .. Len(drawn) : drawn'[n] = drawn[n]
  BY <1>1, AppendProperties
<1>3. Drawn' \subseteq Drawn \cup {x}
  BY <1>1, <1>2 DEF Drawn
<1>4. x \in Drawn' /\ Drawn \subseteq Drawn'
  BY <1>1, <1>2 DEF Drawn
<1>5. QED BY <1>3, <1>4

LEMMA AskDraws ==
  ASSUME PageTypes, NEW t \in Tasks, Ask(t)
  PROVE  /\ Drawn \subseteq Drawn' /\ Drawn \cup Undrawn \subseteq Drawn' \cup Undrawn'
         /\ pos = Len(buf) => Undrawn = {}
<1>1. /\ Len(buf) \in Nat /\ pos \in 0 .. Len(buf) /\ buf' = buf
      /\ \/ /\ pos < Len(buf) /\ buf[pos + 1] \in PageItem
            /\ drawn' = Append(drawn, buf[pos + 1]) /\ pos' = pos + 1
         \/ pos = Len(buf) /\ UNCHANGED <<drawn, pos>>
  BY WhatAskDoes
<1>2. CASE pos < Len(buf)
  <2>1. buf[pos + 1] \in PageItem /\ drawn' = Append(drawn, buf[pos + 1]) /\ pos' = pos + 1
    BY <1>1, <1>2
  <2>2. Drawn' = Drawn \cup {buf[pos + 1]}
    BY <2>1, DrawnGrows
  <2>3. Undrawn \subseteq Undrawn' \cup {buf[pos + 1]}
    BY <1>1, <2>1 DEF Undrawn
  <2>4. QED BY <1>1, <1>2, <2>2, <2>3
<1>3. CASE pos = Len(buf)
  <2>1. drawn' = drawn /\ pos' = pos
    BY <1>1, <1>3
  <2>2. Undrawn = {}
    BY <1>1, <1>3 DEF Undrawn
  <2>3. QED BY <2>1, <2>2 DEF Drawn
<1>4. QED BY <1>1, <1>2, <1>3

LEMMA PageIsAtHand ==
  ASSUME PageTypes, NEW t \in Tasks, Fetched(t)
  PROVE  /\ Drawn \subseteq Drawn' /\ PageItems(fetching[t]) \subseteq Drawn' \cup Undrawn'
         /\ Len(Items(fetching[t])) = 0 => PageItems(fetching[t]) = {}
<1> DEFINE d == fetching[t]
<1>1. Len(Items(d)) \in Nat /\ buf' = Items(d)
  BY PageCame
<1>2. CASE Len(Items(d)) > 0
  <2>1. pos' = 1 /\ drawn' = Append(drawn, Items(d)[1]) /\ Items(d)[1] \in PageItem
    BY <1>1, <1>2, PageCame
  <2>2. Drawn' = Drawn \cup {Items(d)[1]}
    BY <2>1, DrawnGrows
  <2>3. PageItems(d) \subseteq {Items(d)[1]} \cup Undrawn'
    BY <1>1, <2>1 DEF PageItems, Undrawn
  <2>4. QED BY <1>2, <2>2, <2>3
<1>3. CASE Len(Items(d)) = 0
  <2>1. drawn' = drawn
    BY <1>3, PageCame
  <2>2. PageItems(d) = {}
    BY <1>3 DEF PageItems
  <2>3. QED BY <2>1, <2>2 DEF Drawn
<1>4. QED BY <1>1, <1>2, <1>3

LEMMA NoGapParts ==
  NoGap <=>
    /\ kind = "none" => /\ next = Done /\ buf = << >> /\ drawn = << >> /\ ~stopped
                      /\ \A t \in Tasks : fetching[t] = Idle
    /\ next # Done => Before(next) \subseteq Drawn \cup Undrawn
    /\ kind \notin {"none", "open"} /\ next = Done => Before(LastOf(end) + 1) \subseteq Drawn \cup Undrawn
    /\ \A t \in Tasks : fetching[t] # Idle => Before(fetching[t]) \subseteq Drawn
    /\ stopped /\ kind # "open" => Before(LastOf(end) + 1) \subseteq Drawn
BY DEF NoGap, NothingSkipped, LastOf

(* A step that changes nothing of the calendar keeps the gaps closed when it *)
(* does for the page to come, the pages under way and those who were told.   *)
LEMMA GapStaysClosed ==
  ASSUME UNCHANGED <<kind, start, end, entries>>, kind # "none",
         next' # Done => Before(next') \subseteq Drawn' \cup Undrawn',
         kind # "open" /\ next' = Done => Before(LastOf(end) + 1) \subseteq Drawn' \cup Undrawn',
         \A t \in Tasks : fetching'[t] # Idle => Before(fetching'[t]) \subseteq Drawn',
         stopped' /\ kind # "open" => Before(LastOf(end) + 1) \subseteq Drawn'
  PROVE  NoGap'
<1>1. PICK n, f, e : n = next' /\ f = fetching' /\ e = LastOf(end) + 1
  OBVIOUS
<1>2. /\ Before(n)' = Before(n) /\ \A t \in Tasks : Before(f[t])' = Before(f[t])
      /\ Before(e)' = Before(e) /\ LastOf(end)' = LastOf(end)
  BY CalendarStays DEF LastOf, WindowOf
<1>3. QED
  BY <1>1, <1>2 DEF NoGap, NothingSkipped, LastOf, Done, Idle

LEMMA NoGapPreserved ==
  ASSUME PageTypes, PageTypes', NoGap, [PagingNext]_pageVars
  PROVE  NoGap'
<1>1. ASSUME NEW k \in {"diary", "open", "schedule"}, NEW a \in Days, NEW b \in Days,
             NEW e \in [Weeks -> 0 .. MaxEntries], Iterate(k, a, b, e)
      PROVE  NoGap'
  <2>1. (Before(start) = {})'
    BY BeforeStart, PTL
  <2>2. /\ kind' \in {"diary", "open", "schedule"} /\ next' = start' /\ next' # Done
        /\ UNCHANGED <<drawn, fetching, stopped>> /\ kind = "none"
    BY <1>1, DaysFacts DEF Iterate
  <2>3. ~stopped' /\ \A t \in Tasks : fetching'[t] = Idle
    BY <2>2 DEF NoGap
  <2>4. PICK n : n = next' /\ n = start'
    BY <2>2
  <2>5. Before(n)' = {}
    BY <2>1, <2>4
  <2>6. QED
    BY <2>2, <2>3, <2>4, <2>5 DEF NoGap, NothingSkipped
<1>2. ASSUME NEW t \in Tasks, Ask(t) PROVE NoGap'
  <2>1. /\ UNCHANGED <<kind, start, end, entries, next, buf>> /\ kind # "none"
    BY <1>2, WhatAskDoes
  <2>2. /\ Drawn \subseteq Drawn' /\ Drawn \cup Undrawn \subseteq Drawn' \cup Undrawn'
        /\ pos = Len(buf) => Undrawn = {}
    BY <1>2, AskDraws
  <2>3. \A u \in Tasks : fetching'[u] # Idle => Before(fetching'[u]) \subseteq Drawn'
    <3>1. \A u \in Tasks : \/ fetching'[u] = fetching[u]
                           \/ fetching'[u] = next /\ next # Done /\ pos = Len(buf)
      BY <1>2, WhatAskDoes, DaysFacts DEF PageTypes
    <3>2. QED BY <2>2, <3>1, NoGapParts
  <2>4. stopped' /\ kind # "open" => Before(LastOf(end) + 1) \subseteq Drawn'
    <3>1. stopped' => stopped \/ (next = Done /\ pos = Len(buf))
      BY <1>2, WhatAskDoes
    <3>2. QED BY <2>1, <2>2, <3>1, NoGapParts
  <2>5. next' # Done => Before(next') \subseteq Drawn' \cup Undrawn'
    BY <2>1, <2>2, NoGapParts
  <2>6. kind # "open" /\ next' = Done => Before(LastOf(end) + 1) \subseteq Drawn' \cup Undrawn'
    BY <2>1, <2>2, NoGapParts
  <2>7. QED
    BY <2>1, <2>3, <2>4, <2>5, <2>6, GapStaysClosed
<1>3. ASSUME NEW t \in Tasks, Fetched(t) PROVE NoGap'
  <2> DEFINE d == fetching[t]
  <2>1. /\ d \in Days /\ next' = Advance(d) /\ UNCHANGED <<kind, start, end, entries>>
        /\ fetching[t] # Idle
    BY <1>3, PageCame DEF Fetched
  <2>2. kind # "none" /\ Before(d) \subseteq Drawn
    BY <2>1, NoGapParts
  <2>3. Before(LastOf(d) + 1) \subseteq Drawn' \cup Undrawn'
    BY <1>3, <2>1, <2>2, BeforeNext, PageIsAtHand
  <2>4. /\ Advance(d) # Done => Advance(d) = LastOf(d) + 1
        /\ Advance(d) = Done /\ kind # "open" => Before(LastOf(end) + 1) \subseteq Before(LastOf(d) + 1)
    <3>1. d \in Nat /\ end \in Nat
      BY <2>1, DaysFacts DEF PageTypes, PagingTypeOK
    <3>2. LastOf(d) \in Nat /\ LastOf(end) \in Nat
      BY <3>1, Windows
    <3>3. LastOf(d) + 1 \in Nat /\ LastOf(end) + 1 \in Nat
      BY <3>2
    <3>4. /\ Advance(d) # Done => Advance(d) = LastOf(d) + 1
          /\ Advance(d) = Done /\ kind # "open" => LastOf(end) <= LastOf(d)
      BY <2>1, AdvanceFacts
    <3>5. LastOf(end) <= LastOf(d) => LastOf(end) + 1 <= LastOf(d) + 1
      BY <3>2
    <3>6. QED BY <3>3, <3>4, <3>5, BeforeGrows
  <2>5. next' # Done => Before(next') \subseteq Drawn' \cup Undrawn'
    BY <2>1, <2>3, <2>4
  <2>6. kind # "open" /\ next' = Done => Before(LastOf(end) + 1) \subseteq Drawn' \cup Undrawn'
    BY <2>1, <2>3, <2>4
  <2>7. CASE Len(Items(d)) > 0
    <3>1. fetching' = [fetching EXCEPT ![t] = Idle] /\ stopped' = stopped
      BY <1>3, <2>7, PageCame
    <3>2. \A u \in Tasks : fetching'[u] # Idle => Before(fetching'[u]) \subseteq Drawn'
      BY <1>3, <3>1, NoGapParts, PageIsAtHand DEF PageTypes
    <3>3. stopped' /\ kind # "open" => Before(LastOf(end) + 1) \subseteq Drawn'
      BY <1>3, <3>1, NoGapParts, PageIsAtHand
    <3>4. QED
      BY <2>1, <2>2, <2>5, <2>6, <3>2, <3>3, GapStaysClosed
  <2>8. CASE Len(Items(d)) = 0
    <3>1. fetching' = [fetching EXCEPT ![t] = Advance(d)] /\ stopped' = (stopped \/ Advance(d) = Done)
      BY <1>3, <2>8, PageCame
    <3>2. Before(LastOf(d) + 1) \subseteq Drawn' /\ Drawn \subseteq Drawn'
      BY <1>3, <2>1, <2>2, <2>8, BeforeNext, PageIsAtHand
    <3>3. \A u \in Tasks : fetching'[u] = IF u = t THEN Advance(d) ELSE fetching[u]
      BY <3>1 DEF PageTypes
    <3>4. \A u \in Tasks : fetching'[u] # Idle => Before(fetching'[u]) \subseteq Drawn'
      BY <2>4, <3>2, <3>3, NoGapParts, DaysFacts
    <3>5. stopped' /\ kind # "open" => Before(LastOf(end) + 1) \subseteq Drawn'
      BY <2>4, <3>1, <3>2, NoGapParts
    <3>6. QED
      BY <2>1, <2>2, <2>5, <2>6, <3>4, <3>5, GapStaysClosed
  <2>9. QED
    BY <1>3, <2>7, <2>8, PageCame
<1>4. ASSUME NEW t \in Tasks, FetchFails(t) PROVE NoGap'
  <2>1. /\ UNCHANGED <<kind, start, end, entries, next, buf, pos, stopped, drawn>>
        /\ \A u \in Tasks : fetching'[u] = fetching[u] \/ fetching'[u] = Idle
        /\ kind # "none"
    BY <1>4, NoGapParts DEF FetchFails, PageTypes
  <2>2. Drawn' = Drawn /\ Undrawn' = Undrawn
    BY <2>1 DEF Drawn, Undrawn
  <2>3. /\ next' # Done => Before(next') \subseteq Drawn' \cup Undrawn'
        /\ kind # "open" /\ next' = Done => Before(LastOf(end) + 1) \subseteq Drawn' \cup Undrawn'
        /\ \A u \in Tasks : fetching'[u] # Idle => Before(fetching'[u]) \subseteq Drawn'
        /\ stopped' /\ kind # "open" => Before(LastOf(end) + 1) \subseteq Drawn'
    BY <2>1, <2>2, NoGapParts
  <2>4. QED
    BY <2>1, <2>3, GapStaysClosed
<1>5. CASE UNCHANGED pageVars
  <2>1. /\ Drawn' = Drawn /\ Undrawn' = Undrawn /\ LastOf(end)' = LastOf(end)
        /\ UNCHANGED <<kind, start, end, entries, next, buf, drawn, stopped, fetching>>
    BY <1>5 DEF pageVars, Drawn, Undrawn, LastOf, WindowOf
  <2>2. \A d : Before(d)' = Before(d)
    BY <2>1, CalendarStays
  <2>3. QED
    BY <2>1, <2>2 DEF NoGap, NothingSkipped, LastOf
<1>6. QED
  BY <1>1, <1>2, <1>3, <1>4, <1>5 DEF PagingNext

LEMMA AppendIndex ==
  ASSUME NEW S, NEW s \in Seq(S), NEW x \in S
  PROVE  /\ Len(s) \in Nat /\ Len(Append(s, x)) = Len(s) + 1
         /\ \A n \in 1 .. Len(s) : Append(s, x)[n] = s[n]
         /\ Append(s, x)[Len(s) + 1] = x
BY AppendProperties, LenProperties

LEMMA OrderedPreserved ==
  ASSUME PageTypes, PageTypes', NoGap, Ordered, [PagingNext]_pageVars
  PROVE  Ordered'
<1>0. /\ drawn \in Seq(PageItem) /\ Len(drawn) \in Nat /\ buf \in Seq(PageItem)
      /\ Len(buf) \in Nat /\ pos \in 0 .. Len(buf)
  BY LenProperties DEF PageTypes, PagingTypeOK
<1> SUFFICES ASSUME ~overlap' PROVE Ordered'
  BY DEF Ordered
<1>1. ASSUME NEW k \in {"diary", "open", "schedule"}, NEW a \in Days, NEW b \in Days,
             NEW e \in [Weeks -> 0 .. MaxEntries], Iterate(k, a, b, e)
      PROVE  Ordered'
  <2>1. /\ UNCHANGED <<drawn, buf, pos, fetching>>
        /\ drawn = << >> /\ buf = << >> /\ \A t \in Tasks : fetching[t] = Idle
    BY <1>1 DEF Iterate, NoGap
  <2>2. Len(drawn') = 0 /\ Len(buf') = 0
    BY <2>1
  <2>3. QED
    BY <2>1, <2>2 DEF Ordered
<1>2. ASSUME ~overlap
      PROVE  /\ \A t, u \in Tasks : fetching[t] # Idle /\ fetching[u] # Idle => t = u
             /\ \A t \in Tasks : fetching[t] # Idle => fetching[t] = next /\ pos = Len(buf)
             /\ \A m, n \in 1 .. Len(drawn) : m < n => Less(drawn[m], drawn[n])
             /\ \A m \in 1 .. Len(drawn), i \in pos + 1 .. Len(buf) : Less(drawn[m], buf[i])
             /\ \A i, j \in 1 .. Len(buf) : i < j => Less(buf[i], buf[j])
             /\ next # Done => /\ \A m \in 1 .. Len(drawn) : drawn[m][1] < First(next)
                               /\ \A i \in 1 .. Len(buf) : buf[i][1] < First(next)
  BY <1>2 DEF Ordered
<1>3. ASSUME NEW t \in Tasks, Ask(t) PROVE Ordered'
  <2>1. /\ UNCHANGED <<kind, start, end, entries, next, buf>>
        /\ \/ /\ pos < Len(buf) /\ buf[pos + 1] \in PageItem
              /\ drawn' = Append(drawn, buf[pos + 1]) /\ pos' = pos + 1
              /\ UNCHANGED <<fetching, overlap>>
           \/ pos = Len(buf) /\ UNCHANGED <<drawn, pos, fetching, overlap>>
           \/ /\ pos = Len(buf) /\ next \in Days
              /\ fetching' = [fetching EXCEPT ![t] = next]
              /\ overlap' = (overlap \/ \E u \in Tasks : fetching[u] # Idle)
              /\ UNCHANGED <<drawn, pos>>
    BY <1>3, WhatAskDoes
  <2>2. PICK nxt : nxt = next /\ nxt = next' /\ First(nxt)' = First(nxt)
    BY <2>1, CalendarStays
  <2>3. CASE /\ pos < Len(buf) /\ buf[pos + 1] \in PageItem
             /\ drawn' = Append(drawn, buf[pos + 1]) /\ pos' = pos + 1
             /\ UNCHANGED <<fetching, overlap>>
    <3>1. PICK x \in PageItem, p \in 0 .. Len(buf), l \in Nat :
            x = buf[p + 1] /\ p = pos /\ p < Len(buf) /\ l = Len(drawn)
      BY <1>0, <2>3
    <3>2. /\ Len(drawn') = l + 1 /\ drawn'[l + 1] = x /\ pos' = p + 1
          /\ \A n \in 1 .. l : drawn'[n] = drawn[n]
      BY <1>0, <2>3, <3>1, AppendIndex
    <3>3. ~overlap /\ \A u \in Tasks : fetching[u] = Idle
      BY <1>2, <2>3, <1>0
    <3>4. \A m \in 1 .. l : Less(drawn[m], x)
      BY <1>0, <1>2, <3>1, <3>3
    <3>5. \A m, n \in 1 .. l + 1 : m < n => Less(drawn'[m], drawn'[n])
      <4> SUFFICES ASSUME NEW m \in 1 .. l + 1, NEW n \in 1 .. l + 1, m < n
                   PROVE  Less(drawn'[m], drawn'[n])
        OBVIOUS
      <4>1. m \in 1 .. l /\ drawn'[m] = drawn[m]
        BY <3>1, <3>2
      <4>2. CASE n = l + 1
        BY <3>2, <3>4, <4>1, <4>2
      <4>3. CASE n \in 1 .. l
        BY <1>2, <3>1, <3>2, <3>3, <4>1, <4>3
      <4>4. QED BY <4>2, <4>3
    <3>6. \A m \in 1 .. l + 1, i \in p + 2 .. Len(buf) : Less(drawn'[m], buf[i])
      <4> SUFFICES ASSUME NEW m \in 1 .. l + 1, NEW i \in p + 2 .. Len(buf)
                   PROVE  Less(drawn'[m], buf[i])
        OBVIOUS
      <4>1. CASE m = l + 1
        BY <1>0, <1>2, <3>1, <3>2, <3>3, <4>1
      <4>2. CASE m \in 1 .. l
        BY <1>0, <1>2, <3>1, <3>2, <3>3, <4>2
      <4>3. QED BY <4>1, <4>2
    <3>7. nxt # Done => \A m \in 1 .. l + 1 : drawn'[m][1] < First(nxt)
      <4> SUFFICES ASSUME nxt # Done, NEW m \in 1 .. l + 1
                   PROVE  drawn'[m][1] < First(nxt)
        OBVIOUS
      <4>1. CASE m = l + 1
        BY <1>0, <1>2, <2>2, <3>1, <3>2, <3>3, <4>1
      <4>2. CASE m \in 1 .. l
        BY <1>2, <2>2, <3>1, <3>2, <3>3, <4>2
      <4>3. QED BY <4>1, <4>2
    <3>8. /\ \A i, j \in 1 .. Len(buf) : i < j => Less(buf[i], buf[j])
          /\ nxt # Done => \A i \in 1 .. Len(buf) : buf[i][1] < First(nxt)
      BY <1>2, <2>2, <3>3
    <3>9. buf' = buf /\ p + 1 + 1 = p + 2 /\ \A u \in Tasks : fetching'[u] = Idle
      BY <2>1, <2>3, <3>3, <3>1
    <3>10. QED
      BY <2>2, <3>2, <3>5, <3>6, <3>7, <3>8, <3>9 DEF Ordered, Less
  <2>4. CASE pos = Len(buf) /\ UNCHANGED <<drawn, pos, fetching, overlap>>
    BY <1>2, <2>1, <2>2, <2>4 DEF Ordered, Less
  <2>5. CASE /\ pos = Len(buf) /\ next \in Days
             /\ fetching' = [fetching EXCEPT ![t] = next]
             /\ overlap' = (overlap \/ \E u \in Tasks : fetching[u] # Idle)
             /\ UNCHANGED <<drawn, pos>>
    <3>1. ~overlap /\ \A u \in Tasks : fetching[u] = Idle
      BY <2>5
    <3>2. \A u \in Tasks : fetching'[u] = IF u = t THEN next ELSE Idle
      BY <2>5, <3>1 DEF PageTypes
    <3>3. QED
      BY <1>2, <2>1, <2>2, <2>5, <3>1, <3>2 DEF Ordered, Less
  <2>6. QED
    BY <2>1, <2>3, <2>4, <2>5
<1>4. ASSUME NEW t \in Tasks, Fetched(t) PROVE Ordered'
  <2>0. PICK d \in Days : d = fetching[t] /\ d # Idle
    BY <1>4, PageCame DEF Fetched
  <2>1. /\ next' = Advance(d) /\ buf' = Items(d) /\ ~overlap
        /\ UNCHANGED <<kind, start, end, entries>>
        /\ Items(d) \in Seq(PageItem) /\ Len(Items(d)) \in Nat
    BY <1>4, <2>0, PageCame
  <2>2. /\ d = next /\ next # Done /\ \A u \in Tasks : u # t => fetching[u] = Idle
        /\ \A m \in 1 .. Len(drawn) : drawn[m][1] < First(d)
    BY <1>2, <2>0, <2>1, DaysFacts
  <2>3. /\ \A i \in 1 .. Len(Items(d)) : Items(d)[i][1] = First(d)
        /\ \A i, j \in 1 .. Len(Items(d)) : i < j => Items(d)[i][2] < Items(d)[j][2]
    BY ItemFacts
  <2>4. PICK nxt \in Days \cup {Done} : nxt = next' /\ First(nxt)' = First(nxt)
    BY <2>1, CalendarStays, AdvanceFacts
  <2>5. /\ d \in Nat /\ First(d) \in Nat
        /\ nxt # Done => First(nxt) \in Nat /\ First(d) < First(nxt)
    <3>1. d \in Nat /\ First(d) \in Nat /\ LastOf(d) \in Nat /\ First(d) <= d /\ d <= LastOf(d)
      BY DaysFacts, Windows
    <3>2. ASSUME nxt # Done PROVE First(nxt) \in Nat /\ First(d) < First(nxt)
      <4>1. nxt \in Nat /\ nxt = LastOf(d) + 1
        BY <2>1, <2>4, <3>2, AdvanceFacts, DaysFacts
      <4>2. /\ First(nxt) \in Nat /\ First(nxt) <= nxt /\ nxt <= LastOf(nxt) /\ LastOf(nxt) \in Nat
        BY <4>1, Windows
      <4>3. CASE First(nxt) < First(d)
        BY <3>1, <4>1, <4>2, <4>3, Windows
      <4>4. CASE First(nxt) = First(d)
        <5>1. LastOf(nxt) = LastOf(d)
          BY <3>1, <4>1, <4>4, Windows
        <5>2. QED BY <3>1, <4>1, <4>2, <5>1
      <4>5. QED BY <3>1, <4>2, <4>3, <4>4
    <3>3. QED BY <3>1, <3>2
  <2>6. \A m \in 1 .. Len(drawn) : drawn[m] \in PageItem /\ drawn[m][1] \in Nat
    BY <1>0, ElementOfSeq DEF PageItem
  <2>7. /\ \A i, j \in 1 .. Len(Items(d)) : i < j => Less(Items(d)[i], Items(d)[j])
        /\ \A m \in 1 .. Len(drawn), i \in 1 .. Len(Items(d)) : Less(drawn[m], Items(d)[i])
        /\ nxt # Done => \A i \in 1 .. Len(Items(d)) : Items(d)[i][1] < First(nxt)
        /\ nxt # Done => \A m \in 1 .. Len(drawn) : drawn[m][1] < First(nxt)
    <3>1. /\ \A i, j \in 1 .. Len(Items(d)) : i < j => Less(Items(d)[i], Items(d)[j])
          /\ \A m \in 1 .. Len(drawn), i \in 1 .. Len(Items(d)) : Less(drawn[m], Items(d)[i])
      BY <2>2, <2>3 DEF Less
    <3>2. nxt # Done => \A i \in 1 .. Len(Items(d)) : Items(d)[i][1] < First(nxt)
      BY <2>3, <2>5
    <3>3. nxt # Done => \A m \in 1 .. Len(drawn) : drawn[m][1] < First(nxt)
      BY <2>2, <2>5, <2>6
    <3>4. QED BY <3>1, <3>2, <3>3
  <2>8. CASE Len(Items(d)) > 0
    <3>1. PICK x \in PageItem, l \in Nat : x = Items(d)[1] /\ l = Len(drawn)
      BY <1>0, <1>4, <2>0, <2>8, PageCame
    <3>2. pos' = 1 /\ drawn' = Append(drawn, x) /\ fetching' = [fetching EXCEPT ![t] = Idle]
      BY <1>4, <2>0, <2>8, <3>1, PageCame
    <3>3. /\ Len(drawn') = l + 1 /\ drawn'[l + 1] = x
          /\ \A n \in 1 .. l : drawn'[n] = drawn[n]
      BY <1>0, <3>1, <3>2, AppendIndex
    <3>4. \A u \in Tasks : fetching'[u] = Idle
      BY <2>2, <3>2 DEF PageTypes
    <3>5. \A m, n \in 1 .. l + 1 : m < n => Less(drawn'[m], drawn'[n])
      <4> SUFFICES ASSUME NEW m \in 1 .. l + 1, NEW n \in 1 .. l + 1, m < n
                   PROVE  Less(drawn'[m], drawn'[n])
        OBVIOUS
      <4>1. m \in 1 .. l /\ drawn'[m] = drawn[m]
        BY <3>1, <3>3
      <4>2. CASE n = l + 1
        BY <2>1, <2>7, <2>8, <3>1, <3>3, <4>1, <4>2
      <4>3. CASE n \in 1 .. l
        BY <1>2, <2>1, <3>1, <3>3, <4>1, <4>3
      <4>4. QED BY <4>2, <4>3
    <3>6. \A m \in 1 .. l + 1, i \in 2 .. Len(Items(d)) : Less(drawn'[m], Items(d)[i])
      <4> SUFFICES ASSUME NEW m \in 1 .. l + 1, NEW i \in 2 .. Len(Items(d))
                   PROVE  Less(drawn'[m], Items(d)[i])
        OBVIOUS
      <4>1. CASE m = l + 1
        BY <2>1, <2>7, <2>8, <3>1, <3>3, <4>1
      <4>2. CASE m \in 1 .. l
        BY <2>1, <2>7, <3>1, <3>3, <4>2
      <4>3. QED BY <4>1, <4>2
    <3>7. nxt # Done => \A m \in 1 .. l + 1 : drawn'[m][1] < First(nxt)
      <4> SUFFICES ASSUME nxt # Done, NEW m \in 1 .. l + 1
                   PROVE  drawn'[m][1] < First(nxt)
        OBVIOUS
      <4>1. CASE m = l + 1
        BY <2>1, <2>7, <2>8, <3>1, <3>3, <4>1
      <4>2. CASE m \in 1 .. l
        BY <2>7, <3>1, <3>3, <4>2
      <4>3. QED BY <4>1, <4>2
    <3>8. /\ \A m, n \in 1 .. Len(drawn') : m < n => Less(drawn'[m], drawn'[n])
          /\ \A m \in 1 .. Len(drawn'), i \in pos' + 1 .. Len(buf') : Less(drawn'[m], buf'[i])
          /\ \A i, j \in 1 .. Len(buf') : i < j => Less(buf'[i], buf'[j])
      BY <2>1, <2>7, <3>2, <3>3, <3>5, <3>6
    <3>9. nxt # Done => /\ \A m \in 1 .. Len(drawn') : drawn'[m][1] < First(nxt)
                        /\ \A i \in 1 .. Len(buf') : buf'[i][1] < First(nxt)
      BY <2>1, <2>7, <3>3, <3>7
    <3>10. QED
      BY <2>4, <3>4, <3>8, <3>9 DEF Ordered, Less
  <2>9. CASE Len(Items(d)) = 0
    <3>1. pos' = 0 /\ drawn' = drawn /\ fetching' = [fetching EXCEPT ![t] = Advance(d)]
      BY <1>4, <2>0, <2>9, PageCame
    <3>2. \A u \in Tasks : fetching'[u] = IF u = t THEN next' ELSE Idle
      BY <2>1, <2>2, <3>1 DEF PageTypes
    <3>3. Len(buf') = 0 /\ \A m, n \in 1 .. Len(drawn) : m < n => Less(drawn[m], drawn[n])
      BY <1>2, <2>1, <2>9
    <3>4. QED
      BY <2>4, <2>7, <3>1, <3>2, <3>3 DEF Ordered, Less
  <2>10. QED
    BY <2>1, <2>8, <2>9
<1>5. ASSUME NEW t \in Tasks, FetchFails(t) PROVE Ordered'
  <2>1. /\ UNCHANGED <<kind, start, end, entries, next, buf, pos, drawn, overlap>>
        /\ \A u \in Tasks : fetching'[u] = fetching[u] \/ fetching'[u] = Idle
    BY <1>5 DEF FetchFails, PageTypes
  <2>2. PICK nxt : nxt = next /\ nxt = next' /\ First(nxt)' = First(nxt)
    BY <2>1, CalendarStays
  <2>3. QED
    BY <1>2, <2>1, <2>2 DEF Ordered, Less
<1>6. CASE UNCHANGED pageVars
  <2>1. UNCHANGED <<kind, start, end, entries, next, buf, pos, drawn, overlap, fetching>>
    BY <1>6 DEF pageVars
  <2>2. PICK nxt : nxt = next /\ nxt = next' /\ First(nxt)' = First(nxt)
    BY <2>1, CalendarStays
  <2>3. QED
    BY <1>2, <2>1, <2>2 DEF Ordered, Less
<1>7. QED
  BY <1>1, <1>3, <1>4, <1>5, <1>6 DEF PagingNext

LEMMA PageInvHolds == PagingSpec => []PageInv
<1>1. PagingInit => PageInv
  <2> SUFFICES ASSUME PagingInit PROVE PageInv
    OBVIOUS
  <2>1. /\ Len(buf) = 0 /\ Len(drawn) = 0 /\ buf \in Seq(PageItem) /\ drawn \in Seq(PageItem)
    BY DEF PagingInit
  <2>2. PageTypes
    <3>1. /\ start = 0 /\ end = 0 /\ pos = 0 /\ stopped = FALSE /\ overlap = FALSE
          /\ kind = "none" /\ next = Done /\ entries = [w \in Weeks |-> 0]
      BY DEF PagingInit
    <3>2. /\ start \in Days /\ end \in Days /\ entries \in [Weeks -> Nat]
          /\ pos \in 0 .. Len(buf) /\ {stopped, overlap} \subseteq BOOLEAN
      <4>1. start \in Days /\ end \in Days /\ pos \in 0 .. Len(buf)
        BY <2>1, <3>1, DaysFacts
      <4>2. entries \in [Weeks -> Nat]
        BY <3>1
      <4>3. {stopped, overlap} \subseteq BOOLEAN
        BY <3>1
      <4>4. QED BY <4>1, <4>2, <4>3
    <3>3. fetching \in [Tasks -> {Idle}]
      BY DEF PagingInit
    <3>4. fetching \in [Tasks -> Nat \cup {Idle}] /\ fetching \in [Tasks -> Days \cup {Idle}]
      BY <3>3
    <3>5. QED BY <2>1, <3>1, <3>2, <3>4 DEF PageTypes, PagingTypeOK
  <2>3. NoGap
    BY <2>1 DEF PagingInit, NoGap, NothingSkipped
  <2>4. Ordered
    BY <2>1 DEF PagingInit, Ordered
  <2>5. QED BY <2>2, <2>3, <2>4 DEF PageInv
<1>2. PageInv /\ [PagingNext]_pageVars => PageInv'
  BY PageTypesPreserved, NoGapPreserved, OrderedPreserved DEF PageInv
<1>3. QED
  BY <1>1, <1>2, PTL DEF PagingSpec

\* Every variable of the iterator has its type, and _next and every page asked for stay in
\* the calendar (iterator.py:46).
THEOREM PagingTyped == PagingSpec => []PagingTypeOK
BY PageInvHolds, PTL DEF PageInv, PageTypes

\* However many tasks draw on an iterator, whatever fetches fail or come late: the items of
\* all pages before one that is asked for have been drawn, and nobody is told that there is
\* no more before all of the range has been drawn.
THEOREM NothingIsSkipped == PagingSpec => []NothingSkipped
BY PageInvHolds, PTL DEF PageInv, NoGap

\* As long as no two fetches overlap, the items are drawn in the order of the calendar,
\* each of them once.
THEOREM DrawnInOrder == PagingSpec => []InOrderAlone
<1>1. Ordered => InOrderAlone
  BY DEF Ordered, InOrderAlone, Less
<1>2. QED
  BY <1>1, PageInvHolds, PTL DEF PageInv

-------------------------------------------------------------------------------
(* Orders: selecting positions. *)

LEMMA FiniteIn ==
  ASSUME NEW L \in Nat, NEW P \in SUBSET (1 .. L)
  PROVE  IsFiniteSet(P) /\ Cardinality(P) \in Nat
<1>1. IsFiniteSet(1 .. L)
  BY FS_Interval
<1>2. QED
  BY <1>1, FS_Subset, FS_CardinalityType

\* Every position has a rank of its own.
LEMMA RankIsOneToOne ==
  ASSUME NEW L \in Nat, NEW P \in SUBSET (1 .. L)
  PROVE  /\ \A n \in P : Rank(n, P) \in 1 .. Cardinality(P)
         /\ \A m, n \in P : Rank(m, P) = Rank(n, P) => m = n
<1>1. IsFiniteSet(P) /\ Cardinality(P) \in Nat
  BY FiniteIn
<1>2. ASSUME NEW n \in P
      PROVE  Rank(n, P) \in 1 .. Cardinality(P)
  <2> DEFINE A == {m \in P : m <= n}
  <2>1. A \in SUBSET P /\ n \in A
    OBVIOUS
  <2>2. IsFiniteSet(A) /\ Cardinality(A) <= Cardinality(P) /\ Cardinality(A) \in Nat
    BY <1>1, <2>1, FS_Subset, FS_CardinalityType
  <2>3. Cardinality(A) # 0
    BY <2>1, <2>2, FS_EmptySet
  <2>4. Rank(n, P) = Cardinality(A)
    BY DEF Rank
  <2> HIDE DEF A
  <2>5. QED
    BY <1>1, <2>2, <2>3, <2>4
<1>3. ASSUME NEW m \in P, NEW n \in P, m < n
      PROVE  Rank(m, P) # Rank(n, P)
  <2> DEFINE A == {k \in P : k <= m}
             B == {k \in P : k <= n}
  <2>0. m \in Nat /\ n \in Nat /\ \A k \in P : k \in Nat
    OBVIOUS
  <2>1. A \in SUBSET B /\ n \in B /\ n \notin A
    <3>1. \A k \in P : k <= m => k <= n
      BY <1>3, <2>0
    <3>2. ~ (n <= m)
      BY <1>3, <2>0
    <3>3. n <= n
      BY <2>0
    <3>4. A \in SUBSET B
      BY <3>1
    <3>5. n \in B /\ n \notin A
      BY <3>2, <3>3
    <3>6. QED
      BY <3>4, <3>5
  <2>2. B \in SUBSET P
    OBVIOUS
  <2>3. IsFiniteSet(B)
    BY <1>1, <2>2, FS_Subset
  <2>4. Cardinality(A) # Cardinality(B)
    BY <2>1, <2>3, FS_Subset
  <2>5. QED
    BY <2>4 DEF Rank
<1>4. \A m, n \in P : Rank(m, P) = Rank(n, P) => m = n
  <2>1. \A m, n \in P : m = n \/ m < n \/ n < m
    OBVIOUS
  <2>2. QED
    BY <1>3, <2>1
<1>5. QED
  BY <1>2, <1>4

\* Every rank up to the number of positions is that of a position.
LEMMA RankOnto ==
  ASSUME NEW L \in Nat, NEW P \in SUBSET (1 .. L), NEW r \in 1 .. Cardinality(P)
  PROVE  \E n \in P : Rank(n, P) = r
<1> DEFINE f == [n \in P |-> Rank(n, P)]
           T == 1 .. Cardinality(P)
<1>1. IsFiniteSet(P) /\ Cardinality(P) \in Nat
  BY FiniteIn
<1>2. /\ \A n \in P : Rank(n, P) \in T
      /\ \A m, n \in P : f[m] = f[n] => m = n
  BY RankIsOneToOne
<1>3. f \in [P -> T]
  BY <1>2
<1> HIDE DEF f
<1>4. f \in Injection(P, T)
  BY <1>2, <1>3, Fun_IsInj
<1>5. IsFiniteSet(T) /\ Cardinality(T) = Cardinality(P)
  BY <1>1, FS_Interval
<1>6. f \in Surjection(P, T)
  BY <1>4, <1>5, FS_Injection
<1>7. PICK n \in P : f[n] = r
  <2>1. \A t \in T : \E s \in P : f[s] = t
    BY <1>6 DEF Surjection
  <2>2. QED
    BY <2>1
<1>8. QED
  BY <1>7 DEF f

\* What is selected is what stands at the positions, all of it.
LEMMA SelectedFacts ==
  ASSUME NEW S, NEW list \in Seq(S), NEW P \in SUBSET (1 .. Len(list))
  PROVE  /\ Selected(list, P) \in Seq(S)
         /\ \A r \in 1 .. Len(Selected(list, P)) : \E n \in P : Selected(list, P)[r] = list[n]
         /\ \A n \in P : \E r \in 1 .. Len(Selected(list, P)) : Selected(list, P)[r] = list[n]
         /\ Selected(list, P) = << >> => P = {}
<1>1. Len(list) \in Nat /\ IsFiniteSet(P) /\ Cardinality(P) \in Nat
  BY FiniteIn, LenProperties
<1> DEFINE c == Cardinality(P)
           s == [r \in 1 .. c |-> list[CHOOSE n \in P : Rank(n, P) = r]]
<1>2. ASSUME NEW r \in 1 .. c
      PROVE  \E n \in P : s[r] = list[n]
  <2>1. \E n \in P : Rank(n, P) = r
    BY <1>1, RankOnto
  <2>2. (CHOOSE n \in P : Rank(n, P) = r) \in P
    BY <2>1
  <2>3. QED
    BY <2>2
<1>3. \A r \in 1 .. c : s[r] \in S
  <2>1. \A n \in P : list[n] \in S
    BY ElementOfSeq
  <2>2. QED
    BY <1>2, <2>1
<1>4. s \in [1 .. c -> S]
  BY <1>3
<1>5. s = Selected(list, P)
  BY DEF Selected
<1> HIDE DEF s
<1>6. s \in Seq(S) /\ Len(s) = c
  BY <1>1, <1>4, SeqDef
<1>7. s = << >> => P = {}
  BY <1>1, <1>6, FS_EmptySet, EmptySeq
<1>8. \A n \in P : \E r \in 1 .. c : s[r] = list[n]
  <2> SUFFICES ASSUME NEW n \in P PROVE \E r \in 1 .. c : s[r] = list[n]
    OBVIOUS
  <2>1. /\ Rank(n, P) \in 1 .. c
        /\ \A m \in P : Rank(m, P) = Rank(n, P) => m = n
    BY <1>1, RankIsOneToOne
  <2>2. (CHOOSE m \in P : Rank(m, P) = Rank(n, P)) = n
    BY <2>1
  <2>3. QED
    BY <2>1, <2>2 DEF s
<1>9. QED
  BY <1>2, <1>5, <1>6, <1>7, <1>8

\* A nonempty set of positions has a last one.
LEMMA LastPosition ==
  ASSUME NEW L \in Nat, NEW P \in SUBSET (1 .. L), P # {}
  PROVE  \E n \in P : \A m \in P : m <= n
<1>1. IsFiniteSet(P) /\ Cardinality(P) \in Nat /\ Cardinality(P) # 0
  BY FiniteIn, FS_EmptySet
<1>2. Cardinality(P) \in 1 .. Cardinality(P)
  BY <1>1
<1>3. PICK n \in P : Rank(n, P) = Cardinality(P)
  BY <1>2, RankOnto
<1>4. {m \in P : m <= n} = P
  <2>1. {m \in P : m <= n} \in SUBSET P
    OBVIOUS
  <2>2. Cardinality(P) = Cardinality({m \in P : m <= n})
    BY <1>3 DEF Rank
  <2>3. QED
    BY <1>1, <2>1, <2>2, FS_Subset
<1>5. QED
  BY <1>4

-------------------------------------------------------------------------------
(* Watchers: the thread a watcher keeps between its snapshot and its cache. *)

\* A map from keys to items holds each item under its own key.
Keyed(f) == \A k \in DOMAIN f : f[k] \in Item /\ Key(f[k]) = k

\* f has an item of S for every key of one, and no others.
Of(f, S) == (\A k \in DOMAIN f : f[k] \in S) /\ (\A i \in S : Key(i) \in DOMAIN f)

\* f has all that g has.
Covers(f, g) == DOMAIN g \subseteq DOMAIN f /\ \A k \in DOMAIN g : f[k] = g[k]

\* The records that are told.
WatchEvent == [what : {"NewMark", "MarkChanged", "NewHomework", "added", "cancelled",
                       "teacher", "room", "moved", "New"}, item : Item]

WatchTypes ==
  /\ watcher \in Kinds \cup {"none"}
  /\ at \in {"none", "poll", "compute", "announce", "backoff", "sleep"}
  /\ cut \in BOOLEAN
  /\ items \in Seq(Item) /\ todo \in Seq(Item) /\ told \in Seq(WatchEvent)
  /\ Keyed(snapshot) /\ Keyed(cache) /\ Keyed(pending) /\ Keyed(old)
  /\ listed \subseteq Item /\ earlier \subseteq Item

\* The snapshot is that of the list last seen, the old one of the list before; what
\* waits to be told differs from the old snapshot; a mark is in the cache that poll()
\* filled; the cache of the schedule has the lessons of the last snapshot until the delta
\* was told, and then takes over those of the new one.
Thread ==
  /\ watcher = "none" =>
       /\ at = "none"
       /\ DOMAIN snapshot = {} /\ DOMAIN cache = {} /\ DOMAIN pending = {} /\ DOMAIN old = {}
       /\ listed = {} /\ earlier = {}
  /\ Of(snapshot, listed) /\ (at = "announce" => Of(old, earlier))
  /\ at # "announce" => told = << >> /\ todo = << >>
  /\ at = "announce" =>
       \A n \in 1 .. Len(todo) : Key(todo[n]) \in DOMAIN old => old[Key(todo[n])] # todo[n]
  /\ watcher = "mark" /\ at = "compute" =>
       \A n \in 1 .. Len(items) : Key(items[n]) \in DOMAIN cache
  /\ watcher = "mark" /\ at = "announce" =>
       \A n \in 1 .. Len(todo) : Key(todo[n]) \in DOMAIN cache
  /\ watcher = "schedule" /\ ~cut =>
       /\ at = "compute" => pending = ByKey(items)
       /\ at = "announce" => pending = snapshot /\ Covers(cache, old)
       /\ at # "announce" => Covers(cache, snapshot)
  /\ EventsTellTheChange

LEMMA ByKeyFacts ==
  ASSUME NEW list \in Seq(Item)
  PROVE  /\ DOMAIN ByKey(list) = {Key(list[n]) : n \in 1 .. Len(list)}
         /\ \A k \in DOMAIN ByKey(list) :
              /\ \E n \in 1 .. Len(list) : ByKey(list)[k] = list[n] /\ Key(list[n]) = k
              /\ ByKey(list)[k] \in Item /\ Key(ByKey(list)[k]) = k
<1>1. DOMAIN ByKey(list) = {Key(list[n]) : n \in 1 .. Len(list)}
  BY DEF ByKey
<1>2. ASSUME NEW k \in DOMAIN ByKey(list)
      PROVE  \E n \in 1 .. Len(list) : ByKey(list)[k] = list[n] /\ Key(list[n]) = k
  <2> DEFINE P == {n \in 1 .. Len(list) : Key(list[n]) = k}
  <2>1. P # {} /\ Len(list) \in Nat
    BY <1>1, LenProperties
  <2>2. PICK n \in P : \A m \in P : m <= n
    BY <2>1, LastPosition
  <2>3. n \in P /\ \A m \in P : n >= m
    BY <2>2
  <2>4. Latest(list, k) \in P
    <3>1. Latest(list, k) = Max(P)
      BY DEF Latest
    <3> HIDE DEF P
    <3>2. QED
      BY <2>3, <3>1 DEF Max
  <2>5. ByKey(list)[k] = list[Latest(list, k)]
    BY <1>1 DEF ByKey
  <2>6. QED
    BY <2>4, <2>5
<1>3. \A n \in 1 .. Len(list) : list[n] \in Item
  BY ElementOfSeq
<1>4. QED
  BY <1>1, <1>2, <1>3

\* What a poll returns are items of the list.
LEMMA PolledFacts ==
  ASSUME NEW list \in Seq(Item)
  PROVE  Polled(list) \in Seq(Item) /\ (watcher # "homework" => Polled(list) = list)
<1> DEFINE P == {n \in 1 .. Len(list) : list[n].a # Absent}
<1>1. P \in SUBSET (1 .. Len(list))
  OBVIOUS
<1> HIDE DEF P
<1>2. Selected(list, P) \in Seq(Item)
  BY <1>1, SelectedFacts
<1>3. QED
  BY <1>2 DEF Polled, P

\* The delta of a list against the snapshot.
LEMMA DeltaFacts ==
  ASSUME NEW list \in Seq(Item)
  PROVE  LET d == Added(list) \o Changed(list)
         IN  /\ d \in Seq(Item)
             /\ \A r \in 1 .. Len(d) :
                  /\ \E n \in 1 .. Len(list) : d[r] = list[n]
                  /\ Key(d[r]) \in DOMAIN snapshot => snapshot[Key(d[r])] # d[r]
             /\ \A n \in 1 .. Len(list) :
                  \/ Key(list[n]) \in DOMAIN snapshot /\ snapshot[Key(list[n])] = list[n]
                  \/ \E r \in 1 .. Len(d) : d[r] = list[n]
<1> DEFINE P == {n \in 1 .. Len(list) : Key(list[n]) \notin DOMAIN snapshot}
           Q == {n \in 1 .. Len(list) : /\ Key(list[n]) \in DOMAIN snapshot
                                        /\ snapshot[Key(list[n])] # list[n]}
           a == Added(list)
           c == Changed(list)
           d == a \o c
<1>1. P \in SUBSET (1 .. Len(list)) /\ Q \in SUBSET (1 .. Len(list))
  OBVIOUS
<1>2. a = Selected(list, P) /\ c = Selected(list, Q)
  BY DEF Added, Changed
<1>3. /\ \A n \in P : n \in 1 .. Len(list) /\ Key(list[n]) \notin DOMAIN snapshot
      /\ \A n \in Q : /\ n \in 1 .. Len(list)
                      /\ Key(list[n]) \in DOMAIN snapshot => snapshot[Key(list[n])] # list[n]
      /\ \A n \in 1 .. Len(list) :
           \/ Key(list[n]) \in DOMAIN snapshot /\ snapshot[Key(list[n])] = list[n]
           \/ n \in P \/ n \in Q
  OBVIOUS
<1> HIDE DEF P, Q, a, c
<1>4. /\ a \in Seq(Item) /\ \A n \in P : \E r \in 1 .. Len(a) : a[r] = list[n]
      /\ \A r \in 1 .. Len(a) : \E n \in P : a[r] = list[n]
  <2>1. /\ Selected(list, P) \in Seq(Item)
        /\ \A r \in 1 .. Len(Selected(list, P)) : \E n \in P : Selected(list, P)[r] = list[n]
        /\ \A n \in P : \E r \in 1 .. Len(Selected(list, P)) : Selected(list, P)[r] = list[n]
    BY <1>1, SelectedFacts
  <2>2. QED
    BY <1>2, <2>1
<1>5. /\ c \in Seq(Item) /\ \A n \in Q : \E r \in 1 .. Len(c) : c[r] = list[n]
      /\ \A r \in 1 .. Len(c) : \E n \in Q : c[r] = list[n]
  <2>1. /\ Selected(list, Q) \in Seq(Item)
        /\ \A r \in 1 .. Len(Selected(list, Q)) : \E n \in Q : Selected(list, Q)[r] = list[n]
        /\ \A n \in Q : \E r \in 1 .. Len(Selected(list, Q)) : Selected(list, Q)[r] = list[n]
    BY <1>1, SelectedFacts
  <2>2. QED
    BY <1>2, <2>1
<1>6. /\ d \in Seq(Item) /\ Len(d) = Len(a) + Len(c) /\ Len(a) \in Nat /\ Len(c) \in Nat
      /\ \A r \in 1 .. Len(a) + Len(c) : d[r] = IF r <= Len(a) THEN a[r] ELSE c[r - Len(a)]
  BY <1>4, <1>5, ConcatProperties, LenProperties
<1>7. ASSUME NEW r \in 1 .. Len(d)
      PROVE  /\ \E n \in 1 .. Len(list) : d[r] = list[n]
             /\ Key(d[r]) \in DOMAIN snapshot => snapshot[Key(d[r])] # d[r]
  <2>1. CASE r <= Len(a)
    <3>1. r \in 1 .. Len(a) /\ d[r] = a[r]
      BY <1>6, <2>1
    <3>2. QED
      BY <1>3, <1>4, <3>1
  <2>2. CASE r > Len(a)
    <3>1. r - Len(a) \in 1 .. Len(c) /\ d[r] = c[r - Len(a)]
      BY <1>6, <2>2
    <3>2. PICK n \in Q : c[r - Len(a)] = list[n]
      BY <1>5, <3>1
    <3>3. QED
      BY <1>3, <3>1, <3>2
  <2>3. QED BY <1>6, <2>1, <2>2
<1>8. ASSUME NEW n \in P \cup Q
      PROVE  \E r \in 1 .. Len(d) : d[r] = list[n]
  <2>1. CASE n \in P
    <3>1. PICK r \in 1 .. Len(a) : a[r] = list[n]
      BY <1>4, <2>1
    <3>2. r \in 1 .. Len(d) /\ d[r] = a[r]
      BY <1>6
    <3>3. QED
      BY <3>1, <3>2
  <2>2. CASE n \in Q
    <3>1. PICK r \in 1 .. Len(c) : c[r] = list[n]
      BY <1>5, <2>2
    <3>2. Len(a) + r \in 1 .. Len(d) /\ d[Len(a) + r] = c[r]
      BY <1>6
    <3>3. QED
      BY <3>1, <3>2
  <2>3. QED BY <2>1, <2>2
<1> HIDE DEF d
<1>9. QED
  BY <1>3, <1>6, <1>7, <1>8 DEF a, c, d

\* An event tells how its item differs from the old snapshot's of that key.
Differs(e) ==
  LET was == old[Key(e.item)]
  IN  IF Key(e.item) \notin DOMAIN old
      THEN e.what \in {"NewMark", "NewHomework", "added", "New"}
      ELSE /\ was # e.item
           /\ e.what \in {"MarkChanged", "NewHomework", "cancelled", "teacher", "room",
                          "moved"}
           /\ e.what = "cancelled" <=> watcher = "schedule" /\ was.a # Absent
                                         /\ e.item.a = Absent
           /\ e.what = "teacher" => was.b # e.item.b
           /\ e.what = "room" => was.c # e.item.c

\* What differs from the snapshot of a list tells what has happened since that list.
LEMMA DiffersTells ==
  ASSUME Of(old, earlier), Keyed(old), NEW e, Differs(e)
  PROVE  Tells(e)
<1>1. CASE Key(e.item) \notin DOMAIN old
  <2>1. \A i \in earlier : Key(i) # Key(e.item)
    BY <1>1 DEF Of
  <2>2. QED
    BY <1>1, <2>1 DEF Differs, Tells
<1>2. CASE Key(e.item) \in DOMAIN old
  <2>1. PICK was : was = old[Key(e.item)]
    OBVIOUS
  <2>2. was \in earlier /\ Key(was) = Key(e.item)
    BY <1>2, <2>1 DEF Of, Keyed
  <2>3. QED
    BY <1>2, <2>1, <2>2 DEF Differs, Tells
<1>3. QED
  BY <1>1, <1>2

\* An item becomes one event or none, and the event tells its change; none becomes of a
\* slot or a notification that was there.
LEMMA EventFacts ==
  ASSUME NEW i \in Item,
         Key(i) \in DOMAIN old => old[Key(i)] # i,
         watcher = "mark" => Key(i) \in DOMAIN cache,
         watcher = "schedule" /\ ~cut => Covers(cache, old),
         watcher \in Kinds
  PROVE  \/ /\ EventOf(i) = << >>
            /\ watcher \in {"reception", "notification"} /\ Key(i) \in DOMAIN old
         \/ \E e \in WatchEvent : /\ EventOf(i) = <<e>> /\ e.item = i
                                  /\ ~cut => Differs(e)
<1> DEFINE new == Key(i) \notin DOMAIN old
           e(w) == [what |-> w, item |-> i]
<1>0. \A w \in {"NewMark", "MarkChanged", "NewHomework", "added", "cancelled",
                "teacher", "room", "moved", "New"} :
        e(w) \in WatchEvent /\ e(w).what = w /\ e(w).item = i
  BY DEF WatchEvent
<1>1. CASE watcher = "mark"
  <2> DEFINE w == IF new THEN "NewMark" ELSE "MarkChanged"
  <2>1. EventOf(i) = <<e(w)>>
    BY <1>1 DEF EventOf, Event
  <2>2. Differs(e(w))
    BY <1>0, <1>1 DEF Differs
  <2>3. e(w) \in WatchEvent /\ e(w).item = i
    BY <1>0
  <2>4. QED
    BY <2>1, <2>2, <2>3
<1>2. CASE watcher = "homework"
  <2>1. EventOf(i) = <<e("NewHomework")>>
    BY <1>2 DEF EventOf, Event
  <2>2. Differs(e("NewHomework"))
    BY <1>0, <1>2 DEF Differs
  <2>3. QED
    BY <1>0, <2>1, <2>2
<1>3. CASE watcher = "schedule"
  <2>1. CASE new
    <3>1. EventOf(i) = <<e("added")>>
      BY <1>3, <2>1 DEF EventOf, Event
    <3>2. Differs(e("added"))
      BY <1>0, <1>3, <2>1 DEF Differs
    <3>3. QED
      BY <1>0, <3>1, <3>2
  <2>2. CASE ~new /\ Key(i) \notin DOMAIN cache
    <3>1. EventOf(i) = <<e("moved")>>
      BY <1>3, <2>2 DEF EventOf, Event
    <3>2. cut
      BY <1>3, <2>2 DEF Covers
    <3>3. QED
      BY <1>0, <3>1, <3>2
  <2>3. CASE ~new /\ Key(i) \in DOMAIN cache
    <3> DEFINE before == cache[Key(i)]
               w == Classify(before, i)
    <3>1. EventOf(i) = <<e(w)>>
      BY <1>3, <2>3 DEF EventOf, Event
    <3>2. w \in {"cancelled", "teacher", "room", "moved"}
      BY DEF Classify
    <3>3. /\ w = "cancelled" <=> i.a = Absent /\ before.a # Absent
          /\ w = "teacher" => i.b # before.b
          /\ w = "room" => i.c # before.c
      BY DEF Classify
    <3>4. ~cut => old[Key(i)] = before
      BY <1>3, <2>3 DEF Covers
    <3> HIDE DEF w, before
    <3>5. e(w) \in WatchEvent /\ e(w).what = w /\ e(w).item = i
      BY <1>0, <3>2
    <3>6. ASSUME ~cut PROVE Differs(e(w))
      BY <1>3, <2>3, <3>2, <3>3, <3>4, <3>5, <3>6 DEF Differs
    <3>7. QED
      BY <3>1, <3>5, <3>6
  <2>4. QED
    BY <2>1, <2>2, <2>3
<1>4. CASE watcher \notin {"mark", "homework", "schedule"}
  <2>1. EventOf(i) = IF new THEN <<e("New")>> ELSE << >>
    BY <1>4 DEF EventOf, Event
  <2>2. new => Differs(e("New"))
    BY <1>0 DEF Differs
  <2>3. watcher \in {"reception", "notification"}
    BY <1>4 DEF Kinds
  <2>4. QED
    BY <1>0, <2>1, <2>2, <2>3
<1>5. QED
  BY <1>1, <1>2, <1>3, <1>4

\* The lists a poll is given are lists of items.
LEMMA ListsAreItems == \A w : Lists(w) \subseteq Seq(Item)
<1> SUFFICES ASSUME NEW w, NEW list \in Lists(w) PROVE list \in Seq(Item)
  OBVIOUS
<1> DEFINE I == {i \in Item : /\ w # "schedule" => i.c = Absent
                              /\ w \in {"reception", "notification"} => i.b = Absent}
<1>1. list \in BoundedSeq(I, MaxItems)
  BY DEF Lists
<1>2. I \subseteq Item
  OBVIOUS
<1> HIDE DEF I
<1>3. PICK n \in 0 .. MaxItems : list \in [1 .. n -> I]
  BY <1>1 DEF BoundedSeq, SeqOf
<1>4. n \in Nat /\ list \in [1 .. n -> Item]
  BY <1>2, <1>3, WatchersAssumption
<1>5. QED
  BY <1>4, SeqDef

-------------------------------------------------------------------------------
(* Watchers: every step keeps the thread. *)

\* What no step of this watcher changes is worth the same after it.
LEMMA Rigid ==
  watcher' = watcher =>
    /\ \A i : Key(i)' = Key(i)
    /\ \A f : Keyed(f)' = Keyed(f)
    /\ \A list : ByKey(list)' = ByKey(list)
    /\ earlier' = earlier => \A e : Tells(e)' = Tells(e)
<1> SUFFICES ASSUME watcher' = watcher
             PROVE  /\ \A i : Key(i)' = Key(i)
                    /\ \A f : Keyed(f)' = Keyed(f)
                    /\ \A list : ByKey(list)' = ByKey(list)
                    /\ earlier' = earlier => \A e : Tells(e)' = Tells(e)
  OBVIOUS
<1>1. \A i : Key(i)' = Key(i)
  BY DEF Key
<1>2. \A f : Keyed(f)' = Keyed(f)
  BY DEF Keyed, Key
<1>3. \A list : ByKey(list)' = ByKey(list)
  BY DEF ByKey, Latest, Key
<1>4. earlier' = earlier => \A e : Tells(e)' = Tells(e)
  BY DEF Tells, Key
<1>5. QED
  BY <1>1, <1>2, <1>3, <1>4

\* What an event tells while the list before stays, it tells after the step.
LEMMA Retold ==
  ASSUME watcher' = watcher, earlier' = earlier
  PROVE  \A n : Tells(told'[n]) => Tells(told[n])'
<1> SUFFICES ASSUME NEW n, Tells(told'[n]) PROVE Tells(told[n])'
  OBVIOUS
<1>1. QED
  BY DEF Tells, Key

LEMMA PollStays ==
  ASSUME WatchTypes, Thread, NEW list \in Seq(Item), Poll(list)
  PROVE  WatchTypes' /\ Thread'
<1>1. /\ at = "poll" /\ at' = "compute" /\ items' = Polled(list)
      /\ cache' = IF watcher = "mark" THEN ByKey(list) ELSE cache
      /\ pending' = IF watcher = "schedule" THEN ByKey(list) ELSE pending
      /\ watcher' = watcher /\ snapshot' = snapshot /\ todo' = todo /\ old' = old
      /\ told' = told /\ cut' = cut /\ listed' = listed /\ earlier' = earlier
  BY DEF Poll
<1>2. Polled(list) \in Seq(Item) /\ (watcher # "homework" => Polled(list) = list)
  BY PolledFacts
<1>3. Keyed(ByKey(list)) /\ DOMAIN ByKey(list) = {Key(list[n]) : n \in 1 .. Len(list)}
  BY ByKeyFacts DEF Keyed
<1>4. PICK c, p : c = cache' /\ p = pending'
  OBVIOUS
<1>5. Keyed(c) /\ Keyed(p)
  BY <1>1, <1>3, <1>4 DEF WatchTypes
<1>6. WatchTypes'
  BY <1>1, <1>2, <1>4, <1>5 DEF WatchTypes, Keyed, Key
<1>7. told = << >> /\ todo = << >>
  BY <1>1 DEF Thread
<1>8. EventsTellTheChange'
  <2>1. Len(told') = 0
    BY <1>1, <1>7, EmptySeq
  <2>2. QED
    BY <1>1, <2>1 DEF EventsTellTheChange
<1>9. watcher # "none"
  BY <1>1 DEF Thread
<1>10. watcher = "mark" => \A n \in 1 .. Len(items') : Key(items'[n]) \in DOMAIN cache'
  BY <1>1, <1>2, <1>3
<1>11. watcher = "schedule" => pending' = ByKey(items') /\ cache' = cache
  BY <1>1, <1>2
<1>12. Of(snapshot, listed)'
  BY <1>1 DEF Thread, Of, Key
<1>13. QED
  BY <1>1, <1>6, <1>7, <1>8, <1>9, <1>10, <1>11, <1>12, Rigid DEF Thread, ByKey, Key, Latest

LEMMA ComputeStays ==
  ASSUME WatchTypes, Thread, Compute
  PROVE  WatchTypes' /\ Thread'
<1> DEFINE d == Added(items) \o Changed(items)
<1>1. /\ at = "compute" /\ old' = snapshot /\ snapshot' = ByKey(items) /\ items' = << >>
      /\ todo' = d /\ at' = IF todo' = << >> THEN "sleep" ELSE "announce"
      /\ watcher' = watcher /\ cache' = cache /\ pending' = pending /\ told' = told /\ cut' = cut
      /\ earlier' = listed /\ listed' = ToSet(items)
  BY DEF Compute
<1>2. items \in Seq(Item)
  BY DEF WatchTypes
<1>3. /\ d \in Seq(Item)
      /\ \A r \in 1 .. Len(d) :
           /\ \E n \in 1 .. Len(items) : d[r] = items[n]
           /\ Key(d[r]) \in DOMAIN snapshot => snapshot[Key(d[r])] # d[r]
      /\ \A n \in 1 .. Len(items) :
           \/ Key(items[n]) \in DOMAIN snapshot /\ snapshot[Key(items[n])] = items[n]
           \/ \E r \in 1 .. Len(d) : d[r] = items[n]
  BY <1>2, DeltaFacts
<1>4. Keyed(ByKey(items)) /\ DOMAIN ByKey(items) = {Key(items[n]) : n \in 1 .. Len(items)}
  BY <1>2, ByKeyFacts DEF Keyed
<1>5. /\ ToSet(items) = {items[n] : n \in 1 .. Len(items)}
       /\ ToSet(items) \subseteq Item /\ ToSet(d) = {d[r] : r \in 1 .. Len(d)}
  <2>1. DOMAIN items = 1 .. Len(items) /\ DOMAIN d = 1 .. Len(d)
    BY <1>2, <1>3, LenProperties
  <2>2. \A n \in 1 .. Len(items) : items[n] \in Item
    BY <1>2, ElementOfSeq
  <2> HIDE DEF d
  <2>3. QED
    BY <2>1, <2>2 DEF ToSet
<1> HIDE DEF d
<1>6. WatchTypes'
  <2>1. PICK s : s = snapshot'
    OBVIOUS
  <2>2. Keyed(s)
    BY <1>1, <1>4, <2>1
  <2>3. << >> \in Seq(Item)
    OBVIOUS
  <2>4. QED
    BY <1>1, <1>3, <1>5, <2>1, <2>2, <2>3 DEF WatchTypes, Keyed, Key
<1>7. told = << >>
  BY <1>1 DEF Thread
<1>8. Of(ByKey(items), ToSet(items)) /\ Of(snapshot, listed)
  <2>1. \A k \in DOMAIN ByKey(items) : \E n \in 1 .. Len(items) : ByKey(items)[k] = items[n]
    BY <1>2, ByKeyFacts
  <2>2. QED
    BY <1>4, <1>5, <2>1 DEF Of, Thread
<1>9. EventsTellTheChange'
  <2>1. Len(told') = 0
    BY <1>1, <1>7, EmptySeq
  <2>2. \A i \in ToSet(items) \ listed : i \in ToSet(d)
    BY <1>3, <1>5, <1>8 DEF Of
  <2>3. \A i \in listed' \ earlier' : i \in ToSet(todo')
    BY <1>1, <2>2
  <2>4. QED
    BY <2>1, <2>3 DEF EventsTellTheChange, ToldOrTodo
<1>10. watcher # "none"
  BY <1>1 DEF Thread
<1>11. ASSUME watcher = "mark"
      PROVE  \A n \in 1 .. Len(todo') : Key(todo'[n]) \in DOMAIN cache'
  <2>1. \A n \in 1 .. Len(items) : Key(items[n]) \in DOMAIN cache
    BY <1>1, <1>11 DEF Thread
  <2>2. QED
    BY <1>1, <1>3, <2>1
<1>12. ASSUME watcher = "schedule", ~cut
       PROVE  /\ at' = "announce" => pending' = snapshot' /\ Covers(cache', old')
              /\ at' # "announce" => Covers(cache', snapshot')
  <2>1. pending = ByKey(items) /\ Covers(cache, snapshot)
    BY <1>1, <1>12 DEF Thread
  <2>2. ASSUME d = << >>
        PROVE  Covers(snapshot, ByKey(items))
    <3>1. \A n \in 1 .. Len(items) :
            Key(items[n]) \in DOMAIN snapshot /\ snapshot[Key(items[n])] = items[n]
      BY <1>3, <2>2, EmptySeq
    <3>2. \A k \in DOMAIN ByKey(items) : \E n \in 1 .. Len(items) :
            ByKey(items)[k] = items[n] /\ Key(items[n]) = k
      BY <1>2, ByKeyFacts
    <3>3. QED
      BY <3>1, <3>2 DEF Covers
  <2>3. d = << >> => Covers(cache, ByKey(items))
    BY <2>1, <2>2 DEF Covers
  <2>4. QED
    BY <1>1, <2>1, <2>3
<1>13. \A n \in 1 .. Len(todo') : Key(todo'[n]) \in DOMAIN old' => old'[Key(todo'[n])] # todo'[n]
  BY <1>1, <1>3
<1>14. at' # "announce" => told' = << >> /\ todo' = << >>
  BY <1>1, <1>7
<1>15. at' \in {"sleep", "announce"}
  BY <1>1
<1>16. Of(snapshot, listed)' /\ Of(old, earlier)'
  BY <1>1, <1>8 DEF Of, Key
<1>17. Thread'
  BY <1>1, <1>9, <1>10, <1>11, <1>12, <1>13, <1>14, <1>15, <1>16 DEF Thread, Covers, Key
<1>18. QED
  BY <1>6, <1>17

LEMMA AnnounceStays ==
  ASSUME WatchTypes, Thread, Announce
  PROVE  WatchTypes' /\ Thread'
<1> DEFINE i == Head(todo)
<1>1. /\ at = "announce" /\ todo # << >> /\ told' = told \o EventOf(i) /\ todo' = Tail(todo)
      /\ watcher' = watcher /\ at' = at /\ items' = items /\ snapshot' = snapshot
      /\ cache' = cache /\ pending' = pending /\ old' = old /\ cut' = cut
      /\ listed' = listed /\ earlier' = earlier
  BY DEF Announce
<1>2. todo \in Seq(Item) /\ told \in Seq(WatchEvent) /\ Keyed(old)
  BY DEF WatchTypes
<1>3. i \in Item /\ Tail(todo) \in Seq(Item)
  BY <1>1, <1>2, HeadTailProperties
<1>4. /\ Len(todo) \in Nat /\ Len(todo) # 0 /\ Len(Tail(todo)) = Len(todo) - 1
      /\ i = todo[1] /\ \A n \in 1 .. Len(Tail(todo)) : Tail(todo)[n] = todo[n + 1]
  BY <1>1, <1>2, HeadTailProperties, LenProperties, EmptySeq
<1>5. 1 \in 1 .. Len(todo) /\ \A n \in 1 .. Len(Tail(todo)) : n + 1 \in 1 .. Len(todo)
  BY <1>4
<1> HIDE DEF i
<1>6. /\ \A n \in 1 .. Len(todo) : Key(todo[n]) \in DOMAIN old => old[Key(todo[n])] # todo[n]
      /\ watcher = "mark" => \A n \in 1 .. Len(todo) : Key(todo[n]) \in DOMAIN cache
      /\ watcher = "schedule" /\ ~cut => pending = snapshot /\ Covers(cache, old)
      /\ EventsTellTheChange /\ Of(old, earlier) /\ Of(snapshot, listed)
  BY <1>1 DEF Thread
<1>7. /\ Key(i) \in DOMAIN old => old[Key(i)] # i
      /\ watcher = "mark" => Key(i) \in DOMAIN cache
      /\ watcher \in Kinds
  BY <1>1, <1>4, <1>5, <1>6 DEF Thread, WatchTypes
<1>8. \/ /\ EventOf(i) = << >>
         /\ watcher \in {"reception", "notification"} /\ Key(i) \in DOMAIN old
      \/ \E e \in WatchEvent : EventOf(i) = <<e>> /\ e.item = i /\ (~cut => Tells(e))
  <2>1. \/ /\ EventOf(i) = << >>
           /\ watcher \in {"reception", "notification"} /\ Key(i) \in DOMAIN old
        \/ \E e \in WatchEvent : EventOf(i) = <<e>> /\ e.item = i /\ (~cut => Differs(e))
    BY <1>3, <1>6, <1>7, EventFacts
  <2>2. \A e \in WatchEvent : Differs(e) => Tells(e)
    BY <1>2, <1>6, DiffersTells
  <2>3. QED
    BY <2>1, <2>2
<1>9. /\ told' \in Seq(WatchEvent) /\ (~cut => \A n \in 1 .. Len(told') : Tells(told'[n]))
      /\ \A n \in 1 .. Len(told) : n \in 1 .. Len(told') /\ told'[n] = told[n]
      /\ \/ watcher \in {"reception", "notification"} /\ Key(i) \in DOMAIN old
         \/ \E n \in 1 .. Len(told') : told'[n].item = i
  <2>0. ~cut => \A n \in 1 .. Len(told) : Tells(told[n])
    BY <1>6 DEF EventsTellTheChange
  <2>1. CASE /\ EventOf(i) = << >>
             /\ watcher \in {"reception", "notification"} /\ Key(i) \in DOMAIN old
    <3>1. told' = told
      BY <1>1, <1>2, <2>1, ConcatEmptySeq
    <3>2. QED
      BY <1>2, <2>0, <2>1, <3>1
  <2>2. ASSUME NEW e \in WatchEvent, EventOf(i) = <<e>>, e.item = i, ~cut => Tells(e)
        PROVE  /\ told' \in Seq(WatchEvent) /\ (~cut => \A n \in 1 .. Len(told') : Tells(told'[n]))
               /\ \A n \in 1 .. Len(told) : n \in 1 .. Len(told') /\ told'[n] = told[n]
               /\ \E n \in 1 .. Len(told') : told'[n].item = i
    <3>1. told' = Append(told, e)
      BY <1>1, <1>2, <2>2, AppendIsConcat
    <3>2. /\ Append(told, e) \in Seq(WatchEvent) /\ Len(Append(told, e)) = Len(told) + 1
          /\ \A n \in 1 .. Len(told) : Append(told, e)[n] = told[n]
          /\ Append(told, e)[Len(told) + 1] = e
      BY <1>2, AppendProperties
    <3>3. Len(told) \in Nat
      BY <1>2, LenProperties
    <3>4. /\ \A n \in 1 .. Len(told) + 1 : n \in 1 .. Len(told) \/ n = Len(told) + 1
          /\ \A n \in 1 .. Len(told) : n \in 1 .. Len(told) + 1
          /\ Len(told) + 1 \in 1 .. Len(told) + 1
      BY <3>3
    <3>5. QED
      BY <2>0, <2>2, <3>1, <3>2, <3>4
  <2>3. QED
    BY <1>8, <2>1, <2>2
<1>10. WatchTypes'
  BY <1>1, <1>3, <1>9 DEF WatchTypes, Keyed, Key
<1>11. EventsTellTheChange'
  <2>1. ~cut' => \A n \in 1 .. Len(told') : Tells(told[n])'
    BY <1>1, <1>9, Retold
  <2>2. ASSUME NEW j \in listed \ earlier
        PROVE  ToldOrTodo(j)'
    <3>1. ToldOrTodo(j)
      BY <1>1, <1>6, <2>2 DEF EventsTellTheChange
    <3>2. ASSUME j \in ToSet(todo), j # i
          PROVE  j \in ToSet(todo')
      <4>1. PICK n \in 1 .. Len(todo) : todo[n] = j
        BY <1>2, <3>2, LenProperties DEF ToSet
      <4>2. n - 1 \in 1 .. Len(Tail(todo)) /\ n = n - 1 + 1
        BY <1>4, <3>2, <4>1
      <4>3. todo'[n - 1] = j
        BY <1>1, <1>4, <4>1, <4>2
      <4>4. n - 1 \in DOMAIN todo'
        BY <1>1, <1>3, <4>2, LenProperties
      <4>5. QED
        BY <4>3, <4>4 DEF ToSet
    <3>3. ASSUME j = i, Key(i) \in DOMAIN old
          PROVE  \E was \in earlier : Key(was) = Key(j)
      BY <1>2, <1>6, <3>3 DEF Of, Keyed
    <3>4. \A k : Key(k)' = Key(k)
      BY <1>1, Rigid
    <3>5. CASE j = i
      BY <1>1, <1>9, <3>3, <3>4, <3>5 DEF ToldOrTodo
    <3>6. CASE j # i
      <4>1. CASE j \in ToSet(todo)
        BY <3>2, <3>6, <4>1 DEF ToldOrTodo
      <4>2. CASE \E n \in 1 .. Len(told) : told[n].item = j
        BY <1>9, <4>2 DEF ToldOrTodo
      <4>3. CASE /\ watcher \in {"reception", "notification"}
                 /\ \E was \in earlier : Key(was) = Key(j)
        BY <1>1, <3>4, <4>3 DEF ToldOrTodo
      <4>4. QED
        BY <3>1, <4>1, <4>2, <4>3 DEF ToldOrTodo
    <3>7. QED
      BY <3>5, <3>6
  <2>3. at' = "announce" => \A j \in listed' \ earlier' : ToldOrTodo(j)'
    BY <1>1, <2>2
  <2>4. QED
    BY <2>1, <2>3 DEF EventsTellTheChange
<1>12. /\ \A n \in 1 .. Len(todo') : Key(todo'[n]) \in DOMAIN old => old[Key(todo'[n])] # todo'[n]
       /\ watcher = "mark" => \A n \in 1 .. Len(todo') : Key(todo'[n]) \in DOMAIN cache
  BY <1>1, <1>4, <1>5, <1>6
<1>13. watcher # "none"
  BY <1>1 DEF Thread
<1>14. Of(snapshot, listed)' /\ Of(old, earlier)'
  BY <1>1, <1>6 DEF Of, Key
<1>15. Thread'
  BY <1>1, <1>6, <1>11, <1>12, <1>13, <1>14 DEF Thread, Covers, Key
<1>16. QED
  BY <1>10, <1>15

LEMMA AnnouncedStays ==
  ASSUME WatchTypes, Thread, Announced
  PROVE  WatchTypes' /\ Thread'
<1>1. /\ at = "announce" /\ todo = << >>
      /\ cache' = IF watcher = "schedule" THEN pending ELSE cache
      /\ at' = "sleep" /\ old' = NoItems /\ told' = << >>
      /\ watcher' = watcher /\ items' = items /\ snapshot' = snapshot /\ todo' = todo
      /\ pending' = pending /\ cut' = cut /\ listed' = listed /\ earlier' = {}
  BY DEF Announced
<1>2. WatchTypes'
  <2>1. PICK c : c = cache'
    OBVIOUS
  <2>2. Keyed(c)
    BY <1>1, <2>1 DEF WatchTypes
  <2>3. << >> \in Seq(WatchEvent) /\ DOMAIN NoItems = {}
    BY DEF NoItems
  <2>4. QED
    BY <1>1, <2>1, <2>2, <2>3 DEF WatchTypes, Keyed, Key
<1>3. EventsTellTheChange'
  <2>1. Len(told') = 0
    BY <1>1, EmptySeq
  <2>2. QED
    BY <1>1, <2>1 DEF EventsTellTheChange
<1>4. watcher # "none"
  BY <1>1 DEF Thread
<1>5. watcher = "schedule" /\ ~cut => Covers(cache', snapshot')
  BY <1>1 DEF Thread, Covers
<1>6. Of(snapshot, listed)'
  BY <1>1 DEF Thread, Of, Key
<1>7. Thread'
  BY <1>1, <1>3, <1>4, <1>5, <1>6 DEF Thread, Covers, Key
<1>8. QED
  BY <1>2, <1>7

LEMMA RestartStays ==
  ASSUME WatchTypes, Thread, Restart
  PROVE  WatchTypes' /\ Thread'
<1>1. /\ at # "none" /\ at' = "poll" /\ items' = << >> /\ todo' = << >>
      /\ cut' = (cut \/ at = "announce") /\ old' = NoItems /\ told' = << >>
      /\ watcher' = watcher /\ snapshot' = snapshot /\ cache' = cache /\ pending' = pending
      /\ listed' = listed /\ earlier' = {}
  BY DEF Restart
<1>2. WatchTypes'
  <2>1. << >> \in Seq(WatchEvent) /\ << >> \in Seq(Item) /\ DOMAIN NoItems = {}
    BY DEF NoItems
  <2>2. cut' \in BOOLEAN
    BY <1>1 DEF WatchTypes
  <2>3. QED
    BY <1>1, <2>1, <2>2 DEF WatchTypes, Keyed, Key
<1>3. EventsTellTheChange'
  <2>1. Len(told') = 0
    BY <1>1, EmptySeq
  <2>2. QED
    BY <1>1, <2>1 DEF EventsTellTheChange
<1>4. watcher # "none"
  BY <1>1 DEF Thread
<1>5. watcher = "schedule" /\ ~cut' => Covers(cache, snapshot)
  BY <1>1 DEF Thread
<1>6. Of(snapshot, listed)'
  BY <1>1 DEF Thread, Of, Key
<1>7. Thread'
  BY <1>1, <1>3, <1>4, <1>5, <1>6 DEF Thread, Covers, Key
<1>8. QED
  BY <1>2, <1>7

\* A watcher starts with nothing, failing and waking leave what it knows alone.
LEMMA WatchStays ==
  ASSUME WatchTypes, Thread, NEW w \in Kinds, Watch(w)
  PROVE  WatchTypes' /\ Thread'
<1>1. /\ watcher = "none" /\ watcher' = w /\ at' = "poll"
      /\ items' = items /\ snapshot' = snapshot /\ todo' = todo /\ cache' = cache
      /\ pending' = pending /\ old' = old /\ told' = told /\ cut' = cut
      /\ listed' = listed /\ earlier' = earlier
  BY DEF Watch
<1>2. /\ at = "none" /\ told = << >> /\ todo = << >>
      /\ DOMAIN snapshot = {} /\ DOMAIN cache = {} /\ DOMAIN pending = {} /\ DOMAIN old = {}
      /\ listed = {} /\ earlier = {}
  BY <1>1 DEF Thread
<1>3. WatchTypes'
  BY <1>1, <1>2 DEF WatchTypes, Keyed
<1>4. EventsTellTheChange'
  <2>1. Len(told') = 0
    BY <1>1, <1>2, EmptySeq
  <2>2. QED
    BY <1>1, <2>1 DEF EventsTellTheChange
<1>5. w # "none"
  BY DEF Kinds
<1>6. Covers(cache', snapshot')
  BY <1>1, <1>2 DEF Covers
<1>7. Of(snapshot, listed)'
  BY <1>1, <1>2 DEF Of
<1>8. Thread'
  BY <1>1, <1>2, <1>4, <1>5, <1>6, <1>7 DEF Thread, Covers
<1>9. QED
  BY <1>3, <1>8

LEMMA PausesStay ==
  ASSUME WatchTypes, Thread, Fails \/ Wake
  PROVE  WatchTypes' /\ Thread'
<1>1. /\ at \in {"poll", "compute", "sleep", "backoff"} /\ at' \in {"backoff", "poll"}
      /\ items' = << >> \/ items' = items
      /\ watcher' = watcher /\ snapshot' = snapshot /\ todo' = todo /\ cache' = cache
      /\ pending' = pending /\ old' = old /\ told' = told /\ cut' = cut
      /\ listed' = listed /\ earlier' = earlier
  BY DEF Fails, Wake
<1>2. told = << >> /\ todo = << >> /\ watcher # "none"
  BY <1>1 DEF Thread
<1>3. WatchTypes'
  <2>1. << >> \in Seq(Item)
    OBVIOUS
  <2>2. QED
    BY <1>1, <2>1 DEF WatchTypes, Keyed, Key
<1>4. EventsTellTheChange'
  <2>1. Len(told') = 0
    BY <1>1, <1>2, EmptySeq
  <2>2. QED
    BY <1>1, <2>1 DEF EventsTellTheChange
<1>5. Covers(cache, snapshot) \/ ~(watcher = "schedule" /\ ~cut)
  <2>1. CASE at # "compute"
    BY <1>1, <2>1 DEF Thread
  <2>2. CASE at = "compute"
    BY <1>1, <2>2 DEF Thread
  <2>3. QED
    BY <2>1, <2>2
<1>6. Of(snapshot, listed)'
  BY <1>1 DEF Thread, Of, Key
<1>7. Thread'
  BY <1>1, <1>2, <1>4, <1>5, <1>6 DEF Thread, Covers
<1>8. QED
  BY <1>3, <1>7

LEMMA WatchersStart == WatchersInit => WatchTypes /\ Thread
<1> SUFFICES ASSUME WatchersInit PROVE WatchTypes /\ Thread
  OBVIOUS
<1>1. /\ DOMAIN NoItems = {} /\ << >> \in Seq(Item) /\ << >> \in Seq(WatchEvent)
      /\ Len(told) = 0
  BY EmptySeq DEF NoItems, WatchersInit
<1>2. EventsTellTheChange
  BY <1>1 DEF EventsTellTheChange, WatchersInit
<1>3. WatchTypes
  BY <1>1 DEF WatchersInit, WatchTypes, Keyed
<1>4. Of(snapshot, listed)
  BY <1>1 DEF WatchersInit, Of
<1>5. QED
  BY <1>1, <1>2, <1>3, <1>4 DEF WatchersInit, Thread

LEMMA ThreadStays == WatchTypes /\ Thread /\ [WatchersNext]_watchVars => WatchTypes' /\ Thread'
<1> SUFFICES ASSUME WatchTypes, Thread, [WatchersNext]_watchVars PROVE WatchTypes' /\ Thread'
  OBVIOUS
<1>1. ASSUME NEW w \in Kinds, Watch(w) PROVE WatchTypes' /\ Thread'
  BY <1>1, WatchStays
<1>2. ASSUME NEW list \in Lists(watcher), Poll(list) PROVE WatchTypes' /\ Thread'
  <2>1. list \in Seq(Item)
    BY ListsAreItems
  <2>2. QED
    BY <1>2, <2>1, PollStays
<1>3. CASE Compute
  BY <1>3, ComputeStays
<1>4. CASE Announce
  BY <1>4, AnnounceStays
<1>5. CASE Announced
  BY <1>5, AnnouncedStays
<1>6. CASE Fails \/ Wake
  BY <1>6, PausesStay
<1>7. CASE Restart
  BY <1>7, RestartStays
<1>8. CASE UNCHANGED watchVars
  <2>1. /\ watcher' = watcher /\ at' = at /\ items' = items /\ snapshot' = snapshot
        /\ todo' = todo /\ cache' = cache /\ pending' = pending /\ old' = old
        /\ told' = told /\ cut' = cut /\ listed' = listed /\ earlier' = earlier
    BY <1>8 DEF watchVars
  <2>2. WatchTypes'
    BY <2>1 DEF WatchTypes, Keyed, Key
  <2>3. EventsTellTheChange'
    <3>1. EventsTellTheChange
      BY DEF Thread
    <3>2. ~cut' => \A n \in 1 .. Len(told') : Tells(told[n])'
      BY <2>1, <3>1, Retold DEF EventsTellTheChange
    <3>3. at' = "announce" => \A i \in listed' \ earlier' : ToldOrTodo(i)'
      BY <2>1, <3>1 DEF EventsTellTheChange, ToldOrTodo, Key
    <3>4. QED
      BY <3>2, <3>3 DEF EventsTellTheChange
  <2>4. Thread'
    <3>1. ByKey(items)' = ByKey(items)
      BY <2>1 DEF ByKey, Latest, Key
    <3>2. \A i : Key(i)' = Key(i)
      BY <2>1 DEF Key
    <3>3. Of(snapshot, listed)' /\ (at' = "announce" => Of(old, earlier)')
      BY <2>1 DEF Thread, Of, Key
    <3> HIDE DEF EventsTellTheChange
    <3>4. QED
      BY <2>1, <2>3, <3>1, <3>2, <3>3 DEF Thread, Covers, Key
  <2>5. QED
    BY <2>2, <2>4
<1>9. QED
  BY <1>1, <1>2, <1>3, <1>4, <1>5, <1>6, <1>7, <1>8 DEF WatchersNext

\* Every variable of the watchers has its type, whatever lists the portal shows.
THEOREM WatchersTyped == WatchersSpec => []WatchersTypeOK
<1>1. WatchTypes => WatchersTypeOK
  BY DEF WatchTypes, WatchersTypeOK, WatchEvent, Keyed
<1>2. QED
  BY <1>1, WatchersStart, ThreadStays, PTL DEF WatchersSpec

\* For every set of identities and contents, lists of any length and any order of polls,
\* failures and restarts: what a watcher tells of an item is what happened since the list
\* before to an item of that key, unless its consumer left a delta in the middle; and an
\* item that was not in the list before is told, or waits to be.
THEOREM ChangesAreTold == WatchersSpec => []EventsTellTheChange
<1>1. Thread => EventsTellTheChange
  BY DEF Thread
<1>2. QED
  BY <1>1, WatchersStart, ThreadStays, PTL DEF WatchersSpec

-------------------------------------------------------------------------------
(* Bell: sorting by counting what comes before. *)

\* R, a set of pairs, orders S strictly and totally.
Total(R, S) ==
  /\ \A x \in S : <<x, x>> \notin R
  /\ \A x, y \in S : x = y \/ <<x, y>> \in R \/ <<y, x>> \in R
  /\ \A x, y, z \in S : <<x, y>> \in R /\ <<y, z>> \in R => <<x, z>> \in R

\* Where x stands in S.
Place(x, S, R) == Cardinality({y \in S : y = x \/ <<y, x>> \in R})

LEMMA Placed ==
  ASSUME NEW S, IsFiniteSet(S), NEW R, Total(R, S)
  PROVE  /\ \A x \in S : Place(x, S, R) \in 1 .. Cardinality(S)
         /\ \A x, y \in S : <<x, y>> \in R => Place(x, S, R) < Place(y, S, R)
<1>1. Cardinality(S) \in Nat
  BY FS_CardinalityType
<1>2. ASSUME NEW x \in S
      PROVE  Place(x, S, R) \in 1 .. Cardinality(S)
  <2> DEFINE A == {y \in S : y = x \/ <<y, x>> \in R}
  <2>1. A \in SUBSET S /\ x \in A
    OBVIOUS
  <2>2. Place(x, S, R) = Cardinality(A)
    BY DEF Place
  <2> HIDE DEF A
  <2>3. IsFiniteSet(A) /\ Cardinality(A) <= Cardinality(S)
    BY <2>1, FS_Subset
  <2>4. Cardinality(A) \in Nat /\ Cardinality(A) # 0
    BY <2>1, <2>3, FS_CardinalityType, FS_EmptySet
  <2>5. QED
    BY <1>1, <2>2, <2>3, <2>4
<1>3. ASSUME NEW x \in S, NEW y \in S, <<x, y>> \in R
      PROVE  Place(x, S, R) < Place(y, S, R)
  <2> DEFINE A == {z \in S : z = x \/ <<z, x>> \in R}
             B == {z \in S : z = y \/ <<z, y>> \in R}
  <2>1. A \in SUBSET B
    BY <1>3 DEF Total
  <2>2. y \in B /\ y \notin A
    BY <1>3 DEF Total
  <2>3. Place(x, S, R) = Cardinality(A) /\ Place(y, S, R) = Cardinality(B)
    BY DEF Place
  <2>4. B \in SUBSET S
    OBVIOUS
  <2> HIDE DEF A, B
  <2>5. IsFiniteSet(B)
    BY <2>4, FS_Subset
  <2>6. Cardinality(A) <= Cardinality(B) /\ Cardinality(A) # Cardinality(B) /\ IsFiniteSet(A)
    BY <2>1, <2>2, <2>5, FS_Subset
  <2>7. Cardinality(A) \in Nat /\ Cardinality(B) \in Nat
    BY <2>5, <2>6, FS_CardinalityType
  <2>8. QED
    BY <2>3, <2>6, <2>7
<1>4. QED
  BY <1>2, <1>3

\* Every place is taken.
LEMMA PlacesTaken ==
  ASSUME NEW S, IsFiniteSet(S), NEW R, Total(R, S), NEW r \in 1 .. Cardinality(S)
  PROVE  \E x \in S : Place(x, S, R) = r
<1> DEFINE T == 1 .. Cardinality(S)
           f == [x \in S |-> Place(x, S, R)]
<1>1. /\ \A x \in S : Place(x, S, R) \in T
      /\ \A x, y \in S : <<x, y>> \in R => Place(x, S, R) < Place(y, S, R)
  BY Placed
<1>2. f \in [S -> T]
  BY <1>1
<1>3. ASSUME NEW x \in S, NEW y \in S, f[x] = f[y]
      PROVE  x = y
  <2>1. Place(x, S, R) = Place(y, S, R) /\ Place(x, S, R) \in Int
    BY <1>1, <1>3
  <2>2. <<x, y>> \notin R /\ <<y, x>> \notin R
    BY <1>1, <2>1
  <2>3. QED
    BY <2>2 DEF Total
<1> HIDE DEF f
<1>4. f \in Injection(S, T)
  BY <1>2, <1>3, Fun_IsInj
<1>5. Cardinality(S) \in Nat
  BY FS_CardinalityType
<1>6. IsFiniteSet(T) /\ Cardinality(T) = Cardinality(S)
  BY <1>5, FS_Interval
<1>7. f \in Surjection(S, T)
  BY <1>4, <1>6, FS_Injection
<1>8. PICK x \in S : f[x] = r
  <2>1. \A t \in T : \E s \in S : f[s] = t
    BY <1>7 DEF Surjection
  <2>2. QED
    BY <2>1
<1>9. QED
  BY <1>8 DEF f

\* A nonempty set has a first element.
LEMMA FirstOf ==
  ASSUME NEW S, IsFiniteSet(S), S # {}, NEW R, Total(R, S)
  PROVE  \E x \in S : \A y \in S : y = x \/ <<x, y>> \in R
<1>1. Cardinality(S) \in Nat /\ Cardinality(S) # 0
  BY FS_CardinalityType, FS_EmptySet
<1>2. 1 \in 1 .. Cardinality(S)
  BY <1>1
<1>3. PICK x \in S : Place(x, S, R) = 1
  BY <1>2, PlacesTaken
<1>4. ASSUME NEW y \in S, <<y, x>> \in R
      PROVE  FALSE
  <2>1. /\ Place(y, S, R) \in 1 .. Cardinality(S)
        /\ Place(y, S, R) < Place(x, S, R)
    BY <1>4, Placed
  <2>2. QED
    BY <1>1, <1>3, <2>1
<1>5. QED
  BY <1>4 DEF Total

-------------------------------------------------------------------------------
(* Bell: the plan of the day. *)

DayTypes == slots \in Seq(Slot) /\ lead \in Nat /\ now \in Nat

Numbers == 1 .. Len(slots)

LEMMA SlotFacts ==
  ASSUME DayTypes
  PROVE  /\ Len(slots) \in Nat /\ Numbers \subseteq Nat
         /\ \A n \in Numbers : /\ slots[n].begin \in Nat /\ slots[n].end \in Nat
                               /\ slots[n].begin < slots[n].end
<1>1. Len(slots) \in Nat /\ \A n \in Numbers : slots[n] \in Slot
  BY LenProperties, ElementOfSeq DEF DayTypes, Numbers
<1>2. Times \subseteq Nat
  BY BellAssumption DEF Times
<1>3. \A s \in Slot : s.begin \in Nat /\ s.end \in Nat /\ s.begin < s.end
  BY <1>2 DEF Slot
<1>4. Numbers \subseteq Nat
  BY <1>1 DEF Numbers
<1>5. QED
  BY <1>1, <1>3, <1>4

\* The four events of a slot.
LEMMA EventFactsOfSlot ==
  ASSUME DayTypes, NEW n \in Numbers, NEW p \in 1 .. 4
  PROVE  /\ EventAt(n, p) \in Entries /\ EventAt(n, p) \in BellEvent
         /\ EventAt(n, p).slot = n /\ EventAt(n, p).pri = p
         /\ EventAt(n, p).what = Phases[p]
         /\ EventAt(n, p).when = CASE p = 1 -> slots[n].begin - lead
                                   [] p = 2 -> slots[n].begin
                                   [] OTHER -> slots[n].end
<1>1. EventAt(n, p) \in Entries
  BY DEF Entries, Numbers
<1>2. /\ EventAt(n, p).slot = n /\ EventAt(n, p).pri = p
      /\ EventAt(n, p).what = Phases[p]
      /\ EventAt(n, p).when = CASE p = 1 -> slots[n].begin - lead
                                [] p = 2 -> slots[n].begin
                                [] OTHER -> slots[n].end
  BY DEF EventAt
<1>3. Phases[p] \in {"starting", "begin", "end", "ended"}
  BY DEF Phases
<1>4. n \in Nat /\ slots[n].begin \in Nat /\ slots[n].end \in Nat /\ lead \in Nat
  BY SlotFacts DEF DayTypes
<1>5. EventAt(n, p) \in BellEvent
  BY <1>3, <1>4 DEF EventAt, BellEvent
<1>6. QED
  BY <1>1, <1>2, <1>5

LEMMA EntryFacts ==
  ASSUME DayTypes
  PROVE  /\ IsFiniteSet(Entries) /\ Entries \subseteq BellEvent
         /\ \A e \in Entries : e.slot \in Numbers /\ e.pri \in 1 .. 4 /\ e = EventAt(e.slot, e.pri)
<1>0. ASSUME NEW e \in Entries
      PROVE  e \in BellEvent /\ e.slot \in Numbers /\ e.pri \in 1 .. 4 /\ e = EventAt(e.slot, e.pri)
  <2>1. PICK n \in Numbers, p \in 1 .. 4 : e = EventAt(n, p)
    BY DEF Entries, Numbers
  <2>2. EventAt(n, p) \in BellEvent /\ EventAt(n, p).slot = n /\ EventAt(n, p).pri = p
    BY EventFactsOfSlot
  <2>3. QED
    BY <2>1, <2>2
<1>1. Entries \subseteq BellEvent
  BY <1>0
<1>2. \A e \in Entries : e.slot \in Numbers /\ e.pri \in 1 .. 4 /\ e = EventAt(e.slot, e.pri)
  BY <1>0
<1> DEFINE P == Numbers \X (1 .. 4)
           f == [x \in P |-> EventAt(x[1], x[2])]
<1>3. IsFiniteSet(P)
  <2>1. IsFiniteSet(Numbers)
    BY SlotFacts, FS_Interval DEF Numbers
  <2>2. IsFiniteSet(1 .. 4)
    <3>1. 1 \in Int /\ 4 \in Int
      OBVIOUS
    <3>2. QED
      BY <3>1, FS_Interval
  <2>3. QED
    BY <2>1, <2>2, FS_Product
<1>4. f \in [P -> Entries]
  BY EventFactsOfSlot
<1>5. \A e \in Entries : \E x \in P : f[x] = e
  <2> SUFFICES ASSUME NEW e \in Entries PROVE \E x \in P : f[x] = e
    OBVIOUS
  <2>1. <<e.slot, e.pri>> \in P /\ f[<<e.slot, e.pri>>] = EventAt(e.slot, e.pri)
    BY <1>2
  <2>2. QED
    BY <1>2, <2>1
<1> HIDE DEF f
<1>6. f \in Surjection(P, Entries)
  BY <1>4, <1>5 DEF Surjection
<1>7. QED
  BY <1>1, <1>2, <1>3, <1>6, FS_Surjection

InTime == {x \in Entries \X Entries : Precedes(x[1], x[2])}

LEMMA EntriesAreOrdered ==
  ASSUME DayTypes
  PROVE  Total(InTime, Entries)
<1>1. \A e \in Entries : e.when \in Int /\ e.pri \in Nat /\ e.slot \in Nat
  BY EntryFacts DEF BellEvent
<1>2. \A d, e \in Entries : <<d, e>> \in InTime <=> Precedes(d, e)
  BY DEF InTime
<1>3. \A e \in Entries : ~Precedes(e, e)
  BY <1>1 DEF Precedes
<1>4. \A d, e \in Entries : d = e \/ Precedes(d, e) \/ Precedes(e, d)
  <2>1. \A d, e \in Entries : d.slot = e.slot /\ d.pri = e.pri => d = e
    BY EntryFacts
  <2>2. \A d, e \in Entries :
          \/ d.when = e.when /\ d.slot = e.slot /\ d.pri = e.pri
          \/ Precedes(d, e) \/ Precedes(e, d)
    BY <1>1 DEF Precedes
  <2>3. QED
    BY <2>1, <2>2
<1>5. \A c, d, e \in Entries : Precedes(c, d) /\ Precedes(d, e) => Precedes(c, e)
  BY <1>1 DEF Precedes
<1>6. QED
  BY <1>2, <1>3, <1>4, <1>5 DEF Total

\* The plan has every event once, and an event before those it precedes.
Sorted(p) ==
  /\ p \in Seq(BellEvent) /\ Len(p) = Cardinality(Entries)
  /\ \A r \in 1 .. Len(p) : p[r] \in Entries
  /\ \A e \in Entries : \E r \in 1 .. Len(p) : p[r] = e
  /\ \A q, r \in 1 .. Len(p) : q < r => Precedes(p[q], p[r])

LEMMA PlanIsSorted ==
  ASSUME DayTypes
  PROVE  Sorted(Planned)
<1> DEFINE c == Cardinality(Entries)
           place(e) == Place(e, Entries, InTime)
           p == [r \in 1 .. c |-> CHOOSE e \in Entries : place(e) = r]
<1>1. IsFiniteSet(Entries) /\ Total(InTime, Entries) /\ c \in Nat
  BY EntryFacts, EntriesAreOrdered, FS_CardinalityType
<1>2. \A d, e \in Entries : <<d, e>> \in InTime <=> Precedes(d, e)
  BY DEF InTime
<1>3. \A e \in Entries : Cardinality({d \in Entries : d = e \/ Precedes(d, e)}) = place(e)
  <2> SUFFICES ASSUME NEW e \in Entries
               PROVE  Cardinality({d \in Entries : d = e \/ Precedes(d, e)}) = place(e)
    OBVIOUS
  <2>1. {d \in Entries : d = e \/ Precedes(d, e)} = {d \in Entries : d = e \/ <<d, e>> \in InTime}
    BY <1>2
  <2>2. QED
    BY <2>1 DEF Place
<1>4. Planned = p
  <2>1. \A r \in 1 .. c : (CHOOSE e \in Entries : place(e) = r)
          = CHOOSE e \in Entries : Cardinality({d \in Entries : d = e \/ Precedes(d, e)}) = r
    <3> SUFFICES ASSUME NEW r \in 1 .. c
                 PROVE  (CHOOSE e \in Entries : place(e) = r)
                        = CHOOSE e \in Entries :
                            Cardinality({d \in Entries : d = e \/ Precedes(d, e)}) = r
      OBVIOUS
    <3> HIDE DEF place
    <3>1. QED
      BY <1>3
  <2>2. QED
    BY <2>1 DEF Planned
<1>5. /\ \A e \in Entries : place(e) \in 1 .. c
      /\ \A d, e \in Entries : <<d, e>> \in InTime => place(d) < place(e)
  BY <1>1, Placed
<1>6. \A r \in 1 .. c : \E e \in Entries : place(e) = r
  BY <1>1, PlacesTaken
<1> HIDE DEF place
<1>7. \A r \in 1 .. c : p[r] \in Entries /\ place(p[r]) = r
  BY <1>6
<1>8. p \in [1 .. c -> BellEvent]
  BY <1>7, EntryFacts
<1> HIDE DEF p
<1>9. p \in Seq(BellEvent) /\ Len(p) = c
  BY <1>1, <1>8, SeqDef
<1>10. ASSUME NEW e \in Entries
       PROVE  p[place(e)] = e
  <2>1. place(e) \in 1 .. c
    BY <1>5
  <2>2. p[place(e)] \in Entries /\ place(p[place(e)]) = place(e)
    BY <1>7, <2>1
  <2>3. place(e) \in Int
    BY <2>1
  <2>4. \A d \in Entries : place(d) = place(e) => d = e
    <3>1. \A d \in Entries : d = e \/ <<d, e>> \in InTime \/ <<e, d>> \in InTime
      BY <1>1 DEF Total
    <3>2. \A d \in Entries : place(d) = place(e) => ~(place(d) < place(e)) /\ ~(place(e) < place(d))
      BY <2>3
    <3>3. QED
      BY <1>5, <3>1, <3>2
  <2>5. QED
    BY <2>2, <2>4
<1>11. ASSUME NEW q \in 1 .. c, NEW r \in 1 .. c, q < r
       PROVE  Precedes(p[q], p[r])
  <2>1. p[q] \in Entries /\ p[r] \in Entries /\ place(p[q]) = q /\ place(p[r]) = r
    BY <1>7
  <2>2. p[q] # p[r] /\ ~(place(p[r]) < place(p[q]))
    BY <1>11, <2>1
  <2>3. <<p[q], p[r]>> \in InTime
    BY <1>1, <1>5, <2>1, <2>2 DEF Total
  <2>4. QED
    BY <1>2, <2>1, <2>3
<1>12. \A e \in Entries : \E r \in 1 .. c : p[r] = e
  BY <1>5, <1>10
<1>13. QED
  BY <1>4, <1>7, <1>9, <1>11, <1>12 DEF Sorted

\* What comes first in the plan is not later, and in one slot it is the earlier phase.
LEMMA OrderOfTwo ==
  ASSUME DayTypes, NEW d \in Entries, NEW e \in Entries, Precedes(d, e)
  PROVE  d.when <= e.when /\ (d.slot = e.slot => d.pri < e.pri)
<1>1. /\ d.when \in Int /\ d.pri \in 1 .. 4 /\ d.slot \in Numbers /\ d = EventAt(d.slot, d.pri)
      /\ e.when \in Int /\ e.pri \in 1 .. 4 /\ e.slot \in Numbers /\ e = EventAt(e.slot, e.pri)
  BY EntryFacts DEF BellEvent
<1>2. d.when <= e.when
  BY <1>1 DEF Precedes
<1>3. ASSUME d.slot = e.slot
      PROVE  d.pri < e.pri
  <2> DEFINE n == d.slot
             moment(p) == CASE p = 1 -> slots[n].begin - lead
                          [] p = 2 -> slots[n].begin
                          [] OTHER -> slots[n].end
  <2>1. d.when = moment(d.pri) /\ e.when = moment(e.pri)
    BY <1>1, <1>3, EventFactsOfSlot
  <2>2. /\ slots[n].begin \in Nat /\ slots[n].end \in Nat /\ slots[n].begin < slots[n].end
        /\ lead \in Nat
    BY <1>1, SlotFacts DEF DayTypes
  <2>3. \A p, q \in 1 .. 4 : p < q => moment(p) <= moment(q)
    BY <2>2
  <2> HIDE DEF moment
  <2>4. e.pri < d.pri => e.when <= d.when
    BY <1>1, <2>1, <2>3
  <2>5. d.slot \in Nat
    BY <1>1, SlotFacts
  <2>6. e.pri < d.pri => FALSE
    BY <1>1, <1>3, <2>1, <2>4, <2>5 DEF Precedes
  <2>7. e.pri = d.pri => FALSE
    <3>1. e.pri = d.pri => d.when = e.when
      BY <2>1
    <3>2. QED
      BY <1>1, <1>3, <2>5, <3>1 DEF Precedes
  <2>8. QED
    BY <1>1, <2>6, <2>7
<1>4. QED
  BY <1>2, <1>3

\* A nonempty set of positions has a first one.
LEMMA FirstPosition ==
  ASSUME NEW L \in Nat, NEW P \in SUBSET (1 .. L), P # {}
  PROVE  \E n \in P : \A m \in P : n <= m
<1> DEFINE R == {x \in P \X P : x[1] < x[2]}
<1>1. IsFiniteSet(P)
  <2>1. IsFiniteSet(1 .. L)
    BY FS_Interval
  <2>2. QED
    BY <2>1, FS_Subset
<1>2. \A n \in P : n \in Nat
  OBVIOUS
<1>3. \A m, n \in P : <<m, n>> \in R <=> m < n
  OBVIOUS
<1> HIDE DEF R
<1>4. Total(R, P)
  BY <1>2, <1>3 DEF Total
<1>5. PICK n \in P : \A m \in P : m = n \/ <<n, m>> \in R
  BY <1>1, <1>4, FirstOf
<1>6. \A m \in P : n <= m
  <2>1. \A m \in P : m = n \/ n < m
    BY <1>3, <1>5
  <2>2. QED
    BY <1>2, <2>1
<1>7. QED
  BY <1>6

\* The times of the bells of the day.
Bells == {e.when : e \in {f \in Entries : f.what \in {"begin", "end"}}}

LEMMA BellsOfSlots ==
  ASSUME DayTypes
  PROVE  /\ \A n \in Numbers : slots[n].begin \in Bells /\ slots[n].end \in Bells
         /\ Bells \subseteq Int
<1>1. ASSUME NEW n \in Numbers
      PROVE  slots[n].begin \in Bells /\ slots[n].end \in Bells
  <2>1. 2 \in 1 .. 4 /\ 3 \in 1 .. 4
    OBVIOUS
  <2>2. /\ EventAt(n, 2) \in Entries /\ EventAt(n, 2).what = "begin"
        /\ EventAt(n, 2).when = slots[n].begin
    <3>1. EventAt(n, 2) \in Entries
      BY <2>1, EventFactsOfSlot
    <3>2. EventAt(n, 2).what = "begin" /\ EventAt(n, 2).when = slots[n].begin
      BY DEF EventAt, Phases
    <3>3. QED
      BY <3>1, <3>2
  <2>3. /\ EventAt(n, 3) \in Entries /\ EventAt(n, 3).what = "end"
        /\ EventAt(n, 3).when = slots[n].end
    <3>1. EventAt(n, 3) \in Entries
      BY <2>1, EventFactsOfSlot
    <3>2. EventAt(n, 3).what = "end" /\ EventAt(n, 3).when = slots[n].end
      BY DEF EventAt, Phases
    <3>3. QED
      BY <3>1, <3>2
  <2>4. QED
    BY <2>2, <2>3 DEF Bells
<1>2. Bells \subseteq Int
  BY EntryFacts DEF Bells, BellEvent
<1>3. QED
  BY <1>1, <1>2

\* TimeToBell is the time to the first bell that has not rung.
LEMMA WaitIsToTheNextBell ==
  ASSUME DayTypes
  PROVE  /\ TimeToBell = Nothing <=> \A b \in Bells : b <= now
         /\ TimeToBell # Nothing =>
              /\ now + TimeToBell \in Bells
              /\ \A b \in Bells : b > now => b >= now + TimeToBell
<1> DEFINE p == Planned
           B == {"begin", "end"}
           P == {r \in DOMAIN p : p[r].what \in B /\ p[r].when > now}
<1>1. Sorted(p)
  BY PlanIsSorted
<1>2. TimeToBell = IF P = {} THEN Nothing ELSE p[Min(P)].when - now
  BY DEF TimeToBell
<1> HIDE DEF p, B
<1>3. DOMAIN p = 1 .. Len(p) /\ Len(p) \in Nat
  BY <1>1, LenProperties DEF Sorted
<1>4. /\ \A r \in 1 .. Len(p) : p[r] \in Entries /\ p[r].when \in Int
      /\ \A q, r \in 1 .. Len(p) : q < r => p[q].when <= p[r].when
  BY <1>1, EntryFacts, OrderOfTwo DEF Sorted, BellEvent
<1>5. \A b \in Bells : \E r \in 1 .. Len(p) : p[r].what \in B /\ p[r].when = b
  BY <1>1 DEF Bells, Sorted, B
<1>6. \A r \in 1 .. Len(p) : p[r].what \in B => p[r].when \in Bells
  BY <1>4 DEF Bells, B
<1>7. now \in Int /\ Bells \subseteq Int
  BY BellsOfSlots DEF DayTypes
<1>8. P \in SUBSET (1 .. Len(p)) /\ \A r \in P : p[r].what \in B /\ p[r].when > now
  BY <1>3
<1>9. \A r \in 1 .. Len(p) : p[r].what \in B /\ p[r].when > now => r \in P
  BY <1>3
<1> HIDE DEF P
<1>10. CASE P = {}
  <2>1. \A b \in Bells : b <= now
    <3> SUFFICES ASSUME NEW b \in Bells, ~(b <= now) PROVE FALSE
      OBVIOUS
    <3>1. b > now
      BY <1>7
    <3>2. QED
      BY <1>5, <1>9, <1>10, <3>1
  <2>2. QED
    BY <1>2, <1>10, <2>1
<1>11. CASE P # {}
  <2>1. \E n \in P : \A m \in P : n <= m
    BY <1>3, <1>8, <1>11, FirstPosition
  <2>2. Min(P) \in P /\ \A m \in P : Min(P) <= m
    BY <2>1 DEF Min
  <2> DEFINE n == Min(P)
  <2>3. n \in P /\ \A m \in P : n <= m
    BY <2>2
  <2>4. TimeToBell = p[n].when - now
    BY <1>2, <1>11
  <2> HIDE DEF n
  <2>5. n \in 1 .. Len(p) /\ p[n].when \in Int /\ p[n].when > now /\ p[n].when \in Bells
    BY <1>4, <1>6, <1>8, <2>3
  <2>6. now + TimeToBell = p[n].when /\ TimeToBell # Nothing
    BY <1>7, <2>4, <2>5 DEF Nothing
  <2>7. ASSUME NEW b \in Bells, b > now
        PROVE  b >= p[n].when
    <3>1. PICK r \in 1 .. Len(p) : p[r].what \in B /\ p[r].when = b
      BY <1>5
    <3>2. r \in P /\ n <= r
      BY <1>9, <2>3, <2>7, <3>1
    <3>3. n = r \/ n < r
      BY <2>5, <3>2
    <3>4. p[n].when <= p[r].when
      BY <1>4, <2>5, <3>3
    <3>5. QED
      BY <1>7, <2>5, <3>1, <3>4
  <2>8. \E b \in Bells : ~(b <= now)
    BY <1>7, <2>5
  <2>9. QED
    BY <2>5, <2>6, <2>7, <2>8
<1>12. QED
  BY <1>10, <1>11

\* The next lesson is the first to begin of those to come.
LEMMA NextIsFirst ==
  ASSUME DayTypes
  PROVE  /\ NextLesson = Nothing <=> \A n \in Numbers : ~(slots[n].begin > now)
         /\ NextLesson # Nothing => \A n \in Numbers : slots[n].begin > now =>
              slots[NextLesson].begin <= slots[n].begin
<1> DEFINE P == {n \in Numbers : slots[n].begin > now}
           Q(n) == \A m \in P : \/ slots[n].begin < slots[m].begin
                                \/ slots[n].begin = slots[m].begin /\ n <= m
           R == {x \in P \X P : \/ slots[x[1]].begin < slots[x[2]].begin
                                \/ slots[x[1]].begin = slots[x[2]].begin /\ x[1] < x[2]}
<1>1. NextLesson = IF P = {} THEN Nothing ELSE CHOOSE n \in P : Q(n)
  BY DEF NextLesson, Numbers
<1>2. Len(slots) \in Nat /\ P \in SUBSET (1 .. Len(slots))
  BY SlotFacts DEF Numbers
<1>3. IsFiniteSet(P)
  <2>1. IsFiniteSet(1 .. Len(slots))
    BY <1>2, FS_Interval
  <2>2. QED
    BY <1>2, <2>1, FS_Subset
<1>4. \A n \in P : n \in Nat /\ n # 0 /\ slots[n].begin \in Nat
  <2>1. \A n \in P : n \in 1 .. Len(slots) /\ n \in Numbers
    BY <1>2
  <2>2. QED
    BY <1>2, <2>1, SlotFacts
<1>5. \A m, n \in P : <<m, n>> \in R <=> \/ slots[m].begin < slots[n].begin
                                         \/ slots[m].begin = slots[n].begin /\ m < n
  OBVIOUS
<1>6. \A n \in Numbers : slots[n].begin > now => n \in P
  OBVIOUS
<1>7. \A n \in P : n \in Numbers /\ slots[n].begin > now
  OBVIOUS
<1> HIDE DEF P, R
<1>8. Total(R, P)
  BY <1>4, <1>5 DEF Total
<1>9. CASE P = {}
  BY <1>1, <1>6, <1>9
<1>10. CASE P # {}
  <2>1. PICK n \in P : \A m \in P : m = n \/ <<n, m>> \in R
    BY <1>3, <1>8, <1>10, FirstOf
  <2>2. Q(n)
    <3>1. \A m \in P : \/ m = n \/ slots[n].begin < slots[m].begin
                       \/ slots[n].begin = slots[m].begin /\ n < m
      BY <1>5, <2>1
    <3>2. \A m \in P : (m = n => n <= m) /\ (n < m => n <= m)
      BY <1>4
    <3>3. QED
      BY <3>1, <3>2
  <2> DEFINE x == CHOOSE m \in P : Q(m)
  <2>3. x \in P /\ Q(x)
    <3> HIDE DEF Q
    <3>1. QED
      BY <2>2
  <2>4. NextLesson = x
    BY <1>1, <1>10
  <2> HIDE DEF x
  <2>5. x # Nothing
    BY <1>4, <2>3 DEF Nothing
  <2>6. \A m \in P : slots[x].begin <= slots[m].begin
    BY <1>4, <2>3
  <2>7. QED
    BY <1>6, <1>7, <2>3, <2>4, <2>5, <2>6
<1>11. QED
  BY <1>9, <1>10

\* There is a current lesson when the time is within one.
LEMMA CurrentIsOn ==
  ASSUME DayTypes
  PROVE  CurrentLesson = Nothing
         <=> \A n \in Numbers : ~(slots[n].begin <= now /\ now <= slots[n].end)
<1> DEFINE P == {n \in Numbers : slots[n].begin <= now /\ now <= slots[n].end}
<1>1. CurrentLesson = IF P = {} THEN Nothing ELSE CHOOSE n \in P : \A m \in P : n <= m
  BY DEF CurrentLesson, Numbers
<1>2. Len(slots) \in Nat /\ P \in SUBSET (1 .. Len(slots))
  BY SlotFacts DEF Numbers
<1>3. P = {} <=> \A n \in Numbers : ~(slots[n].begin <= now /\ now <= slots[n].end)
  OBVIOUS
<1> HIDE DEF P
<1>4. ASSUME P # {}
      PROVE  CurrentLesson # Nothing
  <2>1. \E n \in P : \A m \in P : n <= m
    BY <1>2, <1>4, FirstPosition
  <2>2. CurrentLesson \in P
    BY <1>1, <1>4, <2>1
  <2>3. QED
    BY <1>2, <2>2 DEF Nothing
<1>5. QED
  BY <1>1, <1>3, <1>4

LEMMA AnswersFit == DayTypes => QueriesAgree
<1> SUFFICES ASSUME DayTypes PROVE QueriesAgree
  OBVIOUS
<1>1. /\ TimeToBell = Nothing <=> \A b \in Bells : b <= now
      /\ TimeToBell # Nothing =>
           /\ now + TimeToBell \in Bells
           /\ \A b \in Bells : b > now => b >= now + TimeToBell
  BY WaitIsToTheNextBell
<1>2. NextLesson # Nothing => \A n \in Numbers : slots[n].begin > now =>
        slots[NextLesson].begin <= slots[n].begin
  BY NextIsFirst
<1>3. CurrentLesson = Nothing /\ NextLesson = Nothing <=> \A n \in Numbers : slots[n].end < now
  <2>1. \A n \in Numbers : slots[n].end < now
          <=> ~(slots[n].begin <= now /\ now <= slots[n].end) /\ ~(slots[n].begin > now)
    BY SlotFacts DEF DayTypes
  <2>2. CurrentLesson = Nothing /\ NextLesson = Nothing
        <=> \A n \in Numbers : ~(slots[n].begin <= now /\ now <= slots[n].end) /\ ~(slots[n].begin > now)
    BY CurrentIsOn, NextIsFirst
  <2>3. QED
    BY <2>1, <2>2
<1>4. QED
  BY <1>1, <1>2, <1>3 DEF QueriesAgree, Bells, Numbers

-------------------------------------------------------------------------------
(* Bell: what was rung is the plan as far as it was gone through. *)

LEMMA DaysAreTyped == BellTypeOK => DayTypes
BY BellAssumption DEF BellTypeOK, DayTypes, Times

\* The plan is that of the day, what was rung is its beginning, and a sleep lasts until the
\* time of the event at hand.
InPlan ==
  /\ ring = "idle" => plan = << >> /\ index = 1
  /\ ring # "idle" => Sorted(plan)
  /\ Len(rung) = IF ring = "yield" THEN index ELSE index - 1
  /\ index <= Len(plan) + 1
  /\ ring \in {"sleep", "yield"} => index <= Len(plan)
  /\ ring = "over" => index > Len(plan)
  /\ \A n \in 1 .. Len(rung) : rung[n] = plan[n]
  /\ ~setBack => ~early /\ (ring = "sleep" => plan[index].when <= now + left)

\* The plan is sorted whatever the clock does.
LEMMA SortedStays == slots' = slots /\ lead' = lead /\ plan' = plan /\ Sorted(plan) => Sorted(plan)'
<1> SUFFICES ASSUME slots' = slots, lead' = lead, plan' = plan, Sorted(plan) PROVE Sorted(plan)'
  OBVIOUS
<1>1. Entries' = Entries
  BY DEF Entries, EventAt
<1>2. QED
  BY <1>1 DEF Sorted

LEMMA StartStays ==
  ASSUME BellTypeOK, InPlan, NEW s \in Seq(Slot), NEW l \in Nat, NEW t \in Times, BellStart(s, l, t)
  PROVE  BellTypeOK' /\ InPlan'
<1>1. /\ ring = "idle" /\ slots' = s /\ lead' = l /\ plan' = Planned' /\ now' = t /\ ring' = "check"
      /\ left' = left /\ index' = index /\ setBack' = setBack /\ rung' = rung /\ early' = early
  BY DEF BellStart
<1>2. DayTypes'
  BY <1>1, BellAssumption DEF DayTypes, Times
<1>4. Sorted(Planned)'
  BY <1>2, PlanIsSorted, PTL
<1>5. Sorted(plan)'
  BY <1>1, <1>4 DEF Sorted
<1>6. BellTypeOK'
  BY <1>1, <1>5 DEF BellTypeOK, Sorted
<1>7. index' = 1 /\ Len(rung') = 0 /\ Len(plan') \in Nat
  <2>1. index = 1 /\ Len(rung) = 0
    BY <1>1 DEF InPlan
  <2>2. QED
    BY <1>1, <1>5, <2>1, LenProperties DEF Sorted
<1>8. ~setBack' => ~early'
  BY <1>1 DEF InPlan
<1>9. InPlan'
  BY <1>1, <1>5, <1>7, <1>8 DEF InPlan
<1>10. QED
  BY <1>6, <1>9

LEMMA RingStays ==
  ASSUME BellTypeOK, InPlan, Delay \/ Yield \/ AskNext \/ Exhausted
  PROVE  BellTypeOK' /\ InPlan'
<1>1. /\ slots' = slots /\ lead' = lead /\ plan' = plan /\ now' = now /\ setBack' = setBack
      /\ ring # "idle" /\ ring' \in {"sleep", "yield", "check", "over"}
  BY DEF Delay, Yield, AskNext, Exhausted
<1>2. Sorted(plan) /\ Sorted(plan)'
  BY <1>1, SortedStays DEF InPlan
<1>3. /\ plan \in Seq(BellEvent) /\ rung \in Seq(BellEvent) /\ Len(plan) \in Nat /\ Len(rung) \in Nat
      /\ index \in Nat \ {0} /\ left \in Nat /\ now \in Nat
      /\ \A r \in 1 .. Len(plan) : plan[r] \in BellEvent /\ plan[r].when \in Int
  <2>1. plan \in Seq(BellEvent) /\ rung \in Seq(BellEvent)
    BY DEF BellTypeOK
  <2>2. \A r \in 1 .. Len(plan) : plan[r] \in BellEvent
    BY <2>1, ElementOfSeq
  <2>3. \A e \in BellEvent : e.when \in Int
    BY DEF BellEvent
  <2>4. now \in Nat
    BY DaysAreTyped DEF DayTypes
  <2>5. QED
    BY <2>1, <2>2, <2>3, <2>4, LenProperties DEF BellTypeOK
<1>4. CASE Delay
  <2>1. /\ ring = "check" /\ index <= Len(plan) /\ ring' = "sleep" /\ index' = index
        /\ left' = IF plan[index].when > now THEN plan[index].when - now ELSE 0
        /\ rung' = rung /\ early' = early
    BY <1>4 DEF Delay
  <2>2. plan[index].when \in Int
    BY <1>3, <2>1
  <2>3. left' \in Nat /\ plan[index].when <= now + left'
    BY <1>3, <2>1, <2>2
  <2>4. BellTypeOK'
    BY <1>1, <2>1, <2>3 DEF BellTypeOK
  <2>5. InPlan'
    BY <1>1, <1>2, <2>1, <2>3 DEF InPlan
  <2>6. QED
    BY <2>4, <2>5
<1>5. CASE Yield
  <2>1. /\ ring = "sleep" /\ left = 0 /\ rung' = Append(rung, plan[index])
        /\ early' = (early \/ now < plan[index].when) /\ ring' = "yield"
        /\ left' = left /\ index' = index
    BY <1>5 DEF Yield
  <2>2. index <= Len(plan) /\ Len(rung) = index - 1
    BY <2>1 DEF InPlan
  <2>3. index \in 1 .. Len(plan) /\ plan[index] \in BellEvent /\ plan[index].when \in Int
    BY <1>3, <2>2
  <2>4. /\ rung' \in Seq(BellEvent) /\ Len(rung') = index
        /\ \A n \in 1 .. Len(rung) : rung'[n] = rung[n]
        /\ rung'[index] = plan[index]
    <3>1. /\ Append(rung, plan[index]) \in Seq(BellEvent)
          /\ Len(Append(rung, plan[index])) = Len(rung) + 1
          /\ \A n \in 1 .. Len(rung) : Append(rung, plan[index])[n] = rung[n]
          /\ Append(rung, plan[index])[Len(rung) + 1] = plan[index]
      BY <1>3, <2>3, AppendProperties
    <3>2. Len(rung) + 1 = index
      BY <1>3, <2>2
    <3>3. QED
      BY <2>1, <3>1, <3>2
  <2>5. \A n \in 1 .. Len(rung') : rung'[n] = plan[n]
    <3>1. \A n \in 1 .. index : n \in 1 .. Len(rung) \/ n = index
      BY <1>3, <2>2
    <3>2. \A n \in 1 .. Len(rung) : rung[n] = plan[n]
      BY DEF InPlan
    <3>3. QED
      BY <2>4, <3>1, <3>2
  <2>6. ~setBack => ~early'
    <3>1. ~setBack => ~early /\ plan[index].when <= now + left
      BY <2>1 DEF InPlan
    <3>2. ~setBack => ~(now < plan[index].when)
      BY <1>3, <2>1, <2>3, <3>1
    <3>3. QED
      BY <2>1, <3>1, <3>2
  <2>7. BellTypeOK'
    <3>1. early' \in BOOLEAN
      BY <2>1
    <3>2. QED
      BY <1>1, <2>1, <2>4, <3>1 DEF BellTypeOK
  <2>8. index <= Len(plan) + 1
    BY DEF InPlan
  <2>9. InPlan'
    BY <1>1, <1>2, <2>1, <2>2, <2>4, <2>5, <2>6, <2>8 DEF InPlan
  <2>10. QED
    BY <2>7, <2>9
<1>6. CASE AskNext
  <2>1. /\ ring = "yield" /\ index' = index + 1 /\ ring' = "check"
        /\ left' = left /\ rung' = rung /\ early' = early
    BY <1>6 DEF AskNext
  <2>2. index <= Len(plan) /\ Len(rung) = index
    BY <2>1 DEF InPlan
  <2>3. index' \in Nat \ {0} /\ Len(rung) = index' - 1 /\ index' <= Len(plan) + 1
    BY <1>3, <2>1, <2>2
  <2>4. BellTypeOK'
    BY <1>1, <2>1, <2>3 DEF BellTypeOK
  <2>5. InPlan'
    BY <1>1, <1>2, <2>1, <2>3 DEF InPlan
  <2>6. QED
    BY <2>4, <2>5
<1>7. CASE Exhausted
  <2>1. /\ ring = "check" /\ index > Len(plan) /\ ring' = "over" /\ index' = index
        /\ left' = left /\ rung' = rung /\ early' = early
    BY <1>7 DEF Exhausted
  <2>2. BellTypeOK'
    BY <1>1, <2>1 DEF BellTypeOK
  <2>3. InPlan'
    BY <1>1, <1>2, <2>1 DEF InPlan
  <2>4. QED
    BY <2>2, <2>3
<1>8. QED
  BY <1>4, <1>5, <1>6, <1>7

LEMMA ClockStays ==
  ASSUME BellTypeOK, InPlan, Tick \/ (\E t \in Times : SetClock(t)) \/ UNCHANGED bellVars
  PROVE  BellTypeOK' /\ InPlan'
<1>1. /\ slots' = slots /\ lead' = lead /\ plan' = plan /\ ring' = ring /\ index' = index
      /\ rung' = rung /\ early' = early
  BY DEF Tick, SetClock, bellVars
<1>2. ring # "idle" => Sorted(plan) /\ Sorted(plan)'
  BY <1>1, SortedStays DEF InPlan
<1>3. now \in Nat /\ left \in Nat /\ LastTime \in Nat /\ now \in Times
  BY DaysAreTyped, BellAssumption DEF DayTypes, BellTypeOK
<1>4. now' \in Times /\ left' \in Nat /\ setBack' \in BOOLEAN
  <2>1. CASE Tick
    BY <1>3, <2>1 DEF Tick, Times, BellTypeOK
  <2>2. CASE \E t \in Times : SetClock(t)
    BY <1>3, <2>2 DEF SetClock
  <2>3. CASE UNCHANGED bellVars
    BY <2>3 DEF bellVars, BellTypeOK
  <2>4. QED
    BY <2>1, <2>2, <2>3
<1>5. BellTypeOK'
  BY <1>1, <1>4 DEF BellTypeOK
<1>6. ASSUME ~setBack'
      PROVE  ~setBack /\ now + left <= now' + left'
  <2>1. CASE Tick
    BY <1>3, <1>6, <2>1 DEF Tick
  <2>2. CASE \E t \in Times : SetClock(t)
    BY <1>6, <2>2 DEF SetClock
  <2>3. CASE UNCHANGED bellVars
    BY <1>3, <1>6, <2>3 DEF bellVars
  <2>4. QED
    BY <2>1, <2>2, <2>3
<1>7. ASSUME ~setBack', ring = "sleep"
      PROVE  plan[index].when <= now' + left'
  <2>1. plan[index].when <= now + left /\ index <= Len(plan) /\ Sorted(plan)
    BY <1>6, <1>7 DEF InPlan
  <2>2. plan \in Seq(BellEvent) /\ index \in Nat \ {0}
    BY DEF BellTypeOK
  <2>3. plan[index] \in BellEvent
    <3>1. Len(plan) \in Nat
      BY <2>2, LenProperties
    <3>2. index \in 1 .. Len(plan)
      BY <2>1, <2>2, <3>1
    <3>3. QED
      BY <2>2, <3>2, ElementOfSeq
  <2>4. plan[index].when \in Int /\ now' \in Nat /\ left' \in Nat
    BY <1>3, <1>4, <2>3 DEF BellEvent, Times
  <2>5. QED
    BY <1>3, <1>6, <1>7, <2>1, <2>4
<1>8. ~setBack' => ~early
  BY <1>6 DEF InPlan
<1>9. InPlan'
  BY <1>1, <1>2, <1>7, <1>8 DEF InPlan
<1>10. QED
  BY <1>5, <1>9

LEMMA BellStarts == BellInit => BellTypeOK /\ InPlan
<1> SUFFICES ASSUME BellInit PROVE BellTypeOK /\ InPlan
  OBVIOUS
<1>1. << >> \in Seq(Slot) /\ << >> \in Seq(BellEvent) /\ Len(rung) = 0 /\ Len(plan) = 0 /\ 0 \in Times
  BY BellAssumption, EmptySeq DEF BellInit, Times
<1>2. BellTypeOK
  <2>1. /\ ring = "idle" /\ slots = << >> /\ lead = 0 /\ plan = << >> /\ now = 0 /\ left = 0
        /\ index = 1 /\ setBack = FALSE /\ rung = << >> /\ early = FALSE
    BY DEF BellInit
  <2>2. slots \in Seq(Slot) /\ plan \in Seq(BellEvent) /\ rung \in Seq(BellEvent) /\ now \in Times
    BY <1>1, <2>1
  <2>3. lead \in Nat /\ left \in Nat /\ index \in Nat \ {0}
    BY <2>1
  <2>4. QED
    BY <2>1, <2>2, <2>3 DEF BellTypeOK
<1>3. InPlan
  BY <1>1 DEF BellInit, InPlan
<1>4. QED
  BY <1>2, <1>3

LEMMA PlanStays == BellTypeOK /\ InPlan /\ [BellNext]_bellVars => BellTypeOK' /\ InPlan'
<1> SUFFICES ASSUME BellTypeOK, InPlan, [BellNext]_bellVars PROVE BellTypeOK' /\ InPlan'
  OBVIOUS
<1>1. ASSUME NEW s \in BoundedSeq(Slot, MaxSlots), NEW l \in 0 .. MaxLead, NEW t \in Times,
             BellStart(s, l, t)
      PROVE  BellTypeOK' /\ InPlan'
  <2>1. PICK n \in 0 .. MaxSlots : s \in [1 .. n -> Slot]
    BY DEF BoundedSeq, SeqOf
  <2>2. n \in Nat /\ l \in Nat
    BY BellAssumption
  <2>3. s \in Seq(Slot)
    BY <2>1, <2>2, SeqDef
  <2>4. QED
    BY <1>1, <2>2, <2>3, StartStays
<1>2. CASE Delay \/ Yield \/ AskNext \/ Exhausted
  BY <1>2, RingStays
<1>3. CASE Tick \/ (\E t \in Times : SetClock(t)) \/ UNCHANGED bellVars
  BY <1>3, ClockStays
<1>4. QED
  BY <1>1, <1>2, <1>3 DEF BellNext

\* What was rung is in the order of the plan.
LEMMA PlannedIsInOrder == BellTypeOK /\ InPlan => BellsInOrder
<1> SUFFICES ASSUME BellTypeOK, InPlan PROVE BellsInOrder
  OBVIOUS
<1>1. /\ plan \in Seq(BellEvent) /\ rung \in Seq(BellEvent) /\ Len(plan) \in Nat /\ Len(rung) \in Nat
      /\ index \in Nat /\ Len(rung) <= Len(plan) /\ (ring = "over" => Len(rung) = Len(plan))
  <2>1. plan \in Seq(BellEvent) /\ rung \in Seq(BellEvent) /\ index \in Nat
    BY DEF BellTypeOK
  <2>2. Len(plan) \in Nat /\ Len(rung) \in Nat
    BY <2>1, LenProperties
  <2>3. QED
    BY <2>1, <2>2 DEF InPlan
<1>2. ASSUME NEW m \in 1 .. Len(rung), NEW n \in 1 .. Len(rung), m < n
      PROVE  /\ rung[m].when <= rung[n].when
             /\ rung[m].slot = rung[n].slot => rung[m].pri < rung[n].pri
  <2>1. rung[m] = plan[m] /\ rung[n] = plan[n]
    BY DEF InPlan
  <2>2. m \in 1 .. Len(plan) /\ n \in 1 .. Len(plan)
    BY <1>1
  <2>3. ring # "idle"
    <3>1. CASE ring = "idle"
      <4>1. Len(rung) = 0
        BY <1>1, <3>1 DEF InPlan
      <4>2. QED
        BY <4>1
    <3>2. QED
      BY <3>1
  <2>4. plan[m] \in Entries /\ plan[n] \in Entries /\ Precedes(plan[m], plan[n])
    BY <1>2, <2>2, <2>3 DEF InPlan, Sorted
  <2>5. DayTypes
    BY DaysAreTyped
  <2>6. /\ plan[m].when <= plan[n].when
        /\ plan[m].slot = plan[n].slot => plan[m].pri < plan[n].pri
    BY <2>4, <2>5, OrderOfTwo
  <2>7. QED
    BY <2>1, <2>6
<1>3. ASSUME ring = "over"
      PROVE  Entries \subseteq ToSet(rung)
  <2>1. \A e \in Entries : \E r \in 1 .. Len(plan) : plan[r] = e
    BY <1>3 DEF InPlan, Sorted
  <2>2. \A r \in 1 .. Len(plan) : rung[r] = plan[r]
    BY <1>1, <1>3 DEF InPlan
  <2>3. DOMAIN rung = 1 .. Len(plan)
    BY <1>1, <1>3, LenProperties
  <2>4. QED
    BY <2>1, <2>2, <2>3 DEF ToSet
<1>4. ~setBack => ~early
  BY DEF InPlan
<1>5. QED
  BY <1>2, <1>3, <1>4 DEF BellsInOrder

\* For every day, lead and start, however the consumer dawdles, the sleeps oversleep and
\* the clock is set: no event is left out, rung twice, before its time or out of order.
THEOREM BellsRingInOrder == BellSpec => []BellsInOrder
<1>1. BellTypeOK /\ InPlan => BellsInOrder
  BY PlannedIsInOrder
<1>2. QED
  BY <1>1, BellStarts, PlanStays, PTL DEF BellSpec

\* For every day and time: current_lesson, next_lesson and time_to_bell fit together and
\* the bells to come.
THEOREM AnswersAgree == BellSpec => []QueriesAgree
<1>1. BellTypeOK => QueriesAgree
  BY DaysAreTyped, AnswersFit
<1>2. QED
  BY <1>1, BellStarts, PlanStays, PTL DEF BellSpec

THEOREM BellTyped == BellSpec => []BellTypeOK
BY BellStarts, PlanStays, PTL DEF BellSpec

-------------------------------------------------------------------------------
(* The types of calls and of the cache. *)

\* A request is empty until it is built, and an attempt is made only while one is left.
CallTypes ==
  /\ CallsTypeOK
  /\ phase \in {"idle", "build"} => request = NoRequest
  /\ phase \in {"idle", "build", "wire", "wait"} => sends <= Retries

LEMMA NamesAre == \A m \in {"none", "own"} : m \notin DOMAIN Shipped
<1> SUFFICES ASSUME NEW m \in {"none", "own"}, m \in DOMAIN Shipped PROVE FALSE
  OBVIOUS
<1>1. PICK t \in Tables : m \in DOMAIN t
  BY ShippedIsDeclared
<1>2. QED
  BY <1>1, TablesAre DEF Diary, Schedule, Portal, Eje, Printed, Qr, Journal, Reports, Scheduler,
                         Services, Orm

\* A declaration has the name of a shipped method, or is a class of a user's own.
Declares(m, d) ==
  IF m \in DOMAIN Shipped THEN d = Shipped[m]
  ELSE m \in {"none", "own"} /\ d.proto = "rest" /\ d.path \subseteq d.fields

LEMMA OwnDeclares == \A d \in Own : Declares("own", d)
<1> SUFFICES ASSUME NEW d \in Own PROVE Declares("own", d)
  OBVIOUS
<1>1. PICK p, v, q, b : p \in SUBSET {"f", "g"} /\ d = Rest(v, p, q, b, {"f", "g"}, "model")
  BY DEF Own
<1>2. d.proto = "rest" /\ d.path \subseteq d.fields
  BY <1>1 DEF Rest
<1>3. QED
  BY <1>2, NamesAre DEF Declares

\* The fields of a request are among those given, and the X1 model's name.
LEMMA BuiltOfFields ==
  ASSUME SentAsDeclared, phase = "build", method.proto = "rest" => method.path \subseteq given
  PROVE  \A part \in DOMAIN Route(method, given) :
           Route(method, given)[part] \subseteq method.fields \cup {"model"}
<1>1. /\ given \subseteq method.fields
      /\ (name \in DOMAIN Shipped /\ method = Shipped[name]) \/ (name = "own" /\ method \in Own)
  BY DEF SentAsDeclared
<1>2. method.proto \in {"rest", "ext", "x1"} /\ IsFiniteSet(method.fields)
  BY <1>1, OwnIs, ShippedIsComplete DEF Complete
<1>3. IsFiniteSet(given)
  BY <1>1, <1>2, FS_Subset
<1>4. LET r == Route(method, given)
          all == r.path \cup r.query \cup r.body
      IN  /\ Cardinality(all) = Cardinality(r.path) + Cardinality(r.query) + Cardinality(r.body)
          /\ all \subseteq given \cup {"model"}
  BY <1>2, <1>3, RouteCounts
<1> DEFINE r == Route(method, given)
<1>5. r.path \cup r.query \cup r.body \subseteq given \cup {"model"}
  BY <1>4
<1>6. DOMAIN r = {"path", "query", "body"}
  <2>1. CASE method.proto = "rest"
    BY <2>1 DEF Route, RestRoute
  <2>2. CASE method.proto = "ext"
    BY <2>2 DEF Route, NoRequest
  <2>3. CASE method.proto = "x1"
    BY <2>3 DEF Route, NoRequest
  <2>4. QED
    BY <1>2, <2>1, <2>2, <2>3
<1> HIDE DEF r
<1>7. r["path"] = r.path /\ r["query"] = r.query /\ r["body"] = r.body
  OBVIOUS
<1>8. QED
  BY <1>1, <1>5, <1>6, <1>7 DEF r

Outcome == {"none", "value", "not bound", "mutations disabled", "report format",
            "protocol error", "http error", "refused"}

\* The types of a call, those of its declaration and request apart.
Flat ==
  /\ phase \in {"idle", "build", "wire", "wait", "decode", "done"}
  /\ given \subseteq method.fields /\ via \in {"client", "emit", "naked"}
  /\ sends \in 0 .. Retries + 1 /\ changed \in 0 .. Retries + 1
  /\ answer \in Response /\ outcome \in Outcome
  /\ allow \in BOOLEAN /\ registry \in {"none", "shell", "attached"}

LEMMA CallsTyping ==
  CallsTypeOK <=> /\ Flat /\ Declares(name, method)
                  /\ \A part \in DOMAIN request : request[part] \subseteq method.fields \cup {"model"}
BY DEF CallsTypeOK, Flat, Declares, Outcome

LEMMA CallTypesPreserved ==
  ASSUME CallTypes, SentAsDeclared, SentByPhase, SentByPhase', [CallsNext]_callVars
  PROVE  CallTypes'
<1>1. /\ Flat /\ Declares(name, method) /\ Retries \in Nat
      /\ \A part \in DOMAIN request : request[part] \subseteq method.fields \cup {"model"}
      /\ phase \in {"idle", "build"} => request = NoRequest
      /\ phase \in {"idle", "build", "wire", "wait"} => sends <= Retries
  BY CallsTyping, RetriesAssumption DEF CallTypes
<1>2. ASSUME Flat', Declares(name, method)',
             \A part \in DOMAIN request' : request'[part] \subseteq method'.fields \cup {"model"},
             phase' \in {"idle", "build"} => request' = NoRequest,
             phase' \in {"idle", "build", "wire", "wait"} => sends' <= Retries
      PROVE  CallTypes'
  BY <1>2 DEF CallTypes, CallsTypeOK, Flat, Declares, Outcome
<1>3. \A d : \A part \in DOMAIN NoRequest : NoRequest[part] \subseteq d.fields \cup {"model"}
  BY DEF NoRequest
<1>4. ASSUME NEW m, NEW d, NEW g, NEW v, Call(m, d, g, v), g \subseteq d.fields,
             v \in {"client", "emit", "naked"}, Declares(m, d)
      PROVE  CallTypes'
  <2>1. /\ phase = "idle" /\ name' = m /\ method' = d /\ given' = g /\ via' = v
        /\ \/ phase' = "build" /\ outcome' = outcome
           \/ phase' = "done" /\ outcome' \in {"not bound", "mutations disabled", "report format"}
        /\ request' = request /\ sends' = sends /\ answer' = answer /\ allow' = allow
        /\ registry' = registry /\ changed' = changed
    BY <1>4 DEF Call, Finish
  <2>2. request' = NoRequest /\ sends' <= Retries
    BY <1>1, <2>1
  <2>3. Flat'
    BY <1>1, <1>4, <2>1 DEF Flat, Outcome
  <2>4. Declares(name, method)'
    BY <1>4, <2>1 DEF Declares
  <2>5. QED
    BY <1>2, <1>3, <2>2, <2>3, <2>4
<1>5. CASE \E m \in DOMAIN Shipped, v \in {"client", "emit", "naked"} :
             \E g \in {Shipped[m].fields, Shipped[m].fields \ Optional} : Call(m, Shipped[m], g, v)
  <2>1. PICK m \in DOMAIN Shipped, v \in {"client", "emit", "naked"} :
               \E g \in {Shipped[m].fields, Shipped[m].fields \ Optional} : Call(m, Shipped[m], g, v)
    BY <1>5
  <2>2. PICK g \in {Shipped[m].fields, Shipped[m].fields \ Optional} : Call(m, Shipped[m], g, v)
    BY <2>1
  <2>3. Declares(m, Shipped[m]) /\ g \subseteq Shipped[m].fields
    BY DEF Declares
  <2>4. QED
    BY <1>4, <2>2, <2>3
<1>6. CASE \E d \in Own : \E g \in SUBSET d.fields : Call("own", d, g, "client")
  BY <1>4, <1>6, OwnDeclares
<1>7. ASSUME UNCHANGED <<method, name>>
      PROVE  Declares(name, method)'
  BY <1>1, <1>7 DEF Declares
<1>8. CASE ShellRead
  <2>1. /\ registry' \in {"shell", "attached"} /\ phase' = phase /\ given' = given /\ via' = via
        /\ request' = request /\ sends' = sends /\ answer' = answer /\ outcome' = outcome
        /\ allow' = allow /\ changed' = changed /\ method' = method /\ name' = name
    BY <1>1, <1>8 DEF ShellRead, Flat
  <2>2. Flat'
    BY <1>1, <2>1 DEF Flat
  <2>3. QED
    BY <1>1, <1>2, <1>7, <2>1, <2>2
<1>9. CASE Build
  <2>1. /\ phase = "build" /\ given' = given /\ via' = via /\ sends' = sends /\ answer' = answer
        /\ allow' = allow /\ changed' = changed /\ method' = method /\ name' = name
        /\ registry' = registry
        /\ \/ phase' = "done" /\ outcome' = "protocol error" /\ request' = request
           \/ /\ phase' = "wire" /\ request' = Route(method, given) /\ outcome' = outcome
              /\ method.proto = "rest" => method.path \subseteq given
    BY <1>9 DEF Build, Finish
  <2>2. Flat'
    BY <1>1, <2>1 DEF Flat, Outcome
  <2>3. \A part \in DOMAIN request' : request'[part] \subseteq method'.fields \cup {"model"}
    BY <1>1, <2>1, BuiltOfFields
  <2>4. sends' <= Retries /\ phase' \notin {"idle", "build"}
    BY <1>1, <2>1
  <2>5. QED
    BY <1>2, <1>7, <2>1, <2>2, <2>3, <2>4
<1>10. CASE Attempt
  <2>1. /\ phase = "wire" /\ sends' = sends + 1 /\ given' = given /\ via' = via
        /\ request' = request /\ allow' = allow /\ method' = method /\ name' = name
        /\ registry' = registry
        /\ \/ phase' = "decode" /\ outcome' = outcome
           \/ phase' = "wait" /\ outcome' = outcome /\ sends < Retries
           \/ phase' = "done" /\ outcome' = "http error"
        /\ answer' = answer \/ answer' \in Response
    BY <1>10 DEF Attempt, Finish
  <2>2. Retries \in Nat /\ sends \in Nat /\ sends <= Retries /\ sends' = sends + 1
    BY <1>1, <2>1 DEF SentByPhase
  <2>3. sends' \in 0 .. Retries + 1 /\ (sends < Retries => sends' <= Retries)
    BY <2>2
  <2>4. sends' \in 0 .. Retries + 1 /\ (phase' = "wait" => sends' <= Retries)
    BY <2>1, <2>3
  <2>5. changed' \in 0 .. Retries + 1
    BY <1>1, <2>4 DEF SentByPhase
  <2>6. Flat'
    BY <1>1, <2>1, <2>4, <2>5 DEF Flat, Outcome
  <2>7. QED
    BY <1>1, <1>2, <1>7, <2>1, <2>4, <2>6
<1>11. CASE Retry \/ UNCHANGED callVars
  <2>1. /\ given' = given /\ via' = via /\ sends' = sends /\ answer' = answer
        /\ allow' = allow /\ changed' = changed /\ method' = method /\ name' = name
        /\ registry' = registry /\ outcome' = outcome /\ request' = request
        /\ \/ phase' = phase
           \/ phase = "wait" /\ phase' = "wire"
    BY <1>11 DEF Retry, callVars
  <2>2. Flat'
    BY <1>1, <2>1 DEF Flat
  <2>3. QED
    BY <1>1, <1>2, <1>7, <2>1, <2>2
<1>12. CASE Decoded
  <2>1. /\ given' = given /\ via' = via /\ sends' = sends /\ answer' = answer
        /\ allow' = allow /\ changed' = changed /\ method' = method /\ name' = name
        /\ registry' = registry /\ outcome' = Decode(method, answer) /\ request' = request
        /\ phase' = "done"
    BY <1>12 DEF Decoded, Finish
  <2>2. Decode(method, answer) \in {"value", "refused", "protocol error"}
    BY DEF Decode, RestDecode, RpcDecode
  <2>3. Flat'
    BY <1>1, <2>1, <2>2 DEF Flat, Outcome
  <2>4. QED
    BY <1>1, <1>2, <1>7, <2>1, <2>3
<1>13. QED
  BY <1>5, <1>6, <1>8, <1>9, <1>10, <1>11, <1>12 DEF CallsNext

LEMMA CallsTyped == CallsSpec => []CallsTypeOK
<1>1. CallsInit => CallTypes
  <2> SUFFICES ASSUME CallsInit PROVE CallTypes
    OBVIOUS
  <2>1. name = "none" /\ method = Shipped["GetShell"] /\ given = {}
    BY DEF CallsInit
  <2>2. method.proto = "rest" /\ method.path \subseteq method.fields
    <3>1. "GetShell" \in DOMAIN Portal /\ Portal \in Tables
      BY DEF Portal, Tables
    <3>2. PICK t \in Tables : "GetShell" \in DOMAIN t /\ Shipped["GetShell"] = t["GetShell"]
      BY <3>1, ShippedIsDeclared DEF Shipped
    <3>3. t = Portal
      BY <3>2, TablesAre DEF Diary, Schedule, Eje, Printed, Qr, Journal, Reports, Scheduler,
                             Services, Orm
    <3>4. method = GetAll({}, {}, "html")
      BY <2>1, <3>2, <3>3 DEF Portal
    <3>5. QED
      BY <3>4 DEF GetAll, Rest
  <2>3. Declares(name, method)
    BY <2>1, <2>2, NamesAre DEF Declares
  <2>4. Flat
    BY <2>1, RetriesAssumption DEF CallsInit, Flat, Outcome, Response
  <2>5. \A part \in DOMAIN NoRequest : NoRequest[part] \subseteq method.fields \cup {"model"}
    BY DEF NoRequest
  <2>6. QED
    BY <2>3, <2>4, <2>5, CallsTyping, RetriesAssumption DEF CallsInit, CallTypes
<1>2. CallsSpec => []CallTypes
  BY <1>1, CallTypesPreserved, CallInvHolds, SentAsDeclaredHolds, PTL DEF CallsSpec, CallInv
<1>3. QED
  BY <1>2, PTL DEF CallTypes

-------------------------------------------------------------------------------
(* The types of the cache. *)

IsHit(hit) == hit = NoFile \/ (hit.age \in Nat /\ {hit.dated, hit.behind} \subseteq BOOLEAN)

LEMMA CacheTypesPreserved ==
  ASSUME CachesTypeOK, CacheInv, CacheInv', [CachesNext]_cacheVars
  PROVE  CachesTypeOK'
<1>1. /\ ttl \in {0, Ttl} /\ racing \in BOOLEAN /\ IsHit(served)
      /\ time \in Nat /\ newest \in Nat /\ (bin # NoFile => bin \in Blob /\ bin.stored_at <= time)
  BY DEF CachesTypeOK, CacheInv, EntryOK, IsHit
<1>2. /\ time' \in Nat /\ skew' \in 0 .. 1 /\ newest' \in Nat /\ bin' \in Blob \cup {NoFile}
      /\ stamp' \in Int /\ loads' \in [Loaders -> Int]
  BY DEF CacheInv, EntryOK
<1>3. ttl' = ttl
  BY DEF CachesNext, Download, Respond, Put, PutBreaks, LoadFails, Drop, Die, Pass, SetWall,
         cacheVars
<1>4. ASSUME NEW l \in Loaders, NEW bypass \in BOOLEAN, Download(l, bypass)
      PROVE  racing' \in BOOLEAN /\ IsHit(served')
  <2>1. CASE Live /\ ~bypass
    <3>1. /\ served' = [stored_at |-> bin.stored_at, age |-> time - bin.stored_at,
                        dated |-> stamp # Missing, behind |-> bin.given_at < newest]
          /\ racing' = racing
      BY <1>4, <2>1 DEF Download
    <3>2. bin.stored_at \in Nat /\ bin.stored_at <= time
      BY <1>1, <2>1 DEF Live, Blob
    <3>3. time - bin.stored_at \in Nat
      BY <1>1, <3>2
    <3>4. served'.age \in Nat /\ {served'.dated, served'.behind} \subseteq BOOLEAN
      BY <3>1, <3>3
    <3>5. QED
      BY <1>1, <3>1, <3>4 DEF IsHit
  <2>2. CASE ~(Live /\ ~bypass)
    BY <1>1, <1>4, <2>2 DEF Download
  <2>3. QED
    BY <2>1, <2>2
<1>5. ASSUME served' = served, racing' = racing
      PROVE  racing' \in BOOLEAN /\ IsHit(served')
  BY <1>1, <1>5
<1>6. \/ \E l \in Loaders, bypass \in BOOLEAN : Download(l, bypass)
      \/ served' = served /\ racing' = racing
  BY DEF CachesNext, Respond, Put, PutBreaks, LoadFails, Drop, Die, Pass, SetWall,
         cacheVars
<1>7. QED
  BY <1>1, <1>2, <1>3, <1>4, <1>5, <1>6 DEF CachesTypeOK, IsHit

LEMMA CachesTyped == CachesSpec => []CachesTypeOK
<1>1. CachesInit => CacheInv
  BY CachesAssumption
  DEF CachesInit, CacheInv, EntryOK, StampIsOld, NothingOvertaken, ServedIsFresh, Missing, Unused
<1>2. CachesInit => CachesTypeOK
  <2> SUFFICES ASSUME CachesInit PROVE CachesTypeOK
    OBVIOUS
  <2>1. stamp \in Int /\ loads \in [Loaders -> Int]
    BY DEF CachesInit, Missing, Unused
  <2>2. time \in Nat /\ skew \in 0 .. 1 /\ newest \in Nat
    BY DEF CachesInit
  <2>3. ttl \in {0, Ttl} /\ racing \in BOOLEAN /\ served = NoFile /\ bin = NoFile
    BY DEF CachesInit
  <2>4. QED
    BY <2>1, <2>2, <2>3 DEF CachesTypeOK
<1>3. QED
  BY <1>1, <1>2, CacheTypesPreserved, CacheInvPreserved, PTL DEF CachesSpec

-------------------------------------------------------------------------------
(* The parts together. *)

\* Each part of the client moves as its own specification says, whatever the others do.
LEMMA PartsApart ==
  ReadingSpec => CallsSpec /\ PagingSpec /\ WatchersSpec /\ BellSpec /\ CachesSpec
<1>1. ReadingInit => CallsInit /\ PagingInit /\ WatchersInit /\ BellInit /\ CachesInit
  BY DEF ReadingInit
<1>2. [ReadingNext]_<<callVars, pageVars, watchVars, bellVars, cacheVars>> =>
        /\ [CallsNext]_callVars /\ [PagingNext]_pageVars /\ [WatchersNext]_watchVars
        /\ [BellNext]_bellVars /\ [CachesNext]_cacheVars
  BY DEF ReadingNext
<1>3. QED
  BY <1>1, <1>2, PTL DEF ReadingSpec, CallsSpec, PagingSpec, WatchersSpec, BellSpec, CachesSpec

\* Every variable of what a client reads with has its type: attempts stay within the retries,
\* requests within their fields, and windows, snapshots, plans and cache entries keep their
\* shape (client.py:258-637).
THEOREM ReadingTypeCorrect == ReadingSpec => []ReadingTypeOK
BY PartsApart, CallsTyped, PagingTyped, WatchersTyped, BellTyped, CachesTyped, PTL
DEF ReadingTypeOK

\* What each part promises holds of the client that has them all: calls are carried out and
\* answered, fields sent, pages drawn, changes told, bells rung and hits served as said above
\* (client.py:258-637).
THEOREM ReadingIsSafe ==
  ReadingSpec => [](/\ SentOnce /\ ChangesOnce /\ ValueIsAnswer /\ NothingSkipped /\ InOrderAlone
                    /\ EventsTellTheChange /\ BellsInOrder /\ QueriesAgree /\ ServedIsFresh)
BY PartsApart, FieldsAreSentOnce, ChangesAreMadeOnce, ValuesAreAnswers, NothingIsSkipped,
   DrawnInOrder, ChangesAreTold, BellsRingInOrder, AnswersAgree, HitsAreFresh, PTL

===============================================================================
