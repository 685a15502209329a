------------------------------- MODULE Protocols -------------------------------
(***************************************************************************)
(* One call of the SDK, from the method object to its typed result: the    *)
(* declarations of all method classes, how the three request protocols     *)
(* (REST, Ext.Direct, X1) route their fields into a request, which         *)
(* failures the funnel retries and what each protocol makes of an answer.  *)
(* Field values are abstracted to their names; an answer to its kind.      *)
(***************************************************************************)
EXTENDS Naturals, FiniteSets

CONSTANT Retries   \* ClientConfig.retries

ASSUME RetriesAssumption == Retries \in Nat

VARIABLES
  phase,      \* "idle", "build", "wire", "wait", "decode" or "done"
  method,     \* the declaration of the class called
  name,       \* its name
  given,      \* its fields that are not None
  via,        \* "client" for client(m) or await m.as_(client), "emit" for m.emit(client),
              \* "naked" for await m
  request,    \* the fields in the path, the query and the body
  sends,      \* attempts made
  answer,     \* the kind of the last response
  outcome,    \* of the call: "none" while it runs
  allow,      \* config.allow_mutations
  registry,   \* "none", "shell" once get_shell() returned, "attached" as client.registry
  changed     \* history: how often the portal carried out what the call asks for

callVars == <<phase, method, name, given, via, request, sends, answer, outcome, allow,
              registry, changed>>

-------------------------------------------------------------------------------
(* Declarations.  An override of __query_fields__ or __body_fields__ is a  *)
(* set of at most one set of names.  A "lenient" result is one whose       *)
(* fields all have defaults, so that every JSON object is a valid one.     *)

Rest(verb, path, query, body, others, returns) ==
  [proto |-> "rest", verb |-> verb, path |-> path, query |-> query, body |-> body,
   fields |-> path \cup others, returns |-> returns]
Get(path, names, returns) == Rest("GET", path, {names}, {}, names, returns)
GetAll(path, others, returns) == Rest("GET", path, {}, {}, others, returns)

\* verb is the prefix of the RPC method's name, by which is_idempotent() judges; body holds
\* __arg_order__ (Ext.Direct), X1 sends every field.
Rpc(proto, verb, fields, returns) ==
  [proto |-> proto, verb |-> verb, path |-> {}, query |-> {}, body |-> {fields},
   fields |-> fields, returns |-> returns]
Ext(verb, args, returns) == Rpc("ext", verb, args, returns)
X1(verb, fields) == Rpc("x1", verb, fields, "model")

Diary == [GetDiary |-> Get({"participant_guid"}, {"date"}, "model"),
          GetDiaryXls |-> Get({"participant_guid"}, {"date", "format"}, "bytes"),
          GetMarksReport |-> Rest("GET", {"participant_guid"}, {{"withDates"}}, {},
                                  {"with_dates"}, "model")]
Schedule == [GetSchedule |-> Get({"grade_guid", "date_str"}, {"single"}, "model"),
             GetCurrentSchedule |-> GetAll({}, {}, "model")]
Portal == [GetShell |-> GetAll({}, {}, "html"), GetAvatar |-> GetAll({"uuid"}, {}, "bytes"),
           CheckAuth |-> Get({}, {"value"}, "model"),
           GetOAuthConfig |-> GetAll({}, {}, "lenient")]
Eje == [m \in {"EjeHomework", "EjeJournalPlanner", "EjeParticipants", "EjeTopics",
               "EjeIntegrations"} |-> GetAll({}, {}, "lenient")]
Printed == [GetReportXls |-> GetAll({"base", "tail"}, {"params", "format"}, "bytes"),
            GetReportHtml |-> GetAll({"base", "tail"}, {"params"}, "html")]
Qr == [GenerateQr |-> Rest("POST", {}, {}, {}, {}, "model"),
       ConfirmQr |-> Rest("POST", {}, {}, {{"code"}}, {"code"}, "lenient")]
Reports == [m \in {"GetGrades", "GetYears", "GetPeriods", "GetTeachers", "GetGradeTypes",
                   "GetMarkTypes", "GetParticipants", "ShowPerformanceByGrade"} |->
              Ext(IF m = "ShowPerformanceByGrade" THEN "show" ELSE "get", {}, "model")]
Scheduler == [m \in {"SchedGetGrades", "SchedGetTeachers", "GetJournals"} |->
                Ext("get", {}, "model")]
Journal == [ReadJournal |-> Ext("read", {"grades"}, "model"),
            GetJournal |-> Ext("get", {"journal_guid"}, "model"),
            SaveJournal |-> Ext("save", {"journal_guid", "state", "rows"}, "model"),
            DeleteJournal |-> Ext("delete", {"journal_guid"}, "none")]
Services == [MonitoringRead |-> Ext("read", {"grades"}, "lenient"),
             MonitoringReadSkip |-> Ext("read", {"part"}, "lenient"),
             GetReception |-> Ext("get", {"start", "end", "type"}, "model")]
Orm == [X1Query |-> X1("select", {"model", "where", "limit"}),
        X1Get |-> X1("get", {"model", "guid"}),
        GetUserNotifications |-> X1("select", {"where", "limit"})]

Tables == {Diary, Schedule, Portal, Eje, Printed, Qr, Reports, Scheduler, Journal, Services,
           Orm}
Shipped == [m \in UNION {DOMAIN t : t \in Tables} |-> (CHOOSE t \in Tables : m \in DOMAIN t)[m]]

\* A class of a user's own, with two fields routed in any way a declaration can say.
Own == UNION {{Rest(v, p, q, b, {"f", "g"}, "model") :
                 q, b \in {{}} \cup {{s} : s \in SUBSET {"f", "g"}}} :
                v \in {"GET", "POST"}, p \in SUBSET {"f", "g"}}

Guarded == {"SaveJournal", "DeleteJournal"}               \* emit() asks allow_mutations
Mutations == Guarded \cup {"GenerateQr", "ConfirmQr"}     \* what is not only read
Optional == {"limit"}

-------------------------------------------------------------------------------
(* Building the request. *)

NoRequest == [path |-> {}, query |-> {}, body |-> {}]
Bodyless == {"GET", "HEAD", "DELETE", "OPTIONS"}

\* Mutant of RestRoute: a query field of a body verb stays in the body.
RestRouteTwice(d, g) ==
  LET left == g \ d.path
      query == IF d.query # {} THEN left \cap UNION d.query
               ELSE IF d.verb \in Bodyless THEN left ELSE {}
      body == IF d.body # {} THEN left \cap UNION d.body ELSE left
  IN  [path |-> d.path, query |-> query,
       body |-> IF d.verb \in Bodyless THEN {} ELSE body]

RestRoute(d, g) ==
  LET left == g \ d.path
      query == IF d.query # {} THEN left \cap UNION d.query
               ELSE IF d.verb \in Bodyless THEN left ELSE {}
      body == IF d.body # {} THEN left \cap UNION d.body ELSE left
  IN  [path |-> d.path, query |-> query,
       body |-> IF d.verb \in Bodyless THEN {} ELSE body \ query]

\* The X1 model's name (one that the shell knows) resolves only through the client a method
\* is bound to; emit() alone does not bind.
Resolved == via = "client" /\ registry = "attached"

Route(d, g) ==
  CASE d.proto = "rest" -> RestRoute(d, g)
    [] d.proto = "ext"  -> [NoRequest EXCEPT !.body = g \cap UNION d.body]
    [] d.proto = "x1"   -> [NoRequest EXCEPT !.body = g \cup {"model"}]

\* Mutant of IsIdempotent: every RPC counts as a read.
IsIdempotentRpc(d) == d.proto # "rest" \/ d.verb \in {"GET", "HEAD"}

IsIdempotent(d) ==
  d.verb \in CASE d.proto = "rest" -> {"GET", "HEAD"}
               [] d.proto = "ext"  -> {"get", "read", "show", "list", "fetch", "load"}
               [] d.proto = "x1"   -> {"query", "get", "list", "read", "select", "find"}

-------------------------------------------------------------------------------
(* Decoding. "answer" is what the method asks for; "odd" an answer of      *)
(* success whose result is an object of another shape; "refusal" an        *)
(* exception envelope; "other" another JSON object; "page" HTML, such as a *)
(* login page.                                                             *)

Response == {"answer", "odd", "refusal", "other", "page", "empty"}
Objects == {"odd", "refusal", "other"}

\* An X1 result of an unknown shape is an empty page; a method without __returning__ takes
\* any result.
TakesAny(d) == d.proto = "x1" \/ d.returns \in {"none", "lenient"}

RestDecode(d, r) ==
  IF \/ d.returns \in {"bytes", "html"} \/ r = "answer"
     \/ d.returns = "lenient" /\ r \in Objects
  THEN "value" ELSE "protocol error"

\* Mutant of RpcDecode: a method that returns nothing does not look at the envelope.
RpcDecodeBlind(d, r) ==
  IF d.returns = "none" \/ r = "answer" \/ (r = "odd" /\ TakesAny(d)) THEN "value"
  ELSE IF r = "refusal" THEN "refused" ELSE "protocol error"

RpcDecode(d, r) ==
  CASE r = "answer"              -> "value"
    [] r = "refusal"             -> "refused"
    [] r = "odd" /\ TakesAny(d)  -> "value"
    [] OTHER                     -> "protocol error"

Decode(d, r) == IF d.proto = "rest" THEN RestDecode(d, r) ELSE RpcDecode(d, r)

-------------------------------------------------------------------------------
(* The call. *)

Finish(o) == phase' = "done" /\ outcome' = o

CallsInit ==
  /\ phase = "idle" /\ name = "none" /\ method = Shipped["GetShell"] /\ given = {}
  /\ via = "client" /\ request = NoRequest /\ sends = 0 /\ answer = "empty"
  /\ outcome = "none" /\ allow \in BOOLEAN /\ registry = "none" /\ changed = 0

\* client.get_shell() returned a ShellConfig; its user may build an X1ModelRegistry from it
\* and put that where X1Protocol looks, on the client: nothing in the client does.
ShellRead ==
  /\ phase = "idle"
  /\ registry' = [none |-> "shell", shell |-> "attached", attached |-> "attached"][registry]
  /\ UNCHANGED <<phase, method, name, given, via, request, sends, answer, outcome, allow,
                 changed>>

\* The guards of emit(), of __await__() and of GetReportXls(), for a form without XLS.
Call(m, d, g, v) ==
  /\ phase = "idle"
  /\ name' = m /\ method' = d /\ given' = g /\ via' = v
  /\ \/ v = "naked" /\ Finish("not bound")
     \/ v # "naked" /\ m \in Guarded /\ ~allow /\ Finish("mutations disabled")
     \/ m = "GetReportXls" /\ Finish("report format")
     \/ v # "naked" /\ (m \in Guarded => allow) /\ phase' = "build" /\ UNCHANGED outcome
  /\ UNCHANGED <<request, sends, answer, allow, registry, changed>>

Build ==
  /\ phase = "build"
  /\ IF \/ method.proto = "rest" /\ ~(method.path \subseteq given)
        \/ method.proto = "x1" /\ ~Resolved
     THEN Finish("protocol error") /\ UNCHANGED request
     ELSE phase' = "wire" /\ request' = Route(method, given) /\ UNCHANGED outcome
  /\ UNCHANGED <<method, name, given, via, sends, answer, allow, registry, changed>>

\* _send(): the portal does what is asked, and answers or not; or it refuses; or a network
\* error or a retryable status comes back, or another status, which is raised.
Attempt ==
  /\ phase = "wire"
  /\ sends' = sends + 1
  /\ \/ \E r \in Response :
          /\ phase' = "decode" /\ answer' = r /\ UNCHANGED outcome
          /\ changed' = IF r \in {"answer", "odd"} THEN changed + 1 ELSE changed
     \/ /\ changed' \in {changed, changed + 1} /\ UNCHANGED answer
        /\ \/ /\ IsIdempotent(method) /\ sends < Retries
              /\ phase' = "wait" /\ UNCHANGED outcome
           \/ Finish("http error")
  /\ UNCHANGED <<method, name, given, via, request, allow, registry>>

Retry ==
  /\ phase = "wait"
  /\ phase' = "wire"
  /\ UNCHANGED <<method, name, given, via, request, sends, answer, outcome, allow,
                 registry, changed>>

Decoded ==
  /\ phase = "decode"
  /\ Finish(Decode(method, answer))
  /\ UNCHANGED <<method, name, given, via, request, sends, answer, allow, registry, changed>>

CallsNext ==
  \/ ShellRead
  \/ \E m \in DOMAIN Shipped, v \in {"client", "emit", "naked"} :
       \E g \in {Shipped[m].fields, Shipped[m].fields \ Optional} : Call(m, Shipped[m], g, v)
  \/ \E d \in Own : \E g \in SUBSET d.fields : Call("own", d, g, "client")
  \/ Build \/ Attempt \/ Retry \/ Decoded

CallsSpec == CallsInit /\ [][CallsNext]_callVars

-------------------------------------------------------------------------------
(* Properties. *)

\* Every variable has its type.
CallsTypeOK ==
  /\ phase \in {"idle", "build", "wire", "wait", "decode", "done"}
  /\ IF name \in DOMAIN Shipped THEN method = Shipped[name]
     ELSE name \in {"none", "own"} /\ method.proto = "rest" /\ method.path \subseteq method.fields
  /\ given \subseteq method.fields /\ via \in {"client", "emit", "naked"}
  /\ \A part \in DOMAIN request : request[part] \subseteq method.fields \cup {"model"}
  /\ sends \in 0 .. Retries + 1 /\ answer \in Response
  /\ outcome \in {"none", "value", "not bound", "mutations disabled", "report format",
                  "protocol error", "http error", "refused"}
  /\ allow \in BOOLEAN /\ registry \in {"none", "shell", "attached"}
  /\ changed \in 0 .. Retries + 1

\* However a class declares its routing, no field is sent in two places and none that was
\* not given; and of what a shipped call was given everything is sent, with_dates of
\* GetMarksReport excepted, which its __query_fields__ calls by another name.
SentOnce ==
  phase \in {"wire", "wait", "decode"} =>
    LET all == request.path \cup request.query \cup request.body
    IN  /\ Cardinality(all) = Cardinality(request.path) + Cardinality(request.query)
                                + Cardinality(request.body)
        /\ all \subseteq given \cup {"model"}
        /\ name # "own" => given \ all \subseteq {"with_dates"}

\* The portal carries out a call that is not a mere read at most once, however often the
\* funnel retries, and a guarded one never while mutations are off (journal.py:3).
ChangesOnce ==
  /\ name \in Mutations => changed <= 1 /\ sends <= 1
  /\ name \in Guarded /\ ~allow => sends = 0

\* A call that returns was carried out by the portal, of which the answer tells: an
\* exception envelope, a login page or nothing at all is no value, except where the method
\* hands on what it gets (bytes, HTML) or its result accepts every object (REST only: an
\* RPC result is looked for in an envelope first).
ValueIsAnswer ==
  outcome = "value" =>
    \/ answer = "answer" /\ changed >= 1
    \/ method.returns \in {"bytes", "html"}
    \/ answer = "odd" /\ TakesAny(method)
    \/ answer \in Objects /\ method.proto = "rest" /\ method.returns = "lenient"

\* notifications.py:6 (and x1.py:25): the model's name is resolved "at request time via the
\* client's registry (populated during bootstrap)".
X1CallsAreSent ==
  via = "client" /\ registry # "none" /\ method.proto = "x1" =>
    ~(outcome = "protocol error" /\ sends = 0)

===============================================================================
