------------------------------ MODULE Login_proofs ------------------------------
(***************************************************************************)
(* Proofs about the two logins.  EsiaReplay, for every limit of its two    *)
(* redirect loops: the password goes out at most once and the error says   *)
(* whether it did, the cookie is found exactly where it was set, and the   *)
(* number of requests is bounded however the portals redirect.  QrLogin,   *)
(* for every set of codes, every error limit and every stream: the parser  *)
(* yields the events of the complete blocks, the login goes on, gives up   *)
(* or exchanges a code as these events justify it, the portal sees a       *)
(* one-time code at most once, and a login holds only a cookie that this   *)
(* code was exchanged for.                                                 *)
(***************************************************************************)
EXTENDS MCLogin, TLAPS, FiniteSetTheorems, SequenceTheorems

-------------------------------------------------------------------------------
(* EsiaReplay *)

\* What each place of the replay says of the password and of the step of the error.
PasswordByPlace ==
  /\ at \in {"idle", "redirect", "ac"} => posted = 0
  /\ at \in {"login", "chain", "replayed"} => posted = 1
  /\ at = "error" <=> step # 0

\* What each place says of the requests sent.
SentByPlace ==
  /\ at = "idle" => sent = 0
  /\ at = "redirect" => sent = 1
  /\ at = "ac" => sent = 2 + hops
  /\ at = "login" => sent <= 3 + MaxAcHops
  /\ at = "chain" => sent <= 3 + MaxAcHops + hops

ReplayInv == /\ EsiaTypeOK /\ PasswordOnce /\ CookieIsFound /\ RequestsBounded
             /\ PasswordByPlace /\ SentByPlace

\* One answer of the portal or of ESIA, wherever the replay is.
LEMMA AnswerPreserves ==
  ASSUME ReplayInv, NEW r \in Response, Answer(r)
  PROVE  ReplayInv'
<1> USE EsiaAssumption DEF ReplayInv, EsiaTypeOK, PasswordOnce, CookieIsFound, RequestsBounded,
        PasswordByPlace, SentByPlace, Response, Awaiting, Over, Fails, Request
<1>1. CASE Redirected(r)
  BY <1>1 DEF Redirected
<1>2. CASE AcAnswered(r)
  BY <1>2 DEF AcAnswered
<1>3. CASE LoginAnswered(r)
  BY <1>3 DEF LoginAnswered, Follow
<1>4. CASE ChainAnswered(r)
  <2>1. /\ at = "chain" /\ ~chainSet /\ ~cookieSet /\ posted = 1 /\ step = 0 /\ ~captcha
        /\ captcha' = captcha /\ chainSet' \in BOOLEAN /\ (chainSet' <=> r.x1)
    BY <1>4 DEF ChainAnswered
  <2>2. CASE r.x1
    <3>1. at' = "replayed" /\ cookieSet' = TRUE /\ UNCHANGED <<step, hops, posted, sent>>
      BY <1>4, <2>2 DEF ChainAnswered
    <3>2. cookieSet' \in BOOLEAN /\ captcha' \in BOOLEAN /\ cookieSet' /\ chainSet' /\ ~captcha'
      BY <2>1, <2>2, <3>1
    <3> QED
      BY <2>1, <3>1, <3>2
  <2>3. CASE ~r.x1 /\ r.location /\ hops < MaxHops
    <3>1. /\ at' = "chain" /\ hops' = hops + 1 /\ sent' = sent + 1
          /\ UNCHANGED <<step, cookieSet, posted>>
      BY <1>4, <2>3 DEF ChainAnswered, Follow
    <3>2. ~chainSet' /\ ~cookieSet' /\ ~captcha' /\ cookieSet' \in BOOLEAN /\ captcha' \in BOOLEAN
      BY <2>1, <2>3, <3>1
    <3> QED
      BY <2>1, <2>3, <3>1, <3>2
  <2>4. CASE ~r.x1 /\ ~(r.location /\ hops < MaxHops)
    <3>1. at' = "error" /\ step' = 6 /\ UNCHANGED <<hops, posted, sent, cookieSet>>
      BY <1>4, <2>4 DEF ChainAnswered, Follow
    <3>2. ~chainSet' /\ ~cookieSet' /\ ~captcha' /\ cookieSet' \in BOOLEAN /\ captcha' \in BOOLEAN
      BY <2>1, <2>4, <3>1
    <3> QED
      BY <2>1, <3>1, <3>2
  <2> QED
    BY <2>2, <2>3, <2>4
<1> QED
  BY <1>1, <1>2, <1>3, <1>4 DEF Answer

\* Every step of the replay preserves the invariant.
LEMMA ReplayInvPreserved == ReplayInv /\ [EsiaNext]_esiaVars => ReplayInv'
<1> SUFFICES ASSUME ReplayInv, [EsiaNext]_esiaVars PROVE ReplayInv'
  OBVIOUS
<1> USE EsiaAssumption DEF ReplayInv, EsiaTypeOK, PasswordOnce, CookieIsFound, RequestsBounded,
        PasswordByPlace, SentByPlace, Awaiting, Over
<1>1. CASE Begin
  BY <1>1 DEF Begin, Request
<1>2. CASE TransportFails
  BY <1>2 DEF TransportFails, Fails
<1>3. CASE Raises
  BY <1>3 DEF Raises
<1>4. CASE \E r \in Response : Answer(r)
  BY <1>4, AnswerPreserves
<1>5. CASE UNCHANGED esiaVars
  BY <1>5 DEF esiaVars
<1> QED
  BY <1>1, <1>2, <1>3, <1>4, <1>5 DEF EsiaNext

LEMMA ReplayInvHolds == EsiaSpec => []ReplayInv
<1>1. ASSUME EsiaInit PROVE ReplayInv
  <2>1. ~cookieSet /\ ~captcha /\ ~chainSet
    BY <1>1 DEF EsiaInit
  <2>2. cookieSet \in BOOLEAN /\ captcha \in BOOLEAN /\ chainSet \in BOOLEAN
    BY <1>1, Zenon DEF EsiaInit
  <2>3. PasswordOnce /\ CookieIsFound /\ PasswordByPlace
    BY <1>1, <2>1 DEF EsiaInit, PasswordOnce, CookieIsFound, PasswordByPlace
  <2>4. RequestsBounded /\ SentByPlace
    BY <1>1, EsiaAssumption DEF EsiaInit, RequestsBounded, SentByPlace
  <2> QED
    BY <1>1, <2>2, <2>3, <2>4, EsiaAssumption DEF EsiaInit, ReplayInv, EsiaTypeOK, Awaiting, Over
<1> QED
  BY <1>1, ReplayInvPreserved, PTL DEF EsiaSpec

\* The replay's variables keep their types, and neither redirect loop exceeds its limit.
THEOREM EsiaTypeCorrect == EsiaSpec => []EsiaTypeOK
BY ReplayInvHolds, PTL DEF ReplayInv

\* The password is posted at most once, and the step of the error tells whether it was
\* (esia.py:223).
THEOREM PasswordIsSentOnce == EsiaSpec => []PasswordOnce
BY ReplayInvHolds, PTL DEF ReplayInv

\* X1_SSO is found in whichever response of the callback chain sets it (esia.py:264).
THEOREM CookieNotOverlooked == EsiaSpec => []CookieIsFound
BY ReplayInvHolds, PTL DEF ReplayInv

\* However the portals redirect, the number of requests is bounded (esia.py:202, 264).
THEOREM RequestsAreBounded == EsiaSpec => []RequestsBounded
BY ReplayInvHolds, PTL DEF ReplayInv

-------------------------------------------------------------------------------
(* QrLogin *)

BeforeExchange == {"idle", "generate", "display", "open", "read", "close"}

\* Where the login is tells whether its code was sent.
SpentByPlace ==
  /\ pc \in BeforeExchange \cup {"confirm"} => spent = << >>
  /\ pc = "confirm" => code # NoCode
  /\ pc \in {"confirmed", "jwt", "shell", "done"} => spent = <<code>> /\ code # NoCode
  /\ spent # << >> => spent = <<code>> /\ code # NoCode
  /\ cookie => spent # << >>

LEMMA SpentImpliesOnce == SpentByPlace => CodeIsSpentOnce
BY DEF SpentByPlace, CodeIsSpentOnce

\* A line that is read sends no code; only a confirmation that carries one moves on.
LEMMA ReadPreserves ==
  ASSUME SpentByPlace, NEW l \in Line, ReadLine(l)
  PROVE  SpentByPlace'
<1>1. pc = "read" /\ spent' = spent /\ cookie' = cookie /\ spent = << >> /\ ~cookie
  BY DEF ReadLine, SpentByPlace, BeforeExchange
<1>2. \/ pc' \in {"read", "close", "failed"}
      \/ pc' = "confirm" /\ code' # NoCode
  <2>1. CASE Field(l)
    BY <1>1, <2>1 DEF Field
  <2>2. CASE NoEvent(l)
    BY <1>1, <2>2 DEF NoEvent
  <2>3. CASE Dispatch(l)
    <3>1. PICK e : Skip(e) \/ CountError(e) \/ Confirm(e)
      BY <2>3 DEF Dispatch
    <3>2. CASE Skip(e)
      BY <1>1, <3>2 DEF Skip, GoOn
    <3>3. CASE CountError(e)
      BY <1>1, <3>3 DEF CountError, GoOn, FailWith
    <3>4. CASE Confirm(e)
      BY <1>1, <3>4 DEF Confirm, FailWith
    <3> QED
      BY <3>1, <3>2, <3>3, <3>4
  <2> QED
    BY <2>1, <2>2, <2>3 DEF ReadLine
<1> QED
  BY <1>1, <1>2 DEF SpentByPlace, BeforeExchange

\* A timeout or a cancellation, at whichever await it strikes.
LEMMA InterruptPreserves ==
  ASSUME SpentByPlace, NEW why, Interrupt(why)
  PROVE  SpentByPlace'
<1>1. UNCHANGED <<spent, code, cookie>>
  BY DEF Interrupt
<1>2. pc' = "failed" \/ (pc = "read" /\ pc' = "close")
  BY DEF Interrupt, FailWith
<1> QED
  BY <1>1, <1>2 DEF SpentByPlace, BeforeExchange

\* The answers to the requests of the flow, the exchange among them.
LEMMA AnsweredPreserves == SpentByPlace /\ Answered => SpentByPlace'
<1> SUFFICES ASSUME SpentByPlace, Answered PROVE SpentByPlace'
  OBVIOUS
<1> USE DEF SpentByPlace, BeforeExchange
<1>1. CASE Generated \/ Displayed
  BY <1>1 DEF Generated, Displayed
<1>2. CASE NotStarted
  BY <1>2 DEF NotStarted, FailWith
<1>3. CASE Opened
  BY <1>3 DEF Opened
<1>4. CASE NotOpened
  BY <1>4 DEF NotOpened, FailWith
<1>5. CASE Exchange
  BY <1>5 DEF Exchange
<1>6. CASE ConfirmFails
  BY <1>6 DEF ConfirmFails, FailWith
<1>7. CASE Token
  BY <1>7 DEF Token
<1>8. CASE JwtDone \/ ShellOk
  BY <1>8 DEF JwtDone, ShellOk
<1>9. CASE ShellFails
  BY <1>9 DEF ShellFails, FailWith
<1> QED
  BY <1>1, <1>2, <1>3, <1>4, <1>5, <1>6, <1>7, <1>8, <1>9 DEF Answered

LEMMA SpentPreserved == SpentByPlace /\ [QrNext]_qrVars => SpentByPlace'
<1> SUFFICES ASSUME SpentByPlace, [QrNext]_qrVars PROVE SpentByPlace'
  OBVIOUS
<1>1. CASE Start
  BY <1>1 DEF Start, SpentByPlace, BeforeExchange
<1>2. CASE Answered
  BY <1>2, AnsweredPreserves
<1>3. CASE \E l \in Line : ReadLine(l)
  BY <1>3, ReadPreserves
<1>4. CASE StreamEnds
  BY <1>4 DEF StreamEnds, SpentByPlace, BeforeExchange
<1>5. CASE Closed
  BY <1>5 DEF Closed, SpentByPlace, BeforeExchange
<1>6. CASE Finalise
  BY <1>6 DEF Finalise, SpentByPlace, BeforeExchange
<1>7. CASE TimeOut \/ Cancel
  BY <1>7, InterruptPreserves DEF TimeOut, Cancel
<1>8. CASE UNCHANGED qrVars
  BY <1>8 DEF qrVars, SpentByPlace, BeforeExchange
<1> QED
  BY <1>1, <1>2, <1>3, <1>4, <1>5, <1>6, <1>7, <1>8 DEF QrNext

\* A one-time code reaches the portal at most once, whatever becomes of the answer, and the
\* manager is logged in with its cookie only (qr.py:195-205).
THEOREM CodeSpentOnce == QrSpec => []CodeIsSpentOnce
<1>1. QrInit => SpentByPlace
  BY DEF QrInit, SpentByPlace, BeforeExchange
<1>2. QrSpec => []SpentByPlace
  BY <1>1, SpentPreserved, PTL DEF QrSpec
<1> QED
  BY <1>2, SpentImpliesOnce, PTL

(* The types.                                                                *)

\* The events the parser yields.
Event == [type : EventTypes \cup {Message}, data : Seq(Payload)]

\* The types, and that the counter has room for an error until the exchange.
QrTypes == QrTypeOK /\ (pc \in BeforeExchange => errors < MaxErrors)

LEMMA LineTypes ==
  ASSUME NEW l \in Line
  PROVE  /\ l.field = "event" => l.value \in EventTypes
         /\ l.field = "data" => l.value \in Payload
         /\ l.field \in {"event", "data"} => l # Blank
<1>1. l \in EventLine \/ l \in DataLine \/ l = OtherLine \/ l = Blank
  BY DEF Line
<1>2. Blank.field = "" /\ OtherLine.field = "other"
  BY DEF Blank, OtherLine
<1>3. l \in EventLine => l.field = "event" /\ l.value \in EventTypes
  BY DEF EventLine
<1>4. l \in DataLine => l.field = "data" /\ l.value \in Payload
  BY DEF DataLine
<1>5. QED
  BY <1>1, <1>2, <1>3, <1>4

\* What the parser makes of the data of an event.
LEMMA ParsedTypes ==
  ASSUME dataLines \in Seq(Payload)
  PROVE  Parsed(dataLines).code \in Codes \cup {NoCode}
<1>1. CASE Len(dataLines) = 1
  <2>1. dataLines[1] \in Payload
    BY <1>1, ElementOfSeq
  <2>2. QED
    BY <1>1, <2>1 DEF Payload, Parsed
<1>2. CASE Len(dataLines) # 1
  BY <1>2 DEF Parsed
<1>3. QED BY <1>1, <1>2

LEMMA ReadKeepsTypes ==
  ASSUME QrTypes, NEW l \in Line, ReadLine(l)
  PROVE  QrTypes'
<1> USE QrAssumption
<1>1. /\ pc = "read" /\ wire' = Append(wire, l) /\ UNCHANGED <<cookie, spent>>
      /\ errors \in Nat /\ errors < MaxErrors
  BY DEF ReadLine, QrTypes, QrTypeOK, BeforeExchange
<1>2. wire' \in Seq(Line)
  BY <1>1, AppendProperties DEF QrTypes, QrTypeOK
<1>3. CASE Field(l)
  <2>1. dataLines' \in Seq(Payload)
    BY <1>3, LineTypes, AppendProperties DEF Field, QrTypes, QrTypeOK
  <2>2. eventType' \in EventTypes \cup {Message}
    BY <1>3, LineTypes DEF Field, QrTypes, QrTypeOK
  <2>3. QED
    BY <1>1, <1>2, <1>3, <2>1, <2>2 DEF Field, QrTypes, QrTypeOK
<1>4. CASE NoEvent(l)
  BY <1>1, <1>2, <1>4 DEF NoEvent, QrTypes, QrTypeOK
<1>5. CASE Dispatch(l)
  <2>1. /\ eventType' = Message /\ dataLines' = << >>
        /\ got' = Append(got, [type |-> eventType, data |-> dataLines])
    BY <1>5 DEF Dispatch
  <2>2. [type |-> eventType, data |-> dataLines]
          \in [type : EventTypes \cup {Message}, data : Seq(Payload)]
    BY DEF QrTypes, QrTypeOK
  <2>3. got' \in Seq([type : EventTypes \cup {Message}, data : Seq(Payload)])
    BY <2>1, <2>2, AppendProperties DEF QrTypes, QrTypeOK
  <2>4. dataLines' \in Seq(Payload) /\ eventType' \in EventTypes \cup {Message}
    BY <2>1, EmptySeq
  <2> DEFINE e == Parsed(dataLines)
  <2>5. e.code \in Codes \cup {NoCode}
    BY ParsedTypes DEF QrTypes, QrTypeOK
  <2>6. Skip(e) \/ CountError(e) \/ Confirm(e)
    BY <1>5 DEF Dispatch
  <2> HIDE DEF e
  <2>7. /\ pc' \in {"read", "close", "failed", "confirm"}
        /\ reason' \in {reason, "ended", "errors", "nocode"}
        /\ stream' \in {stream, "left"}
        /\ errors' \in 0 .. MaxErrors
        /\ pc' \in {"read", "close"} => errors' < MaxErrors
        /\ code' \in Codes \cup {NoCode}
    <3>1. CASE Skip(e)
      BY <1>1, <3>1 DEF Skip, GoOn, QrTypes, QrTypeOK
    <3>2. CASE CountError(e)
      BY <1>1, <3>2 DEF CountError, GoOn, FailWith, QrTypes, QrTypeOK
    <3>3. CASE Confirm(e)
      BY <1>1, <2>5, <3>3 DEF Confirm, FailWith, QrTypes, QrTypeOK
    <3>4. QED BY <2>6, <3>1, <3>2, <3>3
  <2>8. QED
    BY <1>1, <1>2, <2>3, <2>4, <2>7 DEF QrTypes, QrTypeOK, Suspended, Ended, BeforeExchange
<1>6. QED
  BY <1>3, <1>4, <1>5 DEF ReadLine

\* A timeout or a cancellation.
LEMMA InterruptKeepsTypes ==
  ASSUME QrTypes, NEW why \in {"timeout", "cancelled"}, Interrupt(why)
  PROVE  QrTypes'
<1>1. /\ pc' = "failed" \/ (pc = "read" /\ pc' = "close")
      /\ reason' = why /\ stream' \in {stream, "closed", "left"}
  BY DEF Interrupt, FailWith
<1>2. UNCHANGED <<parserVars, errors, code, cookie, wire, got, spent>>
  BY DEF Interrupt
<1>3. QED
  BY <1>1, <1>2 DEF QrTypes, QrTypeOK, parserVars, Suspended, Ended, BeforeExchange

LEMMA AnsweredKeepsTypes == QrTypes /\ SpentByPlace /\ Answered => QrTypes'
<1> SUFFICES ASSUME QrTypes, SpentByPlace, Answered PROVE QrTypes'
  OBVIOUS
<1>1. CASE Exchange
  <2>1. code \in Codes /\ pc = "confirm"
    BY <1>1 DEF Exchange, SpentByPlace, QrTypes, QrTypeOK
  <2>2. spent' \in Seq(Codes)
    BY <1>1, <2>1, AppendProperties DEF Exchange, QrTypes, QrTypeOK
  <2>3. QED
    BY <1>1, <2>2 DEF Exchange, QrTypes, QrTypeOK, parserVars, Suspended, Ended, BeforeExchange
<1> USE DEF QrTypes, QrTypeOK, parserVars, Suspended, Ended, BeforeExchange
<1>2. CASE Generated \/ Displayed
  BY <1>2 DEF Generated, Displayed
<1>3. CASE NotStarted
  BY <1>3 DEF NotStarted, FailWith
<1>4. CASE Opened
  BY <1>4 DEF Opened
<1>5. CASE NotOpened
  BY <1>5 DEF NotOpened, FailWith
<1>6. CASE ConfirmFails
  BY <1>6 DEF ConfirmFails, FailWith
<1>7. CASE Token
  <2>1. cookie' \in BOOLEAN
    BY <1>7 DEF Token
  <2>2. pc' = "jwt" /\ stream' = "left"
        /\ UNCHANGED <<reason, parserVars, errors, code, wire, got, spent>>
    BY <1>7 DEF Token
  <2>3. QED
    BY <2>1, <2>2
<1>8. CASE JwtDone \/ ShellOk
  BY <1>8 DEF JwtDone, ShellOk
<1>9. CASE ShellFails
  BY <1>9 DEF ShellFails, FailWith
<1> QED
  BY <1>1, <1>2, <1>3, <1>4, <1>5, <1>6, <1>7, <1>8, <1>9 DEF Answered

LEMMA QrTypesKept == QrTypes /\ SpentByPlace /\ [QrNext]_qrVars => QrTypes'
<1> SUFFICES ASSUME QrTypes, SpentByPlace, [QrNext]_qrVars PROVE QrTypes'
  OBVIOUS
<1>1. CASE Answered
  BY <1>1, AnsweredKeepsTypes
<1>2. CASE \E l \in Line : ReadLine(l)
  BY <1>2, ReadKeepsTypes
<1>3. CASE TimeOut \/ Cancel
  BY <1>3, InterruptKeepsTypes DEF TimeOut, Cancel
<1> USE DEF QrTypes, QrTypeOK, parserVars, Suspended, Ended, BeforeExchange
<1>4. CASE Start
  BY <1>4 DEF Start
<1>5. CASE StreamEnds
  BY <1>5 DEF StreamEnds
<1>6. CASE Closed
  BY <1>6 DEF Closed
<1>7. CASE Finalise
  BY <1>7 DEF Finalise
<1>8. CASE UNCHANGED qrVars
  BY <1>8 DEF qrVars
<1> QED
  BY <1>1, <1>2, <1>3, <1>4, <1>5, <1>6, <1>7, <1>8 DEF QrNext

LEMMA QrTypesInit == QrInit => QrTypes
<1> SUFFICES ASSUME QrInit PROVE QrTypes
  OBVIOUS
<1>1. cookie \in BOOLEAN
  BY DEF QrInit
<1>2. << >> \in Seq(Line) /\ << >> \in Seq(Codes) /\ << >> \in Seq(Payload)
      /\ << >> \in Seq([type : EventTypes \cup {Message}, data : Seq(Payload)])
  BY EmptySeq
<1>3. QED
  BY <1>1, <1>2, QrAssumption DEF QrInit, QrTypes, QrTypeOK, Suspended, Ended, BeforeExchange

-------------------------------------------------------------------------------
(* The parser.                                                               *)

\* What the parser holds is the block it is in, and what it yielded those before.
Parsing ==
  /\ EventsAreBlocks
  /\ HasType(wire, Len(wire) + 1, eventType)
  /\ Lists(dataLines, DataAt(wire, Len(wire) + 1))

(* Numbers in order.                                                         *)
LEMMA RankGrows ==
  ASSUME NEW L \in Nat, NEW S \in SUBSET (1 .. L)
  PROVE  /\ Cardinality(S) \in Nat
         /\ Cardinality(S \cup {L + 1}) = Cardinality(S) + 1
         /\ Rank(L + 1, S \cup {L + 1}) = Cardinality(S) + 1
         /\ \A n \in S : /\ Rank(n, S \cup {L + 1}) = Rank(n, S)
                         /\ Rank(n, S) \in 1 .. Cardinality(S)
<1>1. IsFiniteSet(S) /\ Cardinality(S) \in Nat
  <2>1. IsFiniteSet(1 .. L)
    BY FS_Interval
  <2>2. QED
    BY <2>1, FS_Subset, FS_CardinalityType
<1>2. L + 1 \notin S
  OBVIOUS
<1>3. Cardinality(S \cup {L + 1}) = Cardinality(S) + 1
  BY <1>1, <1>2, FS_AddElement
<1>4. {m \in S \cup {L + 1} : m <= L + 1} = S \cup {L + 1}
  <2>1. \A m \in S \cup {L + 1} : m <= L + 1
    OBVIOUS
  <2>2. QED
    BY <2>1
<1>5. ASSUME NEW n \in S
      PROVE  Rank(n, S \cup {L + 1}) = Rank(n, S) /\ Rank(n, S) \in 1 .. Cardinality(S)
  <2> DEFINE A == {m \in S : m <= n}
  <2>1. {m \in S \cup {L + 1} : m <= n} = A
    OBVIOUS
  <2>2. A \in SUBSET S /\ n \in A
    OBVIOUS
  <2>3. IsFiniteSet(A) /\ Cardinality(A) <= Cardinality(S) /\ Cardinality(A) \in Nat
    BY <1>1, <2>2, FS_Subset, FS_CardinalityType
  <2>4. Cardinality(A) # 0
    BY <2>2, <2>3, FS_EmptySet
  <2>5. Rank(n, S \cup {L + 1}) = Cardinality(A) /\ Rank(n, S) = Cardinality(A)
    BY <2>1 DEF Rank
  <2> HIDE DEF A
  <2>6. QED
    BY <1>1, <2>3, <2>4, <2>5
<1>6. QED
  BY <1>1, <1>3, <1>4, <1>5 DEF Rank

LEMMA ListsGrows ==
  ASSUME NEW L \in Nat, NEW g, DOMAIN g \in SUBSET (1 .. L), NEW h,
         NEW V, NEW s \in Seq(V), NEW v \in V, Lists(s, g),
         DOMAIN h = DOMAIN g \cup {L + 1}, \A n \in DOMAIN g : h[n] = g[n], h[L + 1] = v
  PROVE  Lists(Append(s, v), h)
<1> DEFINE S == DOMAIN g
           t == Append(s, v)
<1>1. /\ Len(s) = Cardinality(S) /\ Len(t) = Len(s) + 1 /\ t[Len(s) + 1] = v
      /\ \A n \in 1 .. Len(s) : t[n] = s[n]
  BY AppendProperties, LenProperties DEF Lists
<1>2. /\ Cardinality(S \cup {L + 1}) = Cardinality(S) + 1
      /\ Rank(L + 1, S \cup {L + 1}) = Cardinality(S) + 1
      /\ \A n \in S : /\ Rank(n, S \cup {L + 1}) = Rank(n, S)
                      /\ Rank(n, S) \in 1 .. Cardinality(S)
  BY RankGrows
<1>3. \A n \in S : s[Rank(n, S)] = g[n]
  BY DEF Lists
<1> HIDE DEF t
<1>4. \A n \in S \cup {L + 1} : t[Rank(n, S \cup {L + 1})] = h[n]
  BY <1>1, <1>2, <1>3
<1>5. Lists(t, h)
  BY <1>1, <1>2, <1>4 DEF Lists
<1>6. QED
  BY <1>5 DEF t

LEMMA ListsNone == \A g : DOMAIN g = {} => Lists(<< >>, g)
<1>1. Cardinality({}) = 0 /\ Len(<< >>) = 0
  BY FS_EmptySet, EmptySeq
<1>2. QED
  BY <1>1 DEF Lists

(* One more line.                                                            *)
LEMMA OneMoreLine ==
  ASSUME NEW w \in Seq(Line), NEW l \in Line
  PROVE  /\ Len(w) \in Nat /\ Len(Append(w, l)) = Len(w) + 1
         /\ Append(w, l)[Len(w) + 1] = l
         /\ \A n \in 1 .. Len(w) : Append(w, l)[n] = w[n]
BY AppendProperties, LenProperties

\* Two streams agree in their first L lines.
Agree(x, w, L) == L \in Nat /\ \A k \in 1 .. L : x[k] = w[k]

\* The lines before are still those of their blocks.
LEMMA SameLines ==
  ASSUME NEW w, NEW x, NEW L, Agree(x, w, L), NEW n \in 1 .. L + 1, NEW f
  PROVE  /\ FieldLines(x, n, f) = FieldLines(w, n, f)
         /\ FieldLines(w, n, f) \in SUBSET (1 .. L)
<1> USE DEF Agree
<1>1. \A m \in 1 .. n - 1 : m \in 1 .. L /\ x[m] = w[m]
  OBVIOUS
<1>2. ASSUME NEW m \in 1 .. n - 1
      PROVE  (\A k \in m .. n - 1 : x[k] # Blank) <=> (\A k \in m .. n - 1 : w[k] # Blank)
  <2>1. \A k \in m .. n - 1 : k \in 1 .. L
    OBVIOUS
  <2>2. QED
    BY <2>1
<1>3. QED
  BY <1>1, <1>2 DEF FieldLines

\* A blank line begins a new block, any other one belongs to the open one.
LEMMA OpenLines ==
  ASSUME NEW w, NEW x, NEW L, Agree(x, w, L), NEW f
  PROVE  /\ x[L + 1] = Blank => FieldLines(x, L + 2, f) = {}
         /\ x[L + 1] # Blank /\ x[L + 1].field = f
              => FieldLines(x, L + 2, f) = FieldLines(w, L + 1, f) \cup {L + 1}
         /\ x[L + 1] # Blank /\ x[L + 1].field # f
              => FieldLines(x, L + 2, f) = FieldLines(w, L + 1, f)
<1> USE DEF Agree
<1> DEFINE A == FieldLines(w, L + 1, f)
           B == FieldLines(x, L + 2, f)
<1>1. B = {m \in 1 .. L + 1 : x[m].field = f /\ \A k \in m .. L + 1 : x[k] # Blank}
  BY DEF FieldLines
<1>2. A = {m \in 1 .. L : w[m].field = f /\ \A k \in m .. L : w[k] # Blank}
  BY DEF FieldLines
<1>3. A \in SUBSET (1 .. L) /\ B \in SUBSET (1 .. L + 1)
  BY <1>1, <1>2
<1>4. \A m \in 1 .. L + 1 : L + 1 \in m .. L + 1
  OBVIOUS
<1>5. x[L + 1] = Blank => B = {}
  BY <1>1, <1>4
<1>6. ASSUME x[L + 1] # Blank, NEW m \in 1 .. L
      PROVE  m \in A <=> m \in B
  <2>1. (\A k \in m .. L + 1 : x[k] # Blank) <=> (\A k \in m .. L : w[k] # Blank)
    BY <1>6
  <2>2. QED
    BY <1>1, <1>2, <2>1
<1>7. x[L + 1] # Blank => (L + 1 \in B <=> x[L + 1].field = f)
  <2>1. \A k \in L + 1 .. L + 1 : k = L + 1
    OBVIOUS
  <2>2. QED
    BY <1>1, <1>4, <2>1
<1> HIDE DEF A, B
<1>8. \A m \in B : m \in 1 .. L \/ m = L + 1
  BY <1>3
<1>9. CASE x[L + 1] # Blank /\ x[L + 1].field = f
  <2>1. B = A \cup {L + 1}
    BY <1>3, <1>6, <1>7, <1>8, <1>9
  <2>2. QED
    BY <1>9, <2>1 DEF A, B
<1>10. CASE x[L + 1] # Blank /\ x[L + 1].field # f
  <2>1. B = A
    BY <1>3, <1>6, <1>7, <1>8, <1>10
  <2>2. QED
    BY <1>10, <2>1 DEF A, B
<1>11. QED
  BY <1>5, <1>9, <1>10 DEF B

LEMMA EarlierBlocks ==
  ASSUME NEW w \in Seq(Line), NEW l \in Line, NEW x, x = Append(w, l)
  PROVE  /\ \A n \in 1 .. Len(w) + 1 : /\ \A t : HasType(x, n, t) <=> HasType(w, n, t)
                                       /\ DataAt(x, n) = DataAt(w, n)
         /\ EventEnds(w) \in SUBSET (1 .. Len(w))
         /\ EventEnds(x) = EventEnds(w) \cup
              IF l = Blank /\ FieldLines(w, Len(w) + 1, "data") # {} THEN {Len(w) + 1} ELSE {}
<1>1. /\ Len(w) \in Nat /\ Len(x) = Len(w) + 1 /\ x[Len(w) + 1] = l
      /\ \A n \in 1 .. Len(w) : x[n] = w[n]
      /\ Agree(x, w, Len(w))
  BY OneMoreLine DEF Agree
<1>2. ASSUME NEW n \in 1 .. Len(w) + 1
      PROVE  (\A t : HasType(x, n, t) <=> HasType(w, n, t)) /\ DataAt(x, n) = DataAt(w, n)
  <2>1. /\ FieldLines(x, n, "event") = FieldLines(w, n, "event")
        /\ FieldLines(w, n, "event") \in SUBSET (1 .. Len(w))
    BY <1>1, SameLines
  <2>2. /\ FieldLines(x, n, "data") = FieldLines(w, n, "data")
        /\ FieldLines(w, n, "data") \in SUBSET (1 .. Len(w))
    BY <1>1, SameLines
  <2>3. \A m \in FieldLines(w, n, "event") \cup FieldLines(w, n, "data") : x[m] = w[m]
    BY <1>1, <2>1, <2>2
  <2>4. QED
    BY <2>1, <2>2, <2>3 DEF HasType, DataAt
<1>3. ASSUME NEW n \in 1 .. Len(x)
      PROVE  n \in EventEnds(x) <=>
               \/ n \in EventEnds(w)
               \/ n = Len(w) + 1 /\ l = Blank /\ FieldLines(w, Len(w) + 1, "data") # {}
  <2>1. n = Len(w) + 1 \/ n \in 1 .. Len(w)
    BY <1>1
  <2>4. n \in 1 .. Len(w) + 1
    BY <1>1
  <2>5. FieldLines(x, n, "data") = FieldLines(w, n, "data")
    BY <1>1, <2>4, SameLines
  <2>2. n = Len(w) + 1 => n \notin EventEnds(w)
    BY <1>1 DEF EventEnds
  <2>3. QED
    BY <1>1, <2>1, <2>2, <2>5 DEF EventEnds
<1>4. EventEnds(x) \in SUBSET (1 .. Len(x)) /\ EventEnds(w) \in SUBSET (1 .. Len(w))
  BY DEF EventEnds
<1>5. EventEnds(x) = EventEnds(w) \cup
        IF l = Blank /\ FieldLines(w, Len(w) + 1, "data") # {} THEN {Len(w) + 1} ELSE {}
  <2>1. 1 .. Len(w) \in SUBSET (1 .. Len(x)) /\ Len(w) + 1 \in 1 .. Len(x)
    BY <1>1
  <2>2. CASE l = Blank /\ FieldLines(w, Len(w) + 1, "data") # {}
    BY <1>3, <1>4, <2>1, <2>2
  <2>3. CASE ~(l = Blank /\ FieldLines(w, Len(w) + 1, "data") # {})
    BY <1>3, <1>4, <2>1, <2>3
  <2>4. QED BY <2>2, <2>3
<1>6. QED
  BY <1>2, <1>4, <1>5

\* No events are added or lost, and those that were are still the right ones.
LEMMA SameEvents ==
  ASSUME wire \in Seq(Line), NEW l \in Line, wire' = Append(wire, l), UNCHANGED got,
         EventsAreBlocks, EventEnds(wire') = EventEnds(wire)
  PROVE  EventsAreBlocks'
<1>1. /\ \A n \in 1 .. Len(wire) + 1 :
           /\ \A t : HasType(wire', n, t) <=> HasType(wire, n, t)
           /\ DataAt(wire', n) = DataAt(wire, n)
      /\ EventEnds(wire) \in SUBSET (1 .. Len(wire))
  BY EarlierBlocks
<1>2. \A n \in EventEnds(wire) : n \in 1 .. Len(wire) + 1
  BY <1>1, LenProperties
<1>3. QED
  BY <1>1, <1>2 DEF EventsAreBlocks

LEMMA ReadParses ==
  ASSUME QrTypes, Parsing, NEW l \in Line, ReadLine(l)
  PROVE  Parsing'
<1> DEFINE L == Len(wire)
<1>1. /\ wire \in Seq(Line) /\ wire' = Append(wire, l) /\ dataLines \in Seq(Payload)
      /\ got \in Seq(Event) /\ eventType \in EventTypes \cup {Message}
  BY DEF ReadLine, QrTypes, QrTypeOK, Event
<1>2. /\ L \in Nat /\ Len(wire') = L + 1 /\ wire'[L + 1] = l
      /\ \A n \in 1 .. L : wire'[n] = wire[n]
  BY <1>1, OneMoreLine
<1>3. ASSUME NEW f
      PROVE  /\ FieldLines(wire, L + 1, f) \in SUBSET (1 .. L)
             /\ l = Blank => FieldLines(wire', L + 2, f) = {}
             /\ l # Blank /\ l.field = f
                  => FieldLines(wire', L + 2, f) = FieldLines(wire, L + 1, f) \cup {L + 1}
             /\ l # Blank /\ l.field # f
                  => FieldLines(wire', L + 2, f) = FieldLines(wire, L + 1, f)
  <2>1. PICK x : x = wire'
    OBVIOUS
  <2>2. L + 1 \in 1 .. L + 1 /\ x[L + 1] = l /\ Agree(x, wire, L)
    BY <1>2, <2>1 DEF Agree
  <2>3. FieldLines(wire, L + 1, f) \in SUBSET (1 .. L)
    BY <1>2, <2>2, SameLines
  <2>4. /\ l = Blank => FieldLines(x, L + 2, f) = {}
        /\ l # Blank /\ l.field = f
             => FieldLines(x, L + 2, f) = FieldLines(wire, L + 1, f) \cup {L + 1}
        /\ l # Blank /\ l.field # f
             => FieldLines(x, L + 2, f) = FieldLines(wire, L + 1, f)
    <3>1. /\ x[L + 1] = Blank => FieldLines(x, L + 2, f) = {}
          /\ x[L + 1] # Blank /\ x[L + 1].field = f
               => FieldLines(x, L + 2, f) = FieldLines(wire, L + 1, f) \cup {L + 1}
          /\ x[L + 1] # Blank /\ x[L + 1].field # f
               => FieldLines(x, L + 2, f) = FieldLines(wire, L + 1, f)
      BY <2>2, OpenLines
    <3>2. QED
      BY <2>2, <3>1
  <2>5. QED
    BY <2>1, <2>3, <2>4
<1>4. EventEnds(wire') = EventEnds(wire) \cup
        IF l = Blank /\ FieldLines(wire, L + 1, "data") # {} THEN {L + 1} ELSE {}
  BY <1>1, EarlierBlocks
<1>5. /\ EventsAreBlocks /\ HasType(wire, L + 1, eventType)
      /\ Lists(dataLines, DataAt(wire, L + 1))
  BY DEF Parsing
<1>6. /\ DOMAIN DataAt(wire, L + 1) = FieldLines(wire, L + 1, "data")
      /\ DOMAIN DataAt(wire', L + 2) = FieldLines(wire', L + 2, "data")
      /\ \A n \in FieldLines(wire, L + 1, "data") : DataAt(wire, L + 1)[n] = wire[n].value
      /\ \A n \in FieldLines(wire', L + 2, "data") : DataAt(wire', L + 2)[n] = wire'[n].value
  BY DEF DataAt
<1>7. /\ dataLines = << >> <=> FieldLines(wire, L + 1, "data") = {}
      /\ IsFiniteSet(FieldLines(wire, L + 1, "data"))
  <2>1. IsFiniteSet(FieldLines(wire, L + 1, "data"))
    <3>1. IsFiniteSet(1 .. L)
      BY <1>2, FS_Interval
    <3>2. FieldLines(wire, L + 1, "data") \in SUBSET (1 .. L)
      BY <1>3
    <3>3. QED
      BY <3>1, <3>2, FS_Subset
  <2>2. Len(dataLines) = Cardinality(FieldLines(wire, L + 1, "data"))
    BY <1>5, <1>6 DEF Lists
  <2>3. Len(dataLines) = 0 <=> dataLines = << >>
    BY <1>1, EmptySeq
  <2>4. QED
    BY <2>1, <2>2, <2>3, FS_EmptySet
<1>8. SUFFICES /\ EventsAreBlocks'
               /\ HasType(wire', L + 2, eventType')
               /\ Lists(dataLines', DataAt(wire', L + 2))
  <2>1. Len(wire') + 1 = L + 2
    BY <1>2
  <2>2. QED
    BY <2>1 DEF Parsing
<1>9. CASE Field(l)
  <2>1. /\ l # Blank /\ UNCHANGED got
        /\ eventType' = IF l.field = "event" THEN l.value ELSE eventType
        /\ dataLines' = IF l.field = "data" THEN Append(dataLines, l.value) ELSE dataLines
    BY <1>9 DEF Field
  <2>2. EventsAreBlocks'
    BY <1>1, <1>4, <1>5, <2>1, SameEvents
  <2>3. HasType(wire', L + 2, eventType')
    <3> DEFINE A == FieldLines(wire, L + 1, "event")
               B == FieldLines(wire', L + 2, "event")
    <3>1. /\ A \in SUBSET (1 .. L)
          /\ l.field = "event" => B = A \cup {L + 1}
          /\ l.field # "event" => B = A
      BY <1>3, <2>1
    <3>2. \/ A = {} /\ eventType = Message
          \/ \E m \in A : wire[m].value = eventType /\ \A k \in A : k <= m
      BY <1>5 DEF HasType
    <3>3. SUFFICES \/ B = {} /\ eventType' = Message
                   \/ \E m \in B : wire'[m].value = eventType' /\ \A k \in B : k <= m
      BY DEF HasType
    <3> HIDE DEF A, B
    <3>4. CASE l.field = "event"
      <4>1. L + 1 \in B /\ wire'[L + 1].value = eventType'
        BY <1>2, <2>1, <3>1, <3>4
      <4>2. \A k \in B : k <= L + 1
        <5>1. \A k \in B : k \in 1 .. L \/ k = L + 1
          BY <3>1, <3>4
        <5>2. QED BY <1>2, <5>1
      <4>3. QED BY <4>1, <4>2
    <3>5. CASE l.field # "event"
      BY <1>2, <2>1, <3>1, <3>2, <3>5
    <3>6. QED BY <3>4, <3>5
  <2>4. Lists(dataLines', DataAt(wire', L + 2))
    <3> DEFINE g == DataAt(wire, L + 1)
               h == DataAt(wire', L + 2)
    <3>1. CASE l.field = "data"
      <4>1. DOMAIN g \in SUBSET (1 .. L) /\ DOMAIN h = DOMAIN g \cup {L + 1}
        BY <1>3, <1>6, <2>1, <3>1
      <4>2. h[L + 1] = l.value /\ l.value \in Payload
        BY <1>2, <1>6, <3>1, <4>1, LineTypes
      <4>3. \A n \in DOMAIN g : h[n] = g[n]
        BY <1>2, <1>6, <4>1
      <4>4. Lists(dataLines, g)
        BY <1>5
      <4> HIDE DEF g, h
      <4>5. Lists(Append(dataLines, l.value), h)
        BY <1>1, <1>2, <4>1, <4>2, <4>3, <4>4, ListsGrows
      <4>6. QED
        BY <2>1, <3>1, <4>5 DEF h
    <3>2. CASE l.field # "data"
      <4>1. FieldLines(wire', L + 2, "data") = FieldLines(wire, L + 1, "data")
        BY <1>3, <2>1, <3>2
      <4>2. \A n \in FieldLines(wire, L + 1, "data") : wire'[n] = wire[n]
        BY <1>2, <1>3
      <4>3. h = g
        BY <4>1, <4>2 DEF DataAt
      <4>4. QED
        BY <1>5, <2>1, <3>2, <4>3
    <3>3. QED BY <3>1, <3>2
  <2>5. QED BY <2>2, <2>3, <2>4
<1>10. ASSUME l = Blank, eventType' = Message, dataLines' = << >>
       PROVE  HasType(wire', L + 2, eventType') /\ Lists(dataLines', DataAt(wire', L + 2))
  <2>1. FieldLines(wire', L + 2, "event") = {} /\ FieldLines(wire', L + 2, "data") = {}
    BY <1>3, <1>10
  <2>2. DOMAIN DataAt(wire', L + 2) = {}
    BY <1>6, <2>1
  <2>3. QED
    BY <1>10, <2>1, <2>2, ListsNone DEF HasType
<1>11. CASE NoEvent(l)
  <2>1. l = Blank /\ dataLines = << >> /\ dataLines' = << >> /\ eventType' = Message /\ got' = got
    BY <1>11 DEF NoEvent
  <2>2. EventEnds(wire') = EventEnds(wire)
    BY <1>4, <1>7, <2>1
  <2>3. EventsAreBlocks'
    BY <1>1, <1>5, <2>1, <2>2, SameEvents
  <2>4. QED
    BY <1>10, <2>1, <2>3
<1>12. CASE Dispatch(l)
  <2> DEFINE y == [type |-> eventType, data |-> dataLines]
             S == EventEnds(wire)
  <2>1. /\ l = Blank /\ dataLines # << >> /\ dataLines' = << >> /\ eventType' = Message
        /\ got' = Append(got, y)
    BY <1>12 DEF Dispatch
  <2>2. /\ EventEnds(wire') = S \cup {L + 1} /\ S \in SUBSET (1 .. L)
        /\ \A n \in 1 .. L + 1 :
             /\ \A t : HasType(wire', n, t) <=> HasType(wire, n, t)
             /\ DataAt(wire', n) = DataAt(wire, n)
    BY <1>1, <1>4, <1>7, <2>1, EarlierBlocks
  <2>3. y \in Event /\ y.type = eventType /\ y.data = dataLines
    BY <1>1 DEF Event
  <2> HIDE DEF y
  <2>4. /\ Len(got) \in Nat /\ Len(got') = Len(got) + 1 /\ got'[Len(got) + 1] = y
        /\ \A n \in 1 .. Len(got) : got'[n] = got[n]
    BY <1>1, <2>1, <2>3, AppendProperties, LenProperties
  <2>5. /\ Len(got) = Cardinality(S)
        /\ \A n \in S : HasType(wire, n, got[Rank(n, S)].type)
                        /\ Lists(got[Rank(n, S)].data, DataAt(wire, n))
    BY <1>5 DEF EventsAreBlocks
  <2> HIDE DEF S
  <2>6. /\ Cardinality(S \cup {L + 1}) = Cardinality(S) + 1
        /\ Rank(L + 1, S \cup {L + 1}) = Cardinality(S) + 1
        /\ \A n \in S : /\ Rank(n, S \cup {L + 1}) = Rank(n, S)
                        /\ Rank(n, S) \in 1 .. Cardinality(S)
    BY <1>2, <2>2, RankGrows
  <2> DEFINE T == S \cup {L + 1}
  <2>7. ASSUME NEW n \in T
        PROVE  /\ HasType(wire', n, got'[Rank(n, T)].type)
               /\ Lists(got'[Rank(n, T)].data, DataAt(wire', n))
    <3>1. CASE n = L + 1
      <4>1. got'[Rank(n, T)] = y /\ n \in 1 .. L + 1
        BY <1>2, <2>4, <2>5, <2>6, <3>1
      <4>2. QED
        BY <1>5, <2>2, <2>3, <3>1, <4>1
    <3>2. CASE n \in S
      <4>1. Rank(n, T) = Rank(n, S) /\ Rank(n, S) \in 1 .. Len(got)
        BY <2>5, <2>6, <3>2
      <4>2. got'[Rank(n, T)] = got[Rank(n, S)]
        BY <2>4, <4>1
      <4>3. n \in 1 .. L + 1
        BY <1>2, <2>2, <3>2
      <4>4. QED
        BY <2>2, <2>5, <3>2, <4>2, <4>3
    <3>3. QED BY <2>7, <3>1, <3>2
  <2>8. EventsAreBlocks'
    <3>1. EventEnds(wire') = T /\ Len(got') = Cardinality(T)
      BY <2>2, <2>4, <2>5, <2>6
    <3> HIDE DEF T
    <3>2. QED
      BY <2>7, <3>1 DEF EventsAreBlocks
  <2>9. QED
    BY <1>10, <2>1, <2>8
<1>13. QED
  BY <1>9, <1>11, <1>12 DEF ReadLine

LEMMA ParsingKept == QrTypes /\ Parsing /\ [QrNext]_qrVars => Parsing'
<1> SUFFICES ASSUME QrTypes, Parsing, [QrNext]_qrVars PROVE Parsing'
  OBVIOUS
<1>1. CASE \E l \in Line : ReadLine(l)
  BY <1>1, ReadParses
<1>2. ASSUME UNCHANGED <<wire, got, parserVars>>
      PROVE  Parsing'
  BY <1>2 DEF Parsing, EventsAreBlocks, parserVars
<1>3. CASE Answered
  <2>1. UNCHANGED <<wire, got, parserVars>>
    BY <1>3 DEF Answered, Generated, NotStarted, Displayed, Opened, NotOpened, Exchange,
                ConfirmFails, Token, JwtDone, ShellOk, ShellFails
  <2>2. QED
    BY <1>2, <2>1
<1>4. CASE Start \/ StreamEnds \/ Closed \/ Finalise \/ TimeOut \/ Cancel \/ UNCHANGED qrVars
  <2>1. UNCHANGED <<wire, got, parserVars>>
    BY <1>4 DEF Start, StreamEnds, Closed, Finalise, TimeOut, Cancel, Interrupt, qrVars
  <2>2. QED
    BY <1>2, <2>1
<1>5. QED
  BY <1>1, <1>3, <1>4 DEF QrNext

LEMMA ParsingInit == QrInit => Parsing
<1> SUFFICES ASSUME QrInit PROVE Parsing
  OBVIOUS
<1>1. /\ wire = << >> /\ got = << >> /\ dataLines = << >> /\ eventType = Message
      /\ Len(wire) = 0 /\ Len(got) = 0
  BY EmptySeq DEF QrInit
<1>2. \A m \in 1 .. 0 : FALSE
  OBVIOUS
<1>3. EventEnds(wire) = {}
  BY <1>1, <1>2 DEF EventEnds
<1>4. \A f : FieldLines(wire, 1, f) = {}
  BY <1>2 DEF FieldLines
<1>5. EventsAreBlocks
  BY <1>1, <1>3, FS_EmptySet DEF EventsAreBlocks
<1>6. HasType(wire, 1, eventType)
  BY <1>1, <1>4 DEF HasType
<1>7. Lists(dataLines, DataAt(wire, 1))
  <2>1. DOMAIN DataAt(wire, 1) = {}
    BY <1>4 DEF DataAt
  <2>2. QED
    BY <1>1, <2>1, ListsNone
<1>8. QED
  BY <1>1, <1>5, <1>6, <1>7 DEF Parsing

-------------------------------------------------------------------------------
(* The outcome.                                                              *)

HasConfirmed == \E n \in 1 .. Len(got) : KindOf(got[n]) = Confirmed

\* The counter counts the errors of the stream; until the exchange there was no
\* confirmation and room for an error; a reason is given with the end only.
Justified ==
  /\ errors = ErrorsIn(got)
  /\ pc \in BeforeExchange => ~HasConfirmed /\ errors < MaxErrors
  /\ pc \notin {"close"} \cup Ended => reason = "none"
  /\ reason = "errors" => pc = "failed"
  /\ OutcomeIsJustified

\* What one more event does to the kinds of the events.
LEMMA OneMoreEvent ==
  ASSUME NEW s \in Seq(Event), NEW e \in Event, NEW t, t = Append(s, e)
  PROVE  /\ ErrorsIn(s) \in Nat
         /\ ErrorsIn(t) = IF KindOf(e) = QrError THEN ErrorsIn(s) + 1 ELSE ErrorsIn(s)
         /\ Last(t) = e
         /\ (\E n \in 1 .. Len(t) : KindOf(t[n]) = Confirmed)
              <=> KindOf(e) = Confirmed \/ \E n \in 1 .. Len(s) : KindOf(s[n]) = Confirmed
<1> DEFINE A == {n \in 1 .. Len(s) : KindOf(s[n]) = QrError}
           B == {n \in 1 .. Len(t) : KindOf(t[n]) = QrError}
<1>1. /\ Len(s) \in Nat /\ Len(t) = Len(s) + 1 /\ t[Len(s) + 1] = e
      /\ \A n \in 1 .. Len(s) : t[n] = s[n]
  BY AppendProperties, LenProperties
<1>2. IsFiniteSet(A) /\ Cardinality(A) \in Nat
  <2>1. IsFiniteSet(1 .. Len(s)) /\ A \in SUBSET (1 .. Len(s))
    BY <1>1, FS_Interval
  <2>2. QED
    BY <2>1, FS_Subset, FS_CardinalityType
<1>3. Last(t) = e
  BY <1>1 DEF Last
<1>4. (\E n \in 1 .. Len(t) : KindOf(t[n]) = Confirmed)
         <=> KindOf(e) = Confirmed \/ \E n \in 1 .. Len(s) : KindOf(s[n]) = Confirmed
  BY <1>1
<1>5. CASE KindOf(e) = QrError
  <2>1. B = A \cup {Len(s) + 1} /\ Len(s) + 1 \notin A
    BY <1>1, <1>5
  <2>2. Cardinality(B) = Cardinality(A) + 1
    BY <1>2, <2>1, FS_AddElement
  <2>3. QED
    BY <1>2, <1>3, <1>4, <1>5, <2>2 DEF ErrorsIn
<1>6. CASE KindOf(e) # QrError
  <2>1. B = A
    BY <1>1, <1>6
  <2>2. QED
    BY <1>2, <1>3, <1>4, <1>6, <2>1 DEF ErrorsIn
<1>7. QED BY <1>5, <1>6

LEMMA ReadJustified ==
  ASSUME QrTypes, Justified, NEW l \in Line, ReadLine(l)
  PROVE  Justified'
<1>1. /\ pc = "read" /\ reason = "none" /\ ~HasConfirmed /\ errors < MaxErrors
      /\ errors = ErrorsIn(got) /\ errors \in Nat /\ MaxErrors \in Nat
  BY QrAssumption DEF ReadLine, Justified, BeforeExchange, Ended, QrTypes, QrTypeOK
<1>2. CASE Field(l) \/ NoEvent(l)
  <2>1. UNCHANGED <<pc, reason, errors, code, got>>
    BY <1>2 DEF Field, NoEvent
  <2>2. QED
    BY <2>1 DEF Justified, HasConfirmed, OutcomeIsJustified
<1>3. CASE Dispatch(l)
  <2> DEFINE y == [type |-> eventType, data |-> dataLines]
             e == Parsed(dataLines)
  <2>1. got' = Append(got, y) /\ (Skip(e) \/ CountError(e) \/ Confirm(e))
    BY <1>3 DEF Dispatch
  <2>2. y \in Event /\ got \in Seq(Event)
    BY DEF QrTypes, QrTypeOK, Event
  <2>3. KindOf(y) = e.kind /\ Parsed(y.data) = e
    BY DEF KindOf
  <2> HIDE DEF e, y
  <2>4. /\ ErrorsIn(got') = IF e.kind = QrError THEN errors + 1 ELSE errors
        /\ Last(got') = y
        /\ HasConfirmed' <=> e.kind = Confirmed
    <3>1. /\ ErrorsIn(got') = IF KindOf(y) = QrError THEN ErrorsIn(got) + 1 ELSE ErrorsIn(got)
          /\ Last(got') = y
          /\ (\E n \in 1 .. Len(got') : KindOf(got'[n]) = Confirmed)
               <=> KindOf(y) = Confirmed \/ \E n \in 1 .. Len(got) : KindOf(got[n]) = Confirmed
      <4>1. got' = Append(got, y)
        BY <2>1
      <4>2. QED BY <2>2, <4>1, OneMoreEvent
    <3>2. HasConfirmed' <=> KindOf(y) = Confirmed \/ HasConfirmed
      BY <3>1 DEF HasConfirmed
    <3>3. QED
      BY <1>1, <2>3, <3>1, <3>2
  <2>5. CASE Skip(e)
    <3>1. /\ UNCHANGED <<errors, code>> /\ ErrorsIn(got') = errors /\ ~HasConfirmed'
          /\ \/ pc' = "close" /\ reason' = "ended"
             \/ pc' = pc /\ reason' = reason
      BY <2>4, <2>5 DEF Skip, GoOn, QrError, Confirmed
    <3>2. OutcomeIsJustified'
      BY <1>1, <3>1 DEF OutcomeIsJustified, HasConfirmed
    <3>3. QED
      BY <1>1, <3>1, <3>2 DEF Justified, Ended
  <2>6. CASE CountError(e)
    <3>1. /\ errors' = errors + 1 /\ ErrorsIn(got') = errors' /\ ~HasConfirmed'
          /\ IF errors + 1 >= MaxErrors
             THEN pc' = "failed" /\ reason' = "errors"
             ELSE \/ pc' = "close" /\ reason' = "ended"
                  \/ pc' = pc /\ reason' = reason
      BY <2>4, <2>6 DEF CountError, GoOn, FailWith, QrError, Confirmed
    <3>2. KindOf(Last(got')) = QrError
      BY <2>3, <2>4, <2>6 DEF CountError
    <3>3. OutcomeIsJustified'
      BY <1>1, <3>1, <3>2 DEF OutcomeIsJustified, HasConfirmed
    <3>4. QED
      BY <1>1, <3>1, <3>3 DEF Justified, Ended, BeforeExchange
  <2>7. CASE Confirm(e)
    <3>1. /\ code' = e.code /\ errors' = errors /\ ErrorsIn(got') = errors
          /\ \/ pc' = "failed" /\ reason' = "nocode"
             \/ pc' = "confirm" /\ reason' = reason
      BY <2>4, <2>7 DEF Confirm, FailWith, QrError, Confirmed
    <3>2. KindOf(Last(got')) = Confirmed /\ Parsed(Last(got').data).code = code'
      BY <2>3, <2>4, <2>7, <3>1 DEF Confirm
    <3>3. OutcomeIsJustified'
      BY <1>1, <3>1, <3>2 DEF OutcomeIsJustified
    <3>4. QED
      BY <1>1, <3>1, <3>3 DEF Justified, Ended, BeforeExchange
  <2>8. QED
    BY <2>1, <2>5, <2>6, <2>7
<1>4. QED
  BY <1>2, <1>3 DEF ReadLine

\* A step that reads nothing: it ends the login, or goes on as the places allow.
LEMMA UnreadJustified ==
  ASSUME Justified, UNCHANGED <<errors, got, code>>,
         pc' \in BeforeExchange => pc \in BeforeExchange,
         pc' \notin {"close"} \cup Ended => reason' = "none",
         reason' = "errors" => reason = "errors" /\ pc' = "failed",
         pc' \in {"read", "close"} \/ reason' \in {"ended", "broken"} =>
           \/ pc \in BeforeExchange
           \/ reason \in {"ended", "broken"}
  PROVE  Justified'
<1>1. (\E n \in 1 .. Len(got) : KindOf(got[n]) = Confirmed) <=> HasConfirmed
  BY DEF HasConfirmed
<1>2. OutcomeIsJustified'
  BY <1>1 DEF Justified, OutcomeIsJustified
<1>3. QED
  BY <1>2 DEF Justified, HasConfirmed

LEMMA JustifiedKept == QrTypes /\ Justified /\ [QrNext]_qrVars => Justified'
<1> SUFFICES ASSUME QrTypes, Justified, [QrNext]_qrVars PROVE Justified'
  OBVIOUS
<1>1. CASE \E l \in Line : ReadLine(l)
  BY <1>1, ReadJustified
<1>2. CASE TimeOut \/ Cancel
  <2>1. PICK why \in {"timeout", "cancelled"} : Interrupt(why) /\ pc \in Suspended
    BY <1>2 DEF TimeOut, Cancel, Timed, Suspended
  <2>2. /\ pc' = "failed" \/ (pc = "read" /\ pc' = "close")
        /\ reason' = why /\ UNCHANGED <<errors, got, code>>
    BY <2>1 DEF Interrupt, FailWith
  <2>3. QED
    BY <2>1, <2>2, UnreadJustified DEF BeforeExchange, Ended
<1>3. \A k \in {"setup", "exchange", "shell"} : k # "errors" /\ k \notin {"ended", "broken"}
  OBVIOUS
<1>4. reason = "errors" => pc = "failed"
  BY DEF Justified
<1>5. pc \notin {"close"} \cup Ended => reason = "none"
  BY DEF Justified
<1> USE DEF BeforeExchange, Ended
<1>6. CASE Start \/ Generated \/ Displayed
  BY <1>5, <1>6, UnreadJustified DEF Start, Generated, Displayed
<1>7. CASE NotStarted \/ NotOpened
  BY <1>7, UnreadJustified DEF NotStarted, NotOpened, FailWith
<1>8. CASE Opened
  BY <1>5, <1>8, UnreadJustified DEF Opened
<1>9. CASE Exchange \/ Token \/ JwtDone \/ ShellOk
  BY <1>5, <1>9, UnreadJustified DEF Exchange, Token, JwtDone, ShellOk
<1>10. CASE ConfirmFails \/ ShellFails
  BY <1>10, UnreadJustified DEF ConfirmFails, ShellFails, FailWith
<1>11. CASE StreamEnds
  BY <1>11, UnreadJustified DEF StreamEnds
<1>12. CASE Closed
  BY <1>4, <1>12, UnreadJustified DEF Closed
<1>13. CASE Finalise \/ UNCHANGED qrVars
  <2>1. UNCHANGED <<pc, reason, errors, got, code>>
    BY <1>13 DEF Finalise, qrVars
  <2>2. QED
    BY <2>1 DEF Justified, HasConfirmed, OutcomeIsJustified
<1>14. QED
  BY <1>1, <1>2, <1>6, <1>7, <1>8, <1>9, <1>10, <1>11, <1>12, <1>13 DEF QrNext, Answered

LEMMA JustifiedInit == QrInit => Justified
<1> SUFFICES ASSUME QrInit PROVE Justified
  OBVIOUS
<1>1. Len(got) = 0 /\ 1 .. 0 = {}
  BY EmptySeq DEF QrInit
<1>2. ErrorsIn(got) = 0 /\ ~HasConfirmed
  BY <1>1, FS_EmptySet DEF ErrorsIn, HasConfirmed
<1>3. QED
  BY <1>2, QrAssumption DEF QrInit, Justified, OutcomeIsJustified, HasConfirmed, Ended

\* All that holds of a login by QR code.
LEMMA QrInvHolds == QrSpec => [](SpentByPlace /\ QrTypes /\ Parsing /\ Justified)
<1>1. QrInit => SpentByPlace
  BY DEF QrInit, SpentByPlace, BeforeExchange
<1>2. QED
  BY <1>1, QrTypesInit, ParsingInit, JustifiedInit,
     SpentPreserved, QrTypesKept, ParsingKept, JustifiedKept, PTL DEF QrSpec

\* For every stream, line by line: the events that the parser has yielded are those of the
\* complete blocks, each with its own type and data, in their order (sse.py:122-151).
THEOREM EventsAreThoseOfTheBlocks == QrSpec => []EventsAreBlocks
BY QrInvHolds, PTL DEF Parsing

\* Whatever the stream brings, the login goes on, gives up or exchanges a code exactly when
\* the events read so far justify it (qr.py:120-193).
THEOREM OutcomesAreJustified == QrSpec => []OutcomeIsJustified
BY QrInvHolds, PTL DEF Justified

-------------------------------------------------------------------------------
(* The two logins side by side, as the run has them.                         *)

LEMMA LoginsApart == LoginSpec => QrSpec /\ EsiaSpec
<1>1. LoginInit => QrInit /\ EsiaInit
  BY DEF LoginInit
<1>2. [LoginNext]_<<qrVars, esiaVars>> => [QrNext]_qrVars /\ [EsiaNext]_esiaVars
  BY DEF LoginNext
<1>3. QED
  BY <1>1, <1>2, PTL DEF LoginSpec, QrSpec, EsiaSpec

\* The variables of both logins have their types: no error counter and no redirect loop
\* passes its limit, and only codes of events are exchanged.
THEOREM LoginTypeCorrect == LoginSpec => []LoginTypeOK
<1>1. QrTypes /\ EsiaTypeOK => LoginTypeOK
  BY DEF QrTypes, LoginTypeOK
<1>2. QED
  BY <1>1, LoginsApart, QrInvHolds, EsiaTypeCorrect, PTL

===============================================================================
