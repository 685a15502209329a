-------------------------------- MODULE QrLogin --------------------------------
(***************************************************************************)
(* Client.login_with_qr: a QR session is generated, its URL shown, the SSE *)
(* stream of the session read line by line until the user has confirmed on *)
(* the phone, the one-time code exchanged for an X1_SSO cookie, the        *)
(* manager logged in with it and the shell fetched.  The stream, the user  *)
(* and the portal may do anything; a timer runs from the display on.       *)
(*                                                                         *)
(* The SSE parser works on lines [field, value].  A data value stands for  *)
(* one JSON text: its kind ("junk" when it is no QrEvent) and the code it  *)
(* carries in "code" or "data".                                            *)
(***************************************************************************)
EXTENDS Naturals, FiniteSets, Sequences, SequencesExt, Orders

CONSTANTS
  Codes,      \* one-time codes
  NoCode,     \* an event without code
  MaxErrors,  \* _MAX_ERRORS
  MaxLines    \* bound on the lines of a stream

ASSUME QrAssumption == /\ NoCode \notin Codes
                       /\ MaxErrors \in Nat \ {0} /\ MaxLines \in Nat

VARIABLES
  pc,         \* where the login is suspended
  reason,     \* why it ended, or why it is closing the stream
  eventType,  \* of the event the parser accumulates
  dataLines,  \* its data so far
  errors,     \* error_count
  code,       \* the code being exchanged
  stream,     \* the response: "none", "open", "left" by its reader, or "closed"
  cookie,     \* the manager holds an X1_SSO of this login
  (* history *)
  wire,       \* the lines read
  got,        \* the events the parser yielded
  spent       \* the codes the portal exchanged

parserVars == <<eventType, dataLines>>
qrVars == <<pc, reason, parserVars, errors, code, stream, cookie, wire, got, spent>>

Confirmed == "qr-auth-confirmed"   \* also the method's __terminal_event__
QrError == "qr-error"
Message == "message"

EventTypes == {Confirmed, QrError}
Payload == [kind : {"ping", QrError, "junk"}, code : {NoCode}]
             \cup [kind : {Confirmed}, code : Codes \cup {NoCode}]

EventLine == [field : {"event"}, value : EventTypes]
DataLine == [field : {"data"}, value : Payload]
OtherLine == [field |-> "other", value |-> NoCode]   \* comment, id, retry, unknown
Blank == [field |-> "", value |-> NoCode]
Line == EventLine \cup DataLine \cup {OtherLine, Blank}

Suspended == {"generate", "display", "open", "read", "close", "confirm", "confirmed",
              "jwt", "shell"}
Timed == {"open", "read", "close", "confirm", "confirmed"}
Ended == {"done", "failed"}

\* The login raises, and the stream is in the given state then.
FailWith(why, s) == pc' = "failed" /\ reason' = why /\ stream' = s

-------------------------------------------------------------------------------
(* Up to the stream. *)

Start ==
  /\ pc = "idle"
  /\ pc' = "generate"
  /\ UNCHANGED <<reason, parserVars, errors, code, stream, cookie, wire, got, spent>>

\* GenerateQr answered; QrSolver parses the UUID and calls the callback, which may be
\* a coroutine.
Generated ==
  /\ pc = "generate"
  /\ pc' = "display"
  /\ UNCHANGED <<reason, parserVars, errors, code, stream, cookie, wire, got, spent>>

\* GenerateQr failed, its qr_id is no UUID, or the callback raised.
NotStarted ==
  /\ pc \in {"generate", "display"}
  /\ FailWith("setup", stream)
  /\ UNCHANGED <<parserVars, errors, code, cookie, wire, got, spent>>

Displayed ==
  /\ pc = "display"
  /\ pc' = "open"
  /\ UNCHANGED <<reason, parserVars, errors, code, stream, cookie, wire, got, spent>>

\* open_stream(): the handshake succeeded.
Opened ==
  /\ pc = "open"
  /\ pc' = "read" /\ stream' = "open"
  /\ UNCHANGED <<reason, parserVars, errors, code, cookie, wire, got, spent>>

\* The connection failed, or _map_status raised and the response was closed.
NotOpened ==
  /\ pc = "open"
  /\ \E s \in {"none", "closed"} : FailWith("setup", s)
  /\ UNCHANGED <<parserVars, errors, code, cookie, wire, got, spent>>

-------------------------------------------------------------------------------
(* Reading: the generator _iter_events() and the loop over it run in one   *)
(* task, so that a line is parsed and its event handled in one step.       *)

\* _parse_data: only one data line is a JSON text of its own.
Parsed(data) == IF Len(data) = 1 THEN data[1] ELSE [kind |-> "junk", code |-> NoCode]

Field(l) ==
  /\ l # Blank
  /\ eventType' = IF l.field = "event" THEN l.value ELSE eventType
  /\ dataLines' = IF l.field = "data" THEN Append(dataLines, l.value) ELSE dataLines
  /\ UNCHANGED <<pc, reason, errors, code, stream, got>>

NoEvent(l) ==
  /\ l = Blank /\ dataLines = << >>
  /\ UNCHANGED <<pc, reason, errors, code, stream, got, dataLines>>
  /\ eventType' = Message

\* The loop goes on to the next event, unless this one was named as the terminal one.
GoOn ==
  IF eventType = Confirmed
  THEN pc' = "close" /\ reason' = "ended" /\ UNCHANGED stream
  ELSE UNCHANGED <<pc, reason, stream>>

\* Unparsed events, pings and "waiting" are skipped.
Skip(e) ==
  /\ e.kind \in {"junk", "ping"}
  /\ GoOn
  /\ UNCHANGED <<errors, code>>

\* Mutant of CountError: the limit is compared before counting.
CountErrorLate(e) ==
  /\ e.kind = QrError
  /\ errors' = errors + 1
  /\ IF errors >= MaxErrors THEN FailWith("errors", "left") ELSE GoOn
  /\ UNCHANGED code

\* The errors of the whole stream are counted; raising leaves the generator suspended.
CountError(e) ==
  /\ e.kind = QrError
  /\ errors' = errors + 1
  /\ IF errors + 1 >= MaxErrors THEN FailWith("errors", "left") ELSE GoOn
  /\ UNCHANGED code

Confirm(e) ==
  /\ e.kind = Confirmed
  /\ code' = e.code
  /\ IF e.code = NoCode THEN FailWith("nocode", "left")
                        ELSE pc' = "confirm" /\ UNCHANGED <<reason, stream>>
  /\ UNCHANGED errors

\* Mutant of Dispatch: the parser forgets to reset the event's type.
DispatchKeepType(l) ==
  /\ l = Blank /\ dataLines # << >>
  /\ got' = Append(got, [type |-> eventType, data |-> dataLines])
  /\ eventType' = eventType /\ dataLines' = << >>
  /\ LET e == Parsed(dataLines) IN Skip(e) \/ CountError(e) \/ Confirm(e)

Dispatch(l) ==
  /\ l = Blank /\ dataLines # << >>
  /\ got' = Append(got, [type |-> eventType, data |-> dataLines])
  /\ eventType' = Message /\ dataLines' = << >>
  /\ LET e == Parsed(dataLines) IN Skip(e) \/ CountError(e) \/ Confirm(e)

ReadLine(l) ==
  /\ pc = "read" /\ Len(wire) < MaxLines
  /\ wire' = Append(wire, l)
  /\ Field(l) \/ NoEvent(l) \/ Dispatch(l)
  /\ UNCHANGED <<cookie, spent>>

\* The portal ends the stream, or reading fails: the finally of the generator closes.
StreamEnds ==
  /\ pc = "read"
  /\ pc' = "close" /\ reason' \in {"ended", "broken"}
  /\ UNCHANGED <<parserVars, errors, code, stream, cookie, wire, got, spent>>

\* aclose() returned (or raised, which is logged).
Closed ==
  /\ pc = "close"
  /\ pc' = "failed" /\ stream' = "closed"
  /\ UNCHANGED <<reason, parserVars, errors, code, cookie, wire, got, spent>>

\* A generator that its reader left is closed by the event loop.
Finalise ==
  /\ stream = "left"
  /\ stream' = "closed"
  /\ UNCHANGED <<pc, reason, parserVars, errors, code, cookie, wire, got, spent>>

-------------------------------------------------------------------------------
(* The exchange, a POST that the retry policy sends once, and the login.   *)

Exchange ==
  /\ pc = "confirm"
  /\ pc' = "confirmed" /\ spent' = Append(spent, code)
  /\ UNCHANGED <<reason, parserVars, errors, code, stream, cookie, wire, got>>

\* Mutant of ConfirmFails: the exchange is repeated as an idempotent call would be.
ConfirmRetried ==
  /\ pc \in {"confirm", "confirmed"} /\ Len(spent) < 2
  /\ pc' = "confirm"
  /\ UNCHANGED <<reason, parserVars, errors, code, stream, cookie, wire, got, spent>>

\* Refused, lost on either way, or answered without a token.
ConfirmFails ==
  /\ pc \in {"confirm", "confirmed"}
  /\ FailWith("exchange", "left")
  /\ UNCHANGED <<parserVars, errors, code, cookie, wire, got, spent>>

\* solve() returns; login_with_cookies() puts the cookie into the jar and asks for a JWT.
Token ==
  /\ pc = "confirmed"
  /\ pc' = "jwt" /\ cookie' = TRUE /\ stream' = "left"
  /\ UNCHANGED <<reason, parserVars, errors, code, wire, got, spent>>

\* The JWT came or its failure was logged; get_shell().
JwtDone ==
  /\ pc = "jwt"
  /\ pc' = "shell"
  /\ UNCHANGED <<reason, parserVars, errors, code, stream, cookie, wire, got, spent>>

ShellOk ==
  /\ pc = "shell"
  /\ pc' = "done"
  /\ UNCHANGED <<reason, parserVars, errors, code, stream, cookie, wire, got, spent>>

ShellFails ==
  /\ pc = "shell"
  /\ FailWith("shell", stream)
  /\ UNCHANGED <<parserVars, errors, code, cookie, wire, got, spent>>

\* CancelledError at the await in pc: within the generator its finally closes the
\* response first; elsewhere the generator, if there is one, is left.
Interrupt(why) ==
  /\ CASE pc = "read" -> pc' = "close" /\ reason' = why /\ UNCHANGED stream
       [] pc = "close" -> FailWith(why, "closed")
       [] pc \in {"confirm", "confirmed"} -> FailWith(why, "left")
       [] OTHER -> FailWith(why, stream)
  /\ UNCHANGED <<parserVars, errors, code, cookie, wire, got, spent>>

\* Mutant of TimeOut: only the handshake and the exchange are timed.
TimeOutNotReading ==
  pc \in Timed \ {"read"} /\ reason # "timeout" /\ Interrupt("timeout")

TimeOut == pc \in Timed /\ reason # "timeout" /\ Interrupt("timeout")
Cancel == pc \in Suspended /\ Interrupt("cancelled")

-------------------------------------------------------------------------------
QrInit ==
  /\ pc = "idle" /\ reason = "none"
  /\ eventType = Message /\ dataLines = << >>
  /\ errors = 0 /\ code = NoCode
  /\ stream = "none" /\ cookie = FALSE
  /\ wire = << >> /\ got = << >> /\ spent = << >>

Answered == Generated \/ NotStarted \/ Displayed \/ Opened \/ NotOpened \/ Exchange
              \/ ConfirmFails \/ Token \/ JwtDone \/ ShellOk \/ ShellFails

QrNext == \/ Start \/ Answered \/ (\E l \in Line : ReadLine(l)) \/ StreamEnds
          \/ Closed \/ Finalise \/ TimeOut \/ Cancel

\* The requests of the flow end by their own timeouts, the callback returns, the timer
\* fires, asyncio closes what it is to close.  The stream and the user owe nothing.
QrFairness == /\ WF_qrVars(Answered) /\ WF_qrVars(Closed) /\ WF_qrVars(Finalise)
              /\ WF_qrVars(TimeOut)

QrSpec == QrInit /\ [][QrNext]_qrVars /\ QrFairness

-------------------------------------------------------------------------------
(* Properties. *)

\* Every variable has its type.
QrTypeOK ==
  /\ pc \in {"idle"} \cup Suspended \cup Ended
  /\ reason \in {"none", "setup", "ended", "broken", "errors", "nocode", "exchange",
                 "shell", "timeout", "cancelled"}
  /\ eventType \in EventTypes \cup {Message} /\ dataLines \in Seq(Payload)
  /\ errors \in 0 .. MaxErrors
  /\ code \in Codes \cup {NoCode}
  /\ stream \in {"none", "open", "left", "closed"}
  /\ cookie \in BOOLEAN
  /\ wire \in Seq(Line) /\ spent \in Seq(Codes)
  /\ got \in Seq([type : EventTypes \cup {Message}, data : Seq(Payload)])

\* The sequence s lists the values of g, a function on numbers, in the order of these.
Lists(s, g) == /\ Len(s) = Cardinality(DOMAIN g)
               /\ \A n \in DOMAIN g : s[Rank(n, DOMAIN g)] = g[n]

\* The reference: a stream w is a sequence of blocks, each ended by a blank line.  Line n
\* ends, or would end, a block with these lines of a field.
FieldLines(w, n, field) ==
  {m \in 1 .. n - 1 : w[m].field = field /\ \A k \in m .. n - 1 : w[k] # Blank}

\* The block that line n ends has the type t its last event line names, and the data.
HasType(w, n, t) ==
  LET named == FieldLines(w, n, "event")
  IN  \/ named = {} /\ t = Message
      \/ \E m \in named : w[m].value = t /\ \A k \in named : k <= m
DataAt(w, n) == [m \in FieldLines(w, n, "data") |-> w[m].value]

\* A block with data is an event; what follows the last blank line is none.
EventEnds(w) == {n \in 1 .. Len(w) : w[n] = Blank /\ FieldLines(w, n, "data") # {}}

\* The parser, fed line by line, yields at every moment exactly the events of the
\* complete blocks read so far, whatever lines come in whatever order (sse.py:122).
EventsAreBlocks ==
  /\ Len(got) = Cardinality(EventEnds(wire))
  /\ \A n \in EventEnds(wire) : LET e == got[Rank(n, EventEnds(wire))]
                               IN  HasType(wire, n, e.type) /\ Lists(e.data, DataAt(wire, n))

KindOf(e) == Parsed(e.data).kind
ErrorsIn(events) == Cardinality({n \in 1 .. Len(events) : KindOf(events[n]) = QrError})

\* What the login does is justified by the whole stream it read: it goes on reading, or
\* says that the stream ended or timed out, only if no frame confirmed and the error
\* limit was not met; it gives up for errors with the last error that the limit allows;
\* it exchanges the code of the one confirmation, the last frame it read.
OutcomeIsJustified ==
  LET confirmed == \E n \in 1 .. Len(got) : KindOf(got[n]) = Confirmed
  IN  /\ pc \in {"read", "close"} \/ reason \in {"ended", "broken"} =>
           ~confirmed /\ ErrorsIn(got) < MaxErrors
      /\ reason = "errors" => ErrorsIn(got) = MaxErrors /\ KindOf(Last(got)) = QrError
      /\ confirmed => /\ KindOf(Last(got)) = Confirmed /\ ErrorsIn(got) < MaxErrors
                      /\ code = Parsed(Last(got).data).code

\* However the exchange ends (a lost answer, a timeout, a cancellation), the portal sees
\* a one-time code at most once, and the manager is logged in only with the cookie that
\* this code was exchanged for.
CodeIsSpentOnce ==
  /\ spent = << >> \/ spent = <<code>>
  /\ cookie => spent = <<code>> /\ code # NoCode

\* The login ends, however silent the stream (qr.py:74 timeout_s), and whichever way it
\* ends the response is closed (sse.py:88 "Always closes the response on exit, even when
\* the caller breaks out of the async-for loop early").
LoginEndsClosed == pc # "idle" ~> pc \in Ended /\ stream \in {"none", "closed"}

\* authentication.md:73: gives up "after 3 consecutive qr-error SSE events".
ConsecutiveErrors ==
  reason = "errors" =>
    \A n \in Len(got) - MaxErrors + 1 .. Len(got) : n > 0 /\ KindOf(got[n]) = QrError

===============================================================================
