----------------------------- MODULE RequestFunnel -----------------------------
(***************************************************************************)
(* A Client on a session file, and the funnel every method call of it goes *)
(* through: BaseSession.make_request() and _send_with_retry().             *)
(*                                                                         *)
(* Several calls run as tasks of one event loop.  A call is modelled at    *)
(* its suspension points: waiting for the rate limiter ("paced"), for the  *)
(* response ("wire"), or in the retry policy's sleep ("backoff").  What    *)
(* lies between two of them is one step.  The portal and the network are   *)
(* external: a request can be executed and its response still be lost.     *)
(*                                                                         *)
(* A login in the browser yields an X1_SSO cookie; cookies are numbered in *)
(* the order they were issued, 0 is no cookie.  The client has no          *)
(* AuthManager here (Client() and Client.from_cookie() attach none).       *)
(***************************************************************************)
EXTENDS Naturals, FiniteSets

CONSTANTS
  Calls,           \* the method calls of one life of the client
  Idempotent,      \* those whose protocol says is_idempotent(method)
  Journaling,      \* SaveJournal and DeleteJournal, whose emit() is guarded
  Retries,         \* config.retries
  Options,         \* how a client may be set up, see below
  MaxLogins,       \* bound: logins in the browser
  MaxLives         \* bound: clients constructed, one after the other

ASSUME CallsAssumption ==
  /\ IsFiniteSet(Calls)
  /\ Idempotent \subseteq Calls
  /\ Journaling \subseteq Calls \ Idempotent
ASSUME ConfigAssumption ==
  /\ Retries \in Nat
  /\ Options \subseteq {"limiter", "breaker", "mutations"}
ASSUME LimitsAssumption == MaxLogins \in Nat /\ MaxLives \in Nat

VARIABLES
  life,      \* "none", "built" (constructed), "inside" (entered) or "left"
  lives,     \* clients constructed so far
  options,   \* "limiter", "breaker": user code assigned client._rate_limiter or
             \* client._breaker; "mutations": config.allow_mutations is set
  closed,    \* its httpx client is closed
  cookie,    \* client._cookies["X1_SSO"]
  saved,     \* the cookie in the session file
  given,     \* the cookie from_cookie() was called with
  issued,    \* the newest cookie the browser has
  accepted,  \* the cookies the portal accepts
  pc,        \* pc[c]: where the call is suspended
  attempt,   \* attempt[c]: the loop variable of _send_with_retry
  cred,      \* cred[c]: the cookie in the prepared request
  reply,     \* reply[c]: how the current attempt ended, or "pending"
  outcome,   \* outcome[c]: what the caller of the call saw
  effects,   \* effects[c]: times the portal executed the call (history)
  retried    \* retried[c]: the replies after which it was sent again (history)

clientVars == <<life, lives, options, closed, cookie, saved, given>>
portalVars == <<issued, accepted>>
callVars == <<pc, attempt, cred, reply, outcome, effects, retried>>
vars == <<clientVars, portalVars, callVars>>

-------------------------------------------------------------------------------
Statuses == {"2xx", "401", "transient", "refused"}
  \* transient: 429, 500, 502, 503, 504;  refused: any other status from 400 up
Exceptions == {"OSError", "httpx"}
  \* OSError stands for TransportError, OSError and TimeoutError, which a session of
  \* the user's own may raise.  httpx stands for the exceptions of the httpx library,
  \* which are none of these: what HttpxSession, the default, lets through when a
  \* connection fails or times out (httpx.ConnectError, httpx.ReadTimeout).
Outcomes == {"none", "result", "ProtocolError", "AuthExpiredError", "HTTPError",
             "OSError", "httpx", "MutationsDisabled", "AttributeError", "cancelled"}
Stages == {"idle", "paced", "wire", "backoff", "done"}
Cookies == 0 .. MaxLogins

Ended(c, o) ==
  /\ pc' = [pc EXCEPT ![c] = "done"]
  /\ outcome' = [outcome EXCEPT ![c] = o]

Suspended(c) == pc[c] \in {"paced", "wire", "backoff"}

(* The portal and the browser. *)

BrowserLogin ==
  /\ issued < MaxLogins
  /\ issued' = issued + 1
  /\ accepted' = accepted \cup {issued + 1}
  /\ UNCHANGED <<clientVars, callVars>>

Expire(s) ==
  /\ s \in accepted
  /\ accepted' = accepted \ {s}
  /\ UNCHANGED <<issued, clientVars, callVars>>

\* The portal handles the request that is on the wire.  A 5xx says nothing about
\* whether the request took effect.
Answer(c) ==
  /\ pc[c] = "wire" /\ reply[c] = "pending" /\ ~closed
  /\ IF cred[c] \in accepted
       THEN \E r \in {"2xx", "transient", "refused"}, took \in BOOLEAN :
              /\ r = "2xx" => took
              /\ r = "refused" => ~took
              /\ reply' = [reply EXCEPT ![c] = r]
              /\ effects' = [effects EXCEPT ![c] = @ + IF took THEN 1 ELSE 0]
       ELSE /\ reply' = [reply EXCEPT ![c] = "401"]
            /\ UNCHANGED effects
  /\ UNCHANGED <<clientVars, portalVars, pc, attempt, cred, outcome, retried>>

\* The connection breaks, before the portal saw the request or after it answered.
\* On a closed httpx client the request fails at once.
Break(c) ==
  /\ pc[c] = "wire" /\ reply[c] \notin Exceptions
  /\ \E x \in Exceptions :
       /\ closed => x = "httpx"
       /\ reply' = [reply EXCEPT ![c] = x]
  /\ UNCHANGED <<clientVars, portalVars, pc, attempt, cred, outcome, effects, retried>>

-------------------------------------------------------------------------------
(* The life of a client. *)

\* Client.from_cookie(x1_sso, session_file=...) with the cookie of the browser.
FromCookie ==
  /\ life \in {"none", "left"} /\ lives < MaxLives
  /\ issued > 0
  /\ \A c \in Calls : ~Suspended(c)
  /\ life' = "built"
  /\ lives' = lives + 1
  /\ options' \in SUBSET Options
  /\ closed' = FALSE
  /\ cookie' = issued
  /\ given' = issued
  /\ pc' = [c \in Calls |-> "idle"]
  /\ attempt' = [c \in Calls |-> 0]
  /\ cred' = [c \in Calls |-> 0]
  /\ reply' = [c \in Calls |-> "pending"]
  /\ outcome' = [c \in Calls |-> "none"]
  /\ effects' = [c \in Calls |-> 0]
  /\ retried' = [c \in Calls |-> {}]
  /\ UNCHANGED <<saved, portalVars>>

\* __aenter__(): what the session file holds is laid over the client's cookies.
Enter ==
  /\ life = "built"
  /\ life' = "inside"
  /\ cookie' = IF saved # 0 THEN saved ELSE cookie
  /\ UNCHANGED <<lives, options, closed, saved, given, portalVars, callVars>>

\* save(), called by the application.
Save ==
  /\ life = "inside"
  /\ saved' = IF cookie # 0 THEN cookie ELSE saved
  /\ UNCHANGED <<life, lives, options, closed, cookie, given, portalVars, callVars>>

\* __aexit__(): save() and close().  Calls still in flight lose their connection.
Exit ==
  /\ life = "inside"
  /\ life' = "left"
  /\ saved' = IF cookie # 0 THEN cookie ELSE saved
  /\ closed' = TRUE
  /\ UNCHANGED <<lives, options, cookie, given, portalVars, callVars>>

\* __aexit__() when save() raises: close() is not reached.
ExitUnsaved ==
  /\ life = "inside"
  /\ life' = "left"
  /\ UNCHANGED <<lives, options, closed, cookie, saved, given, portalVars, callVars>>

-------------------------------------------------------------------------------
(* One call. *)

\* make_request() past the rate limiter.  The breaker branch calls a method,
\* allow(), that CircuitBreaker does not have.
Send(c) ==
  IF "breaker" \in options
    THEN Ended(c, "AttributeError")
    ELSE /\ pc' = [pc EXCEPT ![c] = "wire"]
         /\ UNCHANGED outcome

\* emit(), the guard of the journal writes, _prepare() and the rate limiter.
Call(c) ==
  /\ life \in {"built", "inside"} /\ pc[c] = "idle"
  /\ IF c \in Journaling /\ "mutations" \notin options
       THEN /\ Ended(c, "MutationsDisabled")
            /\ UNCHANGED cred
       ELSE /\ cred' = [cred EXCEPT ![c] = cookie]
            /\ IF "limiter" \in options
                 THEN /\ pc' = [pc EXCEPT ![c] = "paced"]
                      /\ UNCHANGED outcome
                 ELSE Send(c)
  /\ UNCHANGED <<clientVars, portalVars, attempt, reply, effects, retried>>

\* rate_limiter.acquire() returned.
Admitted(c) ==
  /\ pc[c] = "paced"
  /\ Send(c)
  /\ UNCHANGED <<clientVars, portalVars, attempt, cred, reply, effects, retried>>

\* Mutant of Retryable: a failed connection is retried whatever the method is.
RetryableOnOSError(c, r) == (c \in Idempotent /\ r = "transient") \/ r = "OSError"

\* RetryPolicy.is_retryable()
Retryable(c, r) == c \in Idempotent /\ r \in {"transient", "OSError"}

\* The outcome of an attempt that is not retried.
Raised(r) ==
  CASE r = "401" -> {"AuthExpiredError"}
    [] r \in {"transient", "refused"} -> {"HTTPError"}
    [] r \in Exceptions -> {r}
    [] r = "2xx" -> {"result", "ProtocolError"}

\* Mutant of Settle: the attempts are counted from one.
SettleOffByOne(c) ==
  /\ pc[c] = "wire" /\ reply[c] # "pending"
  /\ IF Retryable(c, reply[c]) /\ attempt[c] + 1 < Retries
       THEN /\ pc' = [pc EXCEPT ![c] = "backoff"]
            /\ UNCHANGED outcome
       ELSE \E o \in Raised(reply[c]) : Ended(c, o)
  /\ UNCHANGED <<clientVars, portalVars, attempt, cred, reply, effects, retried>>

\* Mutant of Settle: one attempt more than configured.
SettleOneMore(c) ==
  /\ pc[c] = "wire" /\ reply[c] # "pending"
  /\ IF Retryable(c, reply[c]) /\ attempt[c] <= Retries
       THEN /\ pc' = [pc EXCEPT ![c] = "backoff"]
            /\ UNCHANGED outcome
       ELSE \E o \in Raised(reply[c]) : Ended(c, o)
  /\ UNCHANGED <<clientVars, portalVars, attempt, cred, reply, effects, retried>>

\* The body of the loop of _send_with_retry(), once _send() returned or raised,
\* and decode_response() after a good status.
Settle(c) ==
  /\ pc[c] = "wire" /\ reply[c] # "pending"
  /\ IF Retryable(c, reply[c]) /\ attempt[c] < Retries
       THEN /\ pc' = [pc EXCEPT ![c] = "backoff"]
            /\ UNCHANGED outcome
       ELSE \E o \in Raised(reply[c]) : Ended(c, o)
  /\ UNCHANGED <<clientVars, portalVars, attempt, cred, reply, effects, retried>>

\* Mutant of Resend: the attempt is not counted.
ResendUncounted(c) ==
  /\ pc[c] = "backoff"
  /\ pc' = [pc EXCEPT ![c] = "wire"]
  /\ retried' = [retried EXCEPT ![c] = @ \cup {reply[c]}]
  /\ reply' = [reply EXCEPT ![c] = "pending"]
  /\ UNCHANGED <<clientVars, portalVars, attempt, cred, outcome, effects>>

\* policy.wait() returned: the same prepared request is sent again.
Resend(c) ==
  /\ pc[c] = "backoff"
  /\ pc' = [pc EXCEPT ![c] = "wire"]
  /\ attempt' = [attempt EXCEPT ![c] = @ + 1]
  /\ retried' = [retried EXCEPT ![c] = @ \cup {reply[c]}]
  /\ reply' = [reply EXCEPT ![c] = "pending"]
  /\ UNCHANGED <<clientVars, portalVars, cred, outcome, effects>>

\* The task that awaits the call is cancelled.
Cancel(c) ==
  /\ Suspended(c)
  /\ Ended(c, "cancelled")
  /\ UNCHANGED <<clientVars, portalVars, attempt, cred, reply, effects, retried>>

-------------------------------------------------------------------------------
Init ==
  /\ life = "none" /\ lives = 0 /\ options = {} /\ closed = FALSE
  /\ cookie = 0 /\ saved = 0 /\ given = 0
  /\ issued = 0 /\ accepted = {}
  /\ pc = [c \in Calls |-> "idle"]
  /\ attempt = [c \in Calls |-> 0]
  /\ cred = [c \in Calls |-> 0]
  /\ reply = [c \in Calls |-> "pending"]
  /\ outcome = [c \in Calls |-> "none"]
  /\ effects = [c \in Calls |-> 0]
  /\ retried = [c \in Calls |-> {}]

CallNext(c) ==
  Call(c) \/ Admitted(c) \/ Answer(c) \/ Break(c) \/ Settle(c) \/ Resend(c) \/ Cancel(c)

Next ==
  \/ BrowserLogin \/ FromCookie \/ Enter \/ Save \/ Exit \/ ExitUnsaved
  \/ \E s \in accepted : Expire(s)
  \/ \E c \in Calls : CallNext(c)

Spec == Init /\ [][Next]_vars

\* The event loop runs a task whose await is over; the limiter and the backoff
\* sleep end; a request ends, if only by its timeout (request_timeout_s).
FairSpec ==
  /\ Spec
  /\ \A c \in Calls : /\ WF_vars(Admitted(c))
                      /\ WF_vars(Answer(c) \/ Break(c))
                      /\ WF_vars(Settle(c))
                      /\ WF_vars(Resend(c))

-------------------------------------------------------------------------------
(* Properties. *)

\* Every variable of the client and of a call has its type.
TypeOK ==
  /\ life \in {"none", "built", "inside", "left"} /\ lives \in 0 .. MaxLives
  /\ options \in SUBSET Options /\ closed \in BOOLEAN
  /\ {cookie, saved, given, issued} \subseteq Cookies /\ accepted \subseteq 1 .. issued
  /\ pc \in [Calls -> Stages]
  /\ attempt \in [Calls -> 0 .. Retries]
  /\ cred \in [Calls -> Cookies]
  /\ reply \in [Calls -> Statuses \cup Exceptions \cup {"pending"}]
  /\ outcome \in [Calls -> Outcomes]
  /\ effects \in [Calls -> 0 .. Retries + 1]
  /\ retried \in [Calls -> SUBSET (Statuses \cup Exceptions)]

\* However requests fail, responses get lost and callers give up: the portal
\* executes a write at most once, a journal write never unless mutations were
\* allowed, and a read at most once per configured attempt.  (retry.py:4 "POST
\* writes are never retried", journal.py:67 "before any network call".)
EffectsBounded ==
  \A c \in Calls :
    effects[c] <= CASE c \in Journaling /\ "mutations" \notin options -> 0
                    [] c \in Idempotent -> Retries + 1
                    [] OTHER -> 1

\* Of each call, what was sent again and what was not: a request goes out a second
\* time only for an idempotent method, and only after a transient status or an
\* exception the policy knows, never after a 401, another status, or an exception of
\* httpx; and none of the configured retries is given away, so that the caller of a
\* read sees a transient status or such an exception only after the last of them.
\* This is what the code does, not all the docs say: the network failures of the
\* default session are httpx exceptions and end the call at whatever attempt they
\* come (see NetworkFailuresAreRetried).
GivesUpLast ==
  \A c \in Calls :
    /\ attempt[c] > 0 => retried[c] # {}
    /\ retried[c] # {} => c \in Idempotent
    /\ retried[c] \subseteq {"transient", "OSError"}
    /\ /\ c \in Idempotent
       /\ outcome[c] \in {"HTTPError", "OSError"} /\ reply[c] \in {"transient", "OSError"}
       => attempt[c] = Retries

\* Each call comes to an end, whatever the portal and the network answer: the
\* retry loop cannot go on for ever.
EveryCallReturns == \A c \in Calls : Suspended(c) ~> ~Suspended(c)

\* retry.py:59: retryable is "a transient HTTP status OR a network-level exception"
\* (configuration.md:33 "retries for idempotent requests on transient failures"): so
\* the caller of a read sees a failed connection only after all retries.
NetworkFailuresAreRetried ==
  \A c \in Idempotent : outcome[c] \in Exceptions /\ ~closed => attempt[c] = Retries

\* docs/authentication.md:80: after an expiry one must "re-authenticate
\* (from_cookie with a fresh cookie ...)".  So the requests of a client carry the
\* cookie it was constructed with, or one that is newer.
FreshCookieIsSent == \A c \in Calls : pc[c] = "wire" => cred[c] >= given
===============================================================================
