------------------------------ MODULE EsiaReplay ------------------------------
(***************************************************************************)
(* replay_oauth(): the ESIA login form is driven without a browser.  The   *)
(* portal's redirect is parsed, the chain of redirects to the login page   *)
(* followed by hand, the password posted, the chain back to the portal     *)
(* followed until a response sets X1_SSO, and the manager logged in with   *)
(* it.  The portal and ESIA may answer anything, also redirects for ever.  *)
(***************************************************************************)
EXTENDS Naturals

CONSTANTS
  MaxAcHops,  \* "max redirect depth" to the login page
  MaxHops     \* "max redirect depth for callback chain"

ASSUME EsiaAssumption == MaxAcHops \in Nat /\ MaxHops \in Nat \ {0}

VARIABLES
  at,         \* the request awaited, or how the replay ended
  step,       \* the step of the EsiaReplayError, 0 for none
  hops,       \* turns of the current redirect loop
  cookieSet,  \* login_with_cookies() was called
  (* history *)
  posted,     \* how often the password was sent
  captcha,    \* a page that was looked at showed a captcha
  chainSet,   \* a response of the callback chain set X1_SSO
  sent        \* requests sent

esiaVars == <<at, step, hops, cookieSet, posted, captcha, chainSet, sent>>

\* What the code looks at in a response.
Response == [status : {"ok", "redirect", "error"}, location : BOOLEAN,
             captcha : BOOLEAN, x1 : BOOLEAN]

Awaiting == {"redirect", "ac", "login", "chain"}
Over == {"replayed", "error", "challenge", "raised"}

Fails(k) == at' = "error" /\ step' = k /\ UNCHANGED <<hops, posted, sent, cookieSet>>
Request(where, n) ==
  at' = where /\ hops' = n /\ sent' = sent + 1 /\ UNCHANGED <<step, cookieSet>>

\* Step 1: the portal's redirect endpoint.
Begin ==
  /\ at = "idle"
  /\ Request("redirect", 0)
  /\ UNCHANGED <<posted, captcha, chainSet>>

\* Steps 1 and 2: the location must be there and carry client_id, client_secret, state
\* and redirect_uri; the secret must pass for a base64 blob.
Redirected(r) ==
  /\ at = "redirect"
  /\ IF r.status # "redirect" \/ ~r.location
     THEN Fails(1)
     ELSE \/ Fails(2)
          \/ Request("ac", 0) /\ UNCHANGED posted
  /\ UNCHANGED <<captcha, chainSet>>

\* Step 3: follow redirects; whatever page the loop ends with, also when it used up its
\* turns, is looked at for a captcha and taken for the login page.  Step 4: the password.
AcAnswered(r) ==
  /\ at = "ac"
  /\ IF r.status = "redirect" /\ r.location /\ hops < MaxAcHops
     THEN Request("ac", hops + 1) /\ UNCHANGED <<posted, captcha>>
     ELSE /\ captcha' = r.captcha
          /\ IF r.captcha
             THEN at' = "challenge" /\ UNCHANGED <<step, hops, posted, sent, cookieSet>>
             ELSE Request("login", 0) /\ posted' = posted + 1
  /\ UNCHANGED chainSet

\* Mutant of Follow: the callback loop takes one turn too many.
FollowOnceMore(r, n) ==
  IF r.location /\ n <= MaxHops THEN Request("chain", n + 1) /\ UNCHANGED posted
                                ELSE Fails(6)

\* The next turn of the callback loop: only the location counts, not the status.
Follow(r, n) ==
  IF r.location /\ n < MaxHops THEN Request("chain", n + 1) /\ UNCHANGED posted
                               ELSE Fails(6)

\* Step 4: a cookie of this response is not looked at.
LoginAnswered(r) ==
  /\ at = "login"
  /\ captcha' = r.captcha
  /\ \/ /\ r.captcha
        /\ at' = "challenge" /\ UNCHANGED <<step, hops, posted, sent, cookieSet>>
     \/ ~r.captcha /\ r.status = "error" /\ Fails(4)
     \/ ~r.captcha /\ r.status # "error" /\ Follow(r, 0)
  /\ UNCHANGED chainSet

\* Mutant of ChainAnswered: the cookie is looked for behind the loop, in its last response.
ChainAnsweredLate(r) ==
  /\ at = "chain"
  /\ chainSet' = (chainSet \/ r.x1)
  /\ IF r.x1 /\ ~r.location
     THEN at' = "replayed" /\ cookieSet' = TRUE /\ UNCHANGED <<step, hops, posted, sent>>
     ELSE Follow(r, hops)
  /\ UNCHANGED captcha

\* Steps 5 and 6: the passport callback and every other hop end the loop with X1_SSO.
ChainAnswered(r) ==
  /\ at = "chain"
  /\ chainSet' = (chainSet \/ r.x1)
  /\ IF r.x1
     THEN at' = "replayed" /\ cookieSet' = TRUE /\ UNCHANGED <<step, hops, posted, sent>>
     ELSE Follow(r, hops)
  /\ UNCHANGED captcha

\* Mutant of TransportFails: a failed login POST is started over.
TransportFailsRepost ==
  /\ at \in Awaiting
  /\ IF at = "login" /\ posted < 2
     THEN Request("ac", 0) /\ UNCHANGED posted
     ELSE Fails([redirect |-> 1, ac |-> 3, login |-> 4, chain |-> 5][at])
  /\ UNCHANGED <<captcha, chainSet>>

\* httpx.TransportError, in the terms of the step.
TransportFails ==
  /\ at \in Awaiting
  /\ Fails([redirect |-> 1, ac |-> 3, login |-> 4, chain |-> 5][at])
  /\ UNCHANGED <<captcha, chainSet>>

\* Any other exception (a location that is no URL, a body that cannot be decoded, a
\* cancellation) is passed on as it is.
Raises ==
  /\ at \in Awaiting
  /\ at' = "raised"
  /\ UNCHANGED <<step, hops, cookieSet, posted, captcha, chainSet, sent>>

EsiaInit == /\ at = "idle" /\ step = 0 /\ hops = 0 /\ cookieSet = FALSE
            /\ posted = 0 /\ captcha = FALSE /\ chainSet = FALSE /\ sent = 0

Answer(r) == Redirected(r) \/ AcAnswered(r) \/ LoginAnswered(r) \/ ChainAnswered(r)

EsiaNext == \/ Begin \/ TransportFails \/ Raises
            \/ \E r \in Response : Answer(r)

EsiaSpec == EsiaInit /\ [][EsiaNext]_esiaVars

-------------------------------------------------------------------------------
(* Properties. *)

\* Every variable has its type.
EsiaTypeOK ==
  /\ at \in {"idle"} \cup Awaiting \cup Over
  /\ step \in 0 .. 6
  /\ hops \in Nat /\ sent \in Nat /\ posted \in Nat
  /\ at = "ac" => hops <= MaxAcHops
  /\ at = "chain" => hops \in 1 .. MaxHops
  /\ cookieSet \in BOOLEAN /\ captcha \in BOOLEAN /\ chainSet \in BOOLEAN

\* The password goes out at most once and never to a page that asked for a captcha; the
\* error tells the caller whether it went out (steps 4 to 6) or not (1 to 3), and an
\* account is asked for a human, instead of an error, exactly after a captcha
\* (esia.py:163-166).
PasswordOnce ==
  /\ posted \in {0, 1}
  /\ at = "error" => (posted = 1 <=> step >= 4)
  /\ at = "challenge" <=> captcha

\* The replay ends logged in exactly when a response of the callback chain set X1_SSO:
\* no cookie on the way is overlooked and none is made up.
CookieIsFound ==
  /\ at = "replayed" <=> chainSet
  /\ cookieSet <=> chainSet
  /\ step = 6 => ~chainSet

\* However the portals redirect, and also when a redirect leads back to a page that was
\* visited, the replay sends at most this number of requests (esia.py:202, 264).
RequestsBounded == sent <= 3 + MaxAcHops + MaxHops

===============================================================================
