------------------------------ MODULE AuthManager ------------------------------
(***************************************************************************)
(* AuthManager and its TokenStore: the states UNAUTH, COOKIE_ONLY and      *)
(* SESSIONED that every request of a client passes through in ensure(),    *)
(* shared by concurrent requests and logins.                               *)
(*                                                                         *)
(* A task is modelled at the awaits of ensure(), login_with_cookies() and  *)
(* what they call:                                                         *)
(*   load  store.load() in _try_restore(); "loaded" once it took effect    *)
(*   get   GET /session in _obtain_jwt(); "got" once the portal answered   *)
(*   save  store.save() in _obtain_jwt(); "saved" once it took effect      *)
(*   wire  ensure() returned, the request is under way with its cookie     *)
(* The store is a map whose operations take effect in the order of their   *)
(* calls, as those of MemoryStorage and FileStorage do.                    *)
(*                                                                         *)
(* X1_SSO cookies are numbered in the order of the logins, JWTs in the     *)
(* order the portal issued them; 0 is none.  A JWT expires no later than   *)
(* those issued after it, so two marks say which ones are stale and which  *)
(* have expired.  Left out: the other cookies of the jar (GET /session is  *)
(* taken not to set X1_SSO anew), and the Authorization header, which no   *)
(* request reads.  Whether the portal still accepts a cookie is left open: *)
(* any GET /session may fail.                                              *)
(***************************************************************************)
EXTENDS Naturals, Sequences, SequencesExt

CONSTANTS
  Requests,    \* tasks that call ensure() and then send a request
  Logins,      \* tasks that call login_with_cookies()
  MaxLogins,   \* bound: logins
  MaxTokens,   \* bound: JWTs the portal issues
  MaxRestarts  \* bound: times the process is started again

ASSUME TasksAssumption == Requests \cap Logins = {}
ASSUME BoundsAssumption == {MaxLogins, MaxTokens, MaxRestarts} \subseteq Nat

VARIABLES
  persistent,  \* the manager has a store and an account key
  state, jar, token,  \* its _state, the X1_SSO of its _jar, its _token
  cookies,     \* client._cookies["X1_SSO"]
  store,       \* the entry of the account in the TokenStore
  waiting,     \* the tasks whose store operation has not taken effect, in order
  issued, stale, expired,
               \* the JWTs issued; those in need of a refresh; those expired
  pc,          \* where each task is suspended
  upgrading,   \* the requests that call _obtain_jwt() because of COOKIE_ONLY
  sending,     \* sending[t]: the cookie of the HTTP request t has under way
  held,        \* held[t]: what store.load() read, what the portal answered, or
               \* what store.save() was given
  logins, lives,
  \* history variables
  login,       \* the cookie of the last login in this life
  since,       \* since[r]: the same when the ensure() of r began
  overtaken,   \* a restore replaced the credentials of a login or of another restore
  lost         \* a save failed or was abandoned, or the entry was deleted

managerVars == <<state, jar, token>>
storeVars == <<store, waiting, lost>>
portalVars == <<issued, stale, expired>>
taskVars == <<pc, upgrading, sending, held, since>>
lifeVars == <<persistent, logins, lives, login, overtaken>>
vars == <<managerVars, cookies, storeVars, portalVars, taskVars, lifeVars>>

Tasks == Requests \cup Logins
Stages == {"idle", "load", "loaded", "get", "got", "save", "saved", "wire"}
Cookie == 0 .. MaxLogins
JWT == 0 .. MaxTokens
Entry == [token : JWT, cookie : Cookie]
NoEntry == [token |-> 0, cookie |-> 0]

NeedsRefresh(n) == n <= stale
Expired(n) == n <= expired

-------------------------------------------------------------------------------
(* How a task goes on. *)

\* The task is suspended at a stage, with an HTTP request that carries cookie c (0 if
\* it has none under way) and with h in its hands; s is the last login before it began.
Suspend(t, at, c, h, s) ==
  /\ pc' = [pc EXCEPT ![t] = at]
  /\ sending' = [sending EXCEPT ![t] = c]
  /\ held' = [held EXCEPT ![t] = h]
  /\ since' = [since EXCEPT ![t] = s]

\* The call the task made has returned or raised.
Return(t) ==
  /\ Suspend(t, "idle", 0, NoEntry, 0)
  /\ upgrading' = upgrading \ {t}

\* ensure() returned: the request goes out with the cookie c of the client.
SendRequest(r, c, s) ==
  /\ Suspend(r, "wire", c, NoEntry, s)
  /\ upgrading' = upgrading \ {r}

\* The caller of _obtain_jwt() goes on.
AfterObtained(t) ==
  IF t \in Requests THEN SendRequest(t, cookies, since[t]) ELSE Return(t)

\* _obtain_jwt() raised: a login goes on without a JWT, an upgrade of COOKIE_ONLY fails
\* the request, a refresh fails it when the token at hand has expired.
AfterFailure(t) ==
  IF t \in Logins \cup upgrading \/ Expired(token)
    THEN Return(t)
    ELSE SendRequest(t, cookies, since[t])

\* Mutant of Inject: cookies the client has already are kept.
InjectOnce(c) == cookies' = IF cookies = 0 THEN c ELSE cookies

\* _inject_jar()
Inject(c) == cookies' = c

\* Whether ensure() has to call _obtain_jwt().
MustObtain(st, n) == st = "cookie_only" \/ NeedsRefresh(n)

\* ensure() behind _try_restore(), which left this state, jar and token; s as above.
Pass(r, st, c, n, s) ==
  /\ state' = st /\ jar' = c /\ token' = n
  /\ \/ /\ st = "unauth"
        /\ UNCHANGED cookies
        /\ SendRequest(r, cookies, s)
     \/ /\ st # "unauth" /\ MustObtain(st, n)
        /\ Inject(c)
        /\ Suspend(r, "get", c, NoEntry, s)
        /\ upgrading' = IF st = "cookie_only" THEN upgrading \cup {r} ELSE upgrading
     \/ /\ st # "unauth" /\ ~MustObtain(st, n)
        /\ Inject(c)
        /\ SendRequest(r, cookies', s)

-------------------------------------------------------------------------------
(* ensure(), the request behind it, and login_with_cookies(). *)

Ensure(r) ==
  /\ pc[r] = "idle"
  /\ IF state = "unauth" /\ persistent
       THEN /\ Suspend(r, "load", 0, NoEntry, login)
            /\ waiting' = Append(waiting, r)
            /\ UNCHANGED <<managerVars, cookies, upgrading>>
       ELSE /\ Pass(r, state, jar, token, login)
            /\ UNCHANGED waiting
  /\ UNCHANGED <<store, lost, portalVars, lifeVars>>

\* The response of the request arrived, or it failed.
RequestEnds(r) ==
  /\ pc[r] = "wire"
  /\ Return(r)
  /\ UNCHANGED <<managerVars, cookies, storeVars, portalVars, lifeVars>>

\* The queue without a task that no longer waits.
Leave(q, t) ==
  IF t \in ToSet(q) THEN RemoveAt(q, CHOOSE n \in 1 .. Len(q) : q[n] = t) ELSE q

NextInStore(t) == waiting # << >> /\ Head(waiting) = t

LoadTakesEffect(r) ==
  /\ pc[r] = "load" /\ NextInStore(r)
  /\ Suspend(r, "loaded", 0, store, since[r])
  /\ waiting' = Tail(waiting)
  /\ UNCHANGED <<managerVars, cookies, store, lost, portalVars, upgrading, lifeVars>>

\* storage.get() raised: so does ensure().
LoadFails(r) ==
  /\ pc[r] = "load"
  /\ Return(r)
  /\ waiting' = Leave(waiting, r)
  /\ UNCHANGED <<managerVars, cookies, store, lost, portalVars, lifeVars>>

\* Mutant of Usable: whatever was read is restored.
UsableAlways(e) == TRUE

\* Whether an entry that was read is restored.
Usable(e) == e.token # 0 /\ ~Expired(e.token)

\* store.load() returned: _try_restore() applies the entry, whatever the state is by
\* now, and ensure() goes on.
Restore(r) ==
  /\ pc[r] = "loaded"
  /\ IF Usable(held[r])
       THEN /\ Pass(r, "sessioned", held[r].cookie, held[r].token, since[r])
            /\ overtaken' = (overtaken \/ state # "unauth")
       ELSE /\ Pass(r, state, jar, token, since[r])
            /\ UNCHANGED overtaken
  /\ UNCHANGED <<storeVars, portalVars, persistent, logins, lives, login>>

\* login_with_cookies() with the cookie of a new login in the browser.
Login(l) ==
  /\ pc[l] = "idle" /\ logins < MaxLogins
  /\ logins' = logins + 1
  /\ login' = logins + 1
  /\ jar' = logins + 1
  /\ state' = "cookie_only"
  /\ Suspend(l, "get", logins + 1, NoEntry, 0)
  /\ UNCHANGED <<token, cookies, storeVars, issued, stale, expired, upgrading, persistent,
                 lives, overtaken>>

\* The portal answers GET /session with a new JWT, or the last one while it is fresh.
PortalAnswers(t) ==
  /\ pc[t] = "get"
  /\ \E n \in {issued, issued + 1} \ (0 .. stale) :
       /\ n <= MaxTokens
       /\ issued' = n
       /\ Suspend(t, "got", 0, [token |-> n, cookie |-> 0], since[t])
  /\ UNCHANGED <<managerVars, cookies, storeVars, stale, expired, upgrading,
                 lifeVars>>

\* Mutant of Given: the token is assigned after it was saved.
GivenOld(t) == [token |-> token, cookie |-> jar]

\* What _obtain_jwt() passes to store.save().
Given(t) == [token |-> held[t].token, cookie |-> jar]

\* The response arrived: the token is replaced and, with a store, saved.
Obtained(t) ==
  /\ pc[t] = "got"
  /\ token' = held[t].token
  /\ state' = "sessioned"
  /\ IF persistent
       THEN /\ Suspend(t, "save", 0, Given(t), since[t])
            /\ waiting' = Append(waiting, t)
            /\ UNCHANGED upgrading
       ELSE /\ AfterObtained(t)
            /\ UNCHANGED waiting
  /\ UNCHANGED <<jar, cookies, store, lost, portalVars, lifeVars>>

\* A network error, a 401 (the cookie has expired) or another status, an empty body, a malformed JWT.
ObtainFails(t) ==
  /\ pc[t] \in {"get", "got"}
  /\ AfterFailure(t)
  /\ UNCHANGED <<managerVars, cookies, storeVars, portalVars, lifeVars>>

SaveTakesEffect(t) ==
  /\ pc[t] = "save" /\ NextInStore(t)
  /\ Suspend(t, "saved", 0, NoEntry, since[t])
  /\ store' = held[t]
  /\ waiting' = Tail(waiting)
  /\ UNCHANGED <<managerVars, cookies, lost, portalVars, upgrading, lifeVars>>

\* store.save() returned, or raised, which is swallowed.
SaveReturns(t) ==
  /\ pc[t] \in {"save", "saved"}
  /\ AfterObtained(t)
  /\ waiting' = Leave(waiting, t)
  /\ lost' = (lost \/ pc[t] = "save")
  /\ UNCHANGED <<managerVars, cookies, store, portalVars, lifeVars>>

\* The task is cancelled; a save that is under way may still take effect.
Cancel(t) ==
  /\ pc[t] # "idle"
  /\ Return(t)
  /\ waiting' = Leave(waiting, t)
  /\ lost' = (lost \/ pc[t] = "save")
  /\ \/ UNCHANGED store
     \/ pc[t] = "save" /\ NextInStore(t) /\ store' = held[t]
  /\ UNCHANGED <<managerVars, cookies, portalVars, lifeVars>>

-------------------------------------------------------------------------------
(* The clock, the application, the process. *)

\* The refresh skew of one more JWT begins ...
TokenGoesStale ==
  /\ stale < issued /\ stale + 1 < MaxTokens
  /\ stale' = stale + 1
  /\ UNCHANGED <<managerVars, cookies, storeVars, issued, expired, taskVars,
                 lifeVars>>

\* ... and is over.
TokenExpires ==
  /\ expired < stale
  /\ expired' = expired + 1
  /\ UNCHANGED <<managerVars, cookies, storeVars, issued, stale, taskVars, lifeVars>>

\* The application calls TokenStore.delete().
Forget ==
  /\ waiting = << >> /\ store # NoEntry
  /\ store' = NoEntry
  /\ lost' = TRUE
  /\ UNCHANGED <<managerVars, cookies, waiting, portalVars, taskVars, lifeVars>>

\* The process ends and another one starts; a save under way may have taken effect,
\* or have destroyed the entry.
Restart ==
  /\ lives < MaxRestarts
  /\ lives' = lives + 1
  /\ \/ UNCHANGED store
     \/ \E t \in Tasks : /\ pc[t] = "save" /\ NextInStore(t)
                        /\ store' \in {held[t], NoEntry}
  /\ state' = "unauth" /\ jar' = 0 /\ token' = 0 /\ cookies' = 0
  /\ waiting' = << >>
  /\ pc' = [t \in Tasks |-> "idle"]
  /\ upgrading' = {}
  /\ sending' = [t \in Tasks |-> 0]
  /\ held' = [t \in Tasks |-> NoEntry]
  /\ since' = [t \in Tasks |-> 0]
  /\ login' = 0 /\ overtaken' = FALSE /\ lost' = FALSE
  /\ UNCHANGED <<portalVars, persistent, logins>>

Init ==
  /\ persistent \in BOOLEAN
  /\ state = "unauth" /\ jar = 0 /\ token = 0 /\ cookies = 0
  /\ store = NoEntry /\ waiting = << >>
  /\ issued = 0 /\ stale = 0 /\ expired = 0
  /\ pc = [t \in Tasks |-> "idle"]
  /\ upgrading = {}
  /\ sending = [t \in Tasks |-> 0]
  /\ held = [t \in Tasks |-> NoEntry]
  /\ since = [t \in Tasks |-> 0]
  /\ logins = 0 /\ lives = 0
  /\ login = 0 /\ overtaken = FALSE /\ lost = FALSE

Step(t) ==
  \/ PortalAnswers(t) \/ Obtained(t) \/ ObtainFails(t)
  \/ SaveTakesEffect(t) \/ SaveReturns(t) \/ Cancel(t)

RequestStep(r) ==
  Ensure(r) \/ LoadTakesEffect(r) \/ LoadFails(r) \/ Restore(r) \/ RequestEnds(r)

Next ==
  \/ \E r \in Requests : RequestStep(r)
  \/ \E l \in Logins : Login(l)
  \/ \E t \in Tasks : Step(t)
  \/ TokenGoesStale \/ TokenExpires \/ Forget \/ Restart

Spec == Init /\ [][Next]_vars

-------------------------------------------------------------------------------
(* Properties. *)

\* The types of all variables but the queue of the store.
CredentialsOK ==
  /\ persistent \in BOOLEAN
  /\ state \in {"unauth", "cookie_only", "sessioned"}
  /\ {jar, cookies} \subseteq Cookie /\ token \in JWT
  /\ {issued, stale, expired} \subseteq JWT
  /\ logins \in 0 .. MaxLogins /\ login \in 0 .. logins
  /\ pc \in [Tasks -> Stages]
  /\ upgrading \subseteq Requests
  /\ sending \in [Tasks -> Cookie]
  /\ store \in Entry /\ held \in [Tasks -> Entry]
  /\ since \in [Tasks -> 0 .. MaxLogins]
  /\ lives \in 0 .. MaxRestarts
  /\ {overtaken, lost} \subseteq BOOLEAN

\* The queue of the store holds each task that waits for it, once.
QueueOK ==
  /\ waiting \in Seq(Tasks) /\ IsInjective(waiting)
  /\ ToSet(waiting) = {t \in Tasks : pc[t] \in {"load", "save"}}

\* The variables have their types; COOKIE_ONLY and SESSIONED come with a cookie,
\* SESSIONED with a token.
TypeOK ==
  /\ CredentialsOK /\ QueueOK
  /\ state # "unauth" => jar # 0
  /\ state = "sessioned" => token # 0
  /\ expired <= stale /\ stale <= issued

\* manager.py:4-6: the one call that injects credentials is ensure().  A request whose
\* ensure() began after a login carries the cookie of that login, or of a later one,
\* whatever refreshes, upgrades, failures and cancellations of other tasks happen in
\* between; only a restore that was in flight across a login can take it back.
RequestCarriesLogin ==
  \A r \in Requests : pc[r] = "wire" /\ ~overtaken => sending[r] >= since[r]

\* The inductive strengthening of RequestCarriesLogin: a login leaves UNAUTH for good
\* and its cookie stays in the jar; a task between _inject_jar() and the request finds
\* in the client a cookie no older than the login it began after.
LoginStays ==
  /\ CredentialsOK
  /\ \A t \in Tasks : since[t] <= login
  /\ ~overtaken =>
       /\ login # 0 => jar = login /\ state # "unauth"
       /\ \A r \in Requests :
            pc[r] \in {"get", "got", "save", "saved"} => cookies >= since[r]
       /\ RequestCarriesLogin

Before(q, a, b) == \E m, n \in 1 .. Len(q) : m < n /\ q[m] = a /\ q[n] = b

\* t saves, and no other save will take effect after it.
Newest(t) ==
  pc[t] = "save" /\ ~\E u \in Tasks : pc[u] = "save" /\ Before(waiting, t, u)

\* What the store will hold when all saves under way took effect is e.
WillHold(e) == \/ store = e /\ \A t \in Tasks : pc[t] # "save"
               \/ \E t \in Tasks : Newest(t) /\ held[t] = e

\* manager.py:288, store.py:1: in a session the store holds, or is about to hold, the
\* very token and cookie of the manager, in whatever order concurrent refreshes and
\* logins were answered; so a restart finds the session as it was.
RestartFindsSession ==
  persistent /\ state = "sessioned" /\ ~lost /\ ~overtaken
    => WillHold([token |-> token, cookie |-> jar])

\* The inductive strengthening of RestartFindsSession: before the first login or
\* restore of a life no task is in _obtain_jwt(), so that what a restore has read is
\* what the store still holds.
SessionStored ==
  /\ CredentialsOK /\ QueueOK
  /\ state = "unauth" =>
       /\ \A t \in Tasks : pc[t] \notin {"get", "got", "save", "saved"}
       /\ ~lost => \A t \in Tasks : pc[t] = "loaded" => held[t] = store
  /\ RestartFindsSession

===============================================================================
