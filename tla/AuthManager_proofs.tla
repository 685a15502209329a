-------------------------- MODULE AuthManager_proofs --------------------------
(***************************************************************************)
(* Proofs about AuthManager, for every set of requests and logins and      *)
(* every value of the bounds: a request that began after a login carries   *)
(* the cookie of that login or of a later one; and the token store ends up *)
(* with the credentials of the session; and a state comes with the         *)
(* credentials it is named for.                                            *)
(***************************************************************************)
EXTENDS AuthManager, TLAPS, SequenceTheorems

LEMMA BoundsType == MaxLogins \in Nat /\ MaxTokens \in Nat /\ MaxRestarts \in Nat
BY BoundsAssumption

LEMMA EntryType == \A n \in JWT, c \in Cookie : [token |-> n, cookie |-> c] \in Entry
BY DEF Entry

LEMMA NoEntryType == NoEntry \in Entry /\ 0 \in Cookie /\ 0 \in JWT
BY BoundsType DEF NoEntry, Entry, Cookie, JWT

\* What LoginStays says of the credentials, and of one task in its stage.
CredentialsStay == ~overtaken /\ login # 0 => jar = login /\ state # "unauth"
UpToLogin(t) ==
  /\ since[t] <= login
  /\ ~overtaken /\ t \in Requests =>
       /\ pc[t] \in {"get", "got", "save", "saved"} => cookies >= since[t]
       /\ pc[t] = "wire" => sending[t] >= since[t]

LEMMA Parts ==
  LoginStays <=> CredentialsOK /\ CredentialsStay /\ \A t \in Tasks : UpToLogin(t)
BY DEF LoginStays, CredentialsStay, UpToLogin, RequestCarriesLogin, Tasks

(* Suspending one task changes nothing of the others.                        *)
LEMMA SuspendType ==
  ASSUME CredentialsOK, NEW t \in Tasks, NEW at \in Stages, NEW c \in Cookie,
         NEW h \in Entry, NEW s \in 0 .. MaxLogins, Suspend(t, at, c, h, s)
  PROVE  /\ pc' \in [Tasks -> Stages] /\ sending' \in [Tasks -> Cookie]
         /\ held' \in [Tasks -> Entry] /\ since' \in [Tasks -> 0 .. MaxLogins]
         /\ pc'[t] = at /\ sending'[t] = c /\ since'[t] = s
         /\ \A u \in Tasks : u # t =>
              pc'[u] = pc[u] /\ sending'[u] = sending[u] /\ since'[u] = since[u]
BY DEF CredentialsOK, Suspend

\* The rest of the types: what a step of a task may do to the other variables.
RestOK ==
  /\ state' \in {"unauth", "cookie_only", "sessioned"}
  /\ jar' \in Cookie /\ cookies' \in Cookie /\ token' \in JWT
  /\ issued' \in JWT /\ stale' \in JWT /\ expired' \in JWT
  /\ upgrading' \subseteq Requests
  /\ store' \in Entry
  /\ overtaken' \in BOOLEAN /\ lost' \in BOOLEAN
  /\ UNCHANGED <<persistent, logins, lives, login>>

(* A step of one task preserves the invariant when it forgets no login, and  *)
(* leaves to the task, and to all others if it changes the client's cookies, *)
(* a cookie that is new enough.                                              *)
LEMMA TaskStep ==
  ASSUME LoginStays, NEW t \in Tasks, NEW at \in Stages, NEW c \in Cookie,
         NEW h \in Entry, NEW s \in 0 .. login, Suspend(t, at, c, h, s),
         RestOK, CredentialsStay',
         ~overtaken' => ~overtaken,
         cookies' = cookies \/ (~overtaken' => cookies' >= login),
         ~overtaken' /\ t \in Requests /\ at \in {"get", "got", "save", "saved"}
           => cookies' >= s,
         ~overtaken' /\ t \in Requests /\ at = "wire" => c >= s
  PROVE  LoginStays'
<1>1. CredentialsOK /\ \A u \in Tasks : UpToLogin(u)
  BY Parts
<1>2. /\ MaxLogins \in Nat /\ login \in Nat /\ login <= MaxLogins /\ s \in Nat
      /\ s <= login /\ cookies \in Nat /\ cookies' \in Nat /\ login' = login
  BY <1>1, BoundsType DEF CredentialsOK, Cookie, RestOK
<1>3. s \in 0 .. MaxLogins
  BY <1>2
<1>4. /\ pc' \in [Tasks -> Stages] /\ sending' \in [Tasks -> Cookie]
      /\ held' \in [Tasks -> Entry] /\ since' \in [Tasks -> 0 .. MaxLogins]
      /\ pc'[t] = at /\ sending'[t] = c /\ since'[t] = s
      /\ \A u \in Tasks : u # t =>
           pc'[u] = pc[u] /\ sending'[u] = sending[u] /\ since'[u] = since[u]
  BY <1>1, <1>3, SuspendType
<1>5. CredentialsOK'
  BY <1>1, <1>4 DEF CredentialsOK, RestOK
<1>6. UpToLogin(t)'
  BY <1>2, <1>4 DEF UpToLogin
<1>7. ASSUME NEW u \in Tasks, u # t
      PROVE  UpToLogin(u)'
  <2>1. since[u] \in Nat /\ since[u] <= login
    BY <1>1 DEF CredentialsOK, UpToLogin
  <2>2. QED
    BY <1>1, <1>2, <1>4, <1>7, <2>1 DEF UpToLogin
<1>8. \A u \in Tasks : UpToLogin(u)'
  BY <1>6, <1>7
<1>9. QED
  BY <1>5, <1>8 DEF LoginStays, CredentialsStay, UpToLogin, RequestCarriesLogin, Tasks

(* ensure() past the restore, with the credentials it found or has restored. *)
LEMMA PassStep ==
  ASSUME LoginStays, NEW r \in Requests, NEW s \in 0 .. login,
         NEW st \in {"unauth", "cookie_only", "sessioned"},
         NEW c \in Cookie, NEW n \in JWT, Pass(r, st, c, n, s),
         UNCHANGED <<persistent, logins, lives, login, portalVars, store, lost>>,
         overtaken' \in BOOLEAN, ~overtaken' => ~overtaken,
         ~overtaken' /\ login # 0 => c = login /\ st # "unauth"
  PROVE  LoginStays'
<1>1. CredentialsOK /\ r \in Tasks
  BY DEF LoginStays, Tasks
<1>2. login \in Nat /\ s \in Nat /\ s <= login /\ c \in Nat /\ cookies \in Nat
  BY <1>1, BoundsType DEF CredentialsOK, Cookie
<1>3. CredentialsStay'
  BY DEF CredentialsStay, Pass
<1>4. ~overtaken' => c >= login \/ st = "unauth"
  BY <1>2
<1>5. CASE st = "unauth"
  <2>1. RestOK /\ Suspend(r, "wire", cookies, NoEntry, s) /\ cookies' = cookies
    BY <1>1, <1>5 DEF Pass, SendRequest, RestOK, CredentialsOK, portalVars
  <2>2. ~overtaken' => cookies >= s
    BY <1>2, <1>5
  <2>3. "wire" \in Stages /\ cookies \in Cookie
    BY <1>1 DEF Stages, CredentialsOK
  <2>4. QED
    BY <1>1, <1>3, <2>1, <2>2, <2>3, NoEntryType, TaskStep
<1>6. CASE st # "unauth" /\ MustObtain(st, n)
  <2>1. RestOK /\ Suspend(r, "get", c, NoEntry, s) /\ cookies' = c
    BY <1>1, <1>6 DEF Pass, Inject, RestOK, CredentialsOK, portalVars
  <2>2. ~overtaken' => c >= login /\ c >= s
    BY <1>2, <1>4, <1>6
  <2>3. "get" \in Stages
    BY DEF Stages
  <2>4. QED
    BY <1>1, <1>3, <2>1, <2>2, <2>3, NoEntryType, TaskStep
<1>7. CASE st # "unauth" /\ ~MustObtain(st, n)
  <2>1. RestOK /\ Suspend(r, "wire", c, NoEntry, s) /\ cookies' = c
    BY <1>1, <1>7 DEF Pass, Inject, SendRequest, RestOK, CredentialsOK, portalVars
  <2>2. ~overtaken' => c >= login /\ c >= s
    BY <1>2, <1>4, <1>7
  <2>3. "wire" \in Stages
    BY DEF Stages
  <2>4. QED
    BY <1>1, <1>3, <2>1, <2>2, <2>3, NoEntryType, TaskStep
<1>8. QED
  BY <1>5, <1>6, <1>7

-------------------------------------------------------------------------------
(* The steps of a request. *)

LEMMA RequestInvariant ==
  ASSUME LoginStays, NEW r \in Requests, RequestStep(r)
  PROVE  LoginStays'
<1> USE DEF portalVars, lifeVars, managerVars
<1>1. /\ CredentialsOK /\ CredentialsStay /\ r \in Tasks
      /\ since[r] \in 0 .. login /\ login \in Nat
      /\ UpToLogin(r)
  <2>1. CredentialsOK /\ CredentialsStay /\ r \in Tasks /\ UpToLogin(r)
    BY Parts DEF Tasks
  <2>2. QED
    BY <2>1, BoundsType DEF CredentialsOK, UpToLogin
<1>2. login \in 0 .. login /\ 0 \in 0 .. login
  BY <1>1
<1>3. /\ state \in {"unauth", "cookie_only", "sessioned"} /\ jar \in Cookie
      /\ token \in JWT /\ held[r] \in Entry /\ overtaken \in BOOLEAN
      /\ cookies \in Nat
  BY <1>1, BoundsType DEF CredentialsOK, Cookie
<1>4. "load" \in Stages /\ "loaded" \in Stages /\ "idle" \in Stages
  BY DEF Stages
<1>5. CASE Ensure(r)
  <2>1. CASE state = "unauth" /\ persistent
    <3>1. RestOK /\ Suspend(r, "load", 0, NoEntry, login) /\ CredentialsStay'
          /\ cookies' = cookies /\ overtaken' = overtaken
      BY <1>1, <1>5, <2>1 DEF Ensure, RestOK, CredentialsOK, CredentialsStay
    <3>2. QED
      BY <1>1, <1>2, <1>4, <3>1, NoEntryType, TaskStep
  <2>2. CASE ~(state = "unauth" /\ persistent)
    <3>1. Pass(r, state, jar, token, login)
      BY <1>5, <2>2 DEF Ensure
    <3>2. UNCHANGED <<persistent, logins, lives, login, portalVars, store, lost>>
      BY <1>5 DEF Ensure
    <3>3. overtaken' \in BOOLEAN
      BY <1>3, <1>5 DEF Ensure
    <3>4. ~overtaken' => ~overtaken
      BY <1>5 DEF Ensure
    <3>5. ~overtaken' /\ login # 0 => jar = login /\ state # "unauth"
      BY <1>1, <3>4 DEF CredentialsStay
    <3>6. QED
      BY <1>2, <1>3, <3>1, <3>2, <3>3, <3>4, <3>5, PassStep
  <2>3. QED BY <2>1, <2>2
<1>6. CASE LoadTakesEffect(r)
  <2>1. RestOK /\ Suspend(r, "loaded", 0, store, since[r]) /\ CredentialsStay'
        /\ cookies' = cookies /\ store \in Entry
    BY <1>1, <1>6 DEF LoadTakesEffect, RestOK, CredentialsOK, CredentialsStay
  <2>2. QED
    BY <1>1, <1>4, <1>6, <2>1, NoEntryType, TaskStep DEF LoadTakesEffect
<1>7. CASE LoadFails(r) \/ RequestEnds(r)
  <2>1. RestOK /\ Suspend(r, "idle", 0, NoEntry, 0) /\ CredentialsStay'
        /\ cookies' = cookies /\ overtaken' = overtaken
    BY <1>1, <1>7 DEF LoadFails, RequestEnds, Return, RestOK, CredentialsOK, CredentialsStay,
         storeVars
  <2>2. QED
    BY <1>1, <1>2, <1>4, <2>1, NoEntryType, TaskStep
<1>8. CASE Restore(r)
  <2>1. UNCHANGED <<persistent, logins, lives, login, portalVars, store, lost>>
    BY <1>8 DEF Restore, storeVars
  <2>2. CASE Usable(held[r])
    <3>1. Pass(r, "sessioned", held[r].cookie, held[r].token, since[r])
          /\ overtaken' = (overtaken \/ state # "unauth")
      BY <1>8, <2>2 DEF Restore
    <3>2. held[r].cookie \in Cookie /\ held[r].token \in JWT
      BY <1>3 DEF Entry
    <3>3. overtaken' \in BOOLEAN /\ (~overtaken' => ~overtaken /\ login = 0)
      BY <1>1, <3>1 DEF CredentialsStay
    <3>4. QED
      BY <1>1, <2>1, <3>1, <3>2, <3>3, PassStep
  <2>3. CASE ~Usable(held[r])
    <3>1. Pass(r, state, jar, token, since[r]) /\ overtaken' = overtaken
      BY <1>8, <2>3 DEF Restore
    <3>2. ~overtaken' /\ login # 0 => jar = login /\ state # "unauth"
      BY <1>1, <3>1 DEF CredentialsStay
    <3>3. QED
      BY <1>1, <1>3, <2>1, <3>1, <3>2, PassStep
  <2>4. QED BY <2>2, <2>3
<1>9. QED
  BY <1>5, <1>6, <1>7, <1>8 DEF RequestStep

-------------------------------------------------------------------------------
(* The steps of _obtain_jwt(), which requests and logins share. *)

LEMMA ObtainInvariant ==
  ASSUME LoginStays, NEW t \in Tasks, Step(t)
  PROVE  LoginStays'
<1> USE DEF portalVars, lifeVars, managerVars, storeVars
<1>1. /\ CredentialsOK /\ CredentialsStay /\ UpToLogin(t)
      /\ since[t] \in 0 .. login /\ 0 \in 0 .. login /\ cookies \in Nat
      /\ held[t] \in Entry /\ pc[t] \in Stages /\ cookies \in Cookie
  <2>1. CredentialsOK /\ CredentialsStay /\ UpToLogin(t)
    BY Parts
  <2>2. QED
    BY <2>1, BoundsType DEF CredentialsOK, UpToLogin, Cookie
<1>2. /\ "idle" \in Stages /\ "got" \in Stages /\ "save" \in Stages
      /\ "saved" \in Stages /\ "wire" \in Stages
  BY DEF Stages
<1>3. ASSUME pc[t] \in {"get", "got", "save", "saved"}, t \in Requests, ~overtaken
      PROVE  cookies >= since[t]
  BY <1>1, <1>3 DEF UpToLogin
(* Returning, or sending the request, is fine whatever else RestOK lets       *)
(* happen.                                                                   *)
<1>4. ASSUME RestOK, CredentialsStay', UNCHANGED <<overtaken, cookies>>, Return(t)
      PROVE  LoginStays'
  BY <1>1, <1>2, <1>4, NoEntryType, TaskStep DEF Return
<1>5. ASSUME RestOK, CredentialsStay', UNCHANGED <<overtaken, cookies>>,
             pc[t] \in {"get", "got", "save", "saved"},
             SendRequest(t, cookies, since[t])
      PROVE  LoginStays'
  BY <1>1, <1>2, <1>3, <1>5, NoEntryType, TaskStep DEF SendRequest
<1>6. CASE PortalAnswers(t)
  <2>1. PICK n \in {issued, issued + 1} \ (0 .. stale) :
          /\ n <= MaxTokens
          /\ issued' = n
          /\ Suspend(t, "got", 0, [token |-> n, cookie |-> 0], since[t])
    BY <1>6 DEF PortalAnswers
  <2>2. n \in JWT
    BY <1>1, <2>1, BoundsType DEF CredentialsOK, JWT
  <2>3. [token |-> n, cookie |-> 0] \in Entry
    BY <2>2, EntryType, NoEntryType
  <2>4. RestOK /\ CredentialsStay' /\ UNCHANGED <<overtaken, cookies>> /\ pc[t] = "get"
    BY <1>1, <1>6, <2>1, <2>2 DEF PortalAnswers, RestOK, CredentialsOK, CredentialsStay
  <2>5. QED
    BY <1>1, <1>2, <1>3, <2>1, <2>3, <2>4, NoEntryType, TaskStep
<1>7. CASE Obtained(t)
  <2>1. held[t].token \in JWT /\ Given(t) \in Entry
    BY <1>1 DEF Entry, Given, CredentialsOK
  <2>2. CredentialsStay' /\ UNCHANGED <<overtaken, cookies>> /\ pc[t] = "got"
    BY <1>1, <1>7 DEF Obtained, CredentialsStay
  <2>3. CASE persistent
    <3>1. RestOK /\ Suspend(t, "save", 0, Given(t), since[t])
      BY <1>1, <1>7, <2>1, <2>3 DEF Obtained, RestOK, CredentialsOK
    <3>2. QED
      BY <1>1, <1>2, <1>3, <2>1, <2>2, <3>1, NoEntryType, TaskStep
  <2>4. CASE ~persistent
    <3>1. RestOK /\ AfterObtained(t)
      BY <1>1, <1>7, <2>1, <2>4
         DEF Obtained, AfterObtained, Return, SendRequest, RestOK, CredentialsOK
    <3>2. QED
      BY <1>4, <1>5, <2>2, <3>1 DEF AfterObtained
  <2>5. QED BY <2>3, <2>4
<1>8. CASE ObtainFails(t)
  <2>1. /\ CredentialsStay' /\ UNCHANGED <<overtaken, cookies>>
        /\ pc[t] \in {"get", "got", "save", "saved"}
    BY <1>1, <1>8 DEF ObtainFails, CredentialsStay
  <2>2. RestOK /\ AfterFailure(t)
    BY <1>1, <1>8
       DEF ObtainFails, AfterFailure, Return, SendRequest, RestOK, CredentialsOK
  <2>3. QED
    BY <1>4, <1>5, <2>1, <2>2 DEF AfterFailure
<1>9. CASE SaveTakesEffect(t)
  <2>1. /\ CredentialsStay' /\ UNCHANGED <<overtaken, cookies>> /\ pc[t] = "save"
        /\ RestOK /\ Suspend(t, "saved", 0, NoEntry, since[t])
    BY <1>1, <1>9 DEF SaveTakesEffect, CredentialsStay, RestOK, CredentialsOK
  <2>2. QED
    BY <1>1, <1>2, <1>3, <2>1, NoEntryType, TaskStep
<1>10. CASE SaveReturns(t)
  <2>1. /\ CredentialsStay' /\ UNCHANGED <<overtaken, cookies>>
        /\ pc[t] \in {"get", "got", "save", "saved"}
    BY <1>1, <1>10 DEF SaveReturns, CredentialsStay
  <2>2. RestOK /\ AfterObtained(t)
    BY <1>1, <1>10
       DEF SaveReturns, AfterObtained, Return, SendRequest, RestOK, CredentialsOK
  <2>3. QED
    BY <1>4, <1>5, <2>1, <2>2 DEF AfterObtained
<1>11. CASE Cancel(t)
  <2>1. CredentialsStay' /\ UNCHANGED <<overtaken, cookies>>
    BY <1>1, <1>11 DEF Cancel, CredentialsStay
  <2>2. RestOK /\ Return(t)
    BY <1>1, <1>11 DEF Cancel, Return, RestOK, CredentialsOK
  <2>3. QED
    BY <1>4, <2>1, <2>2
<1>12. QED
  BY <1>6, <1>7, <1>8, <1>9, <1>10, <1>11 DEF Step

-------------------------------------------------------------------------------
(* Logins, the clock, the application, the process. *)

LEMMA LoginInvariant ==
  ASSUME LoginStays, NEW l \in Logins, Login(l)
  PROVE  LoginStays'
<1> USE DEF Login, storeVars
<1>1. CredentialsOK /\ l \in Tasks /\ \A u \in Tasks : UpToLogin(u)
  BY Parts DEF Tasks
<1>2. /\ MaxLogins \in Nat /\ logins \in Nat /\ login \in Nat /\ login <= logins
      /\ logins < MaxLogins /\ cookies \in Nat
  BY <1>1, BoundsType DEF CredentialsOK, Cookie
<1>3. /\ logins + 1 \in Cookie /\ logins + 1 \in 0 .. MaxLogins /\ 0 \in 0 .. MaxLogins
      /\ logins + 1 \in 0 .. logins + 1 /\ "get" \in Stages
  BY <1>2 DEF Cookie, Stages
<1>4. /\ pc' \in [Tasks -> Stages] /\ sending' \in [Tasks -> Cookie]
      /\ held' \in [Tasks -> Entry] /\ since' \in [Tasks -> 0 .. MaxLogins]
      /\ pc'[l] = "get" /\ since'[l] = 0
      /\ \A u \in Tasks : u # l =>
           pc'[u] = pc[u] /\ sending'[u] = sending[u] /\ since'[u] = since[u]
  BY <1>1, <1>3, NoEntryType, SuspendType
<1>5. CredentialsOK'
  BY <1>1, <1>3, <1>4 DEF CredentialsOK
<1>6. CredentialsStay'
  BY DEF CredentialsStay
<1>7. UpToLogin(l)'
  BY <1>2, <1>4 DEF UpToLogin
<1>8. ASSUME NEW u \in Tasks, u # l PROVE UpToLogin(u)'
  <2>1. since[u] \in Nat /\ since[u] <= login
    BY <1>1, <1>2 DEF CredentialsOK, UpToLogin
  <2>2. QED
    BY <1>1, <1>2, <1>4, <1>8, <2>1 DEF UpToLogin
<1>9. \A u \in Tasks : UpToLogin(u)'
  BY <1>7, <1>8
<1>10. QED
  BY <1>5, <1>6, <1>9 DEF LoginStays, CredentialsStay, UpToLogin, RequestCarriesLogin, Tasks

LEMMA RestartInvariant ==
  ASSUME LoginStays, Restart
  PROVE  LoginStays'
<1> USE DEF Restart, portalVars
<1>1. CredentialsOK
  BY DEF LoginStays
<1>2. lives + 1 \in 0 .. MaxRestarts /\ 0 \in 0 .. logins /\ 0 \in 0 .. MaxLogins
  BY <1>1, BoundsType DEF CredentialsOK
<1>3. store' \in Entry
  <2>1. CASE store' = store
    BY <1>1, <2>1 DEF CredentialsOK
  <2>2. CASE \E t \in Tasks : store' \in {held[t], NoEntry}
    BY <1>1, <2>2, NoEntryType DEF CredentialsOK
  <2>3. QED BY <2>1, <2>2
<1>4. CredentialsOK'
  BY <1>1, <1>2, <1>3, NoEntryType DEF CredentialsOK, Stages
<1>5. QED
  BY <1>4 DEF LoginStays, RequestCarriesLogin, Tasks

LEMMA OtherInvariant ==
  ASSUME LoginStays, TokenGoesStale \/ TokenExpires \/ Forget \/ UNCHANGED vars
  PROVE  LoginStays'
<1> USE DEF managerVars, storeVars, portalVars, taskVars, lifeVars
<1>1. CredentialsOK
  BY DEF LoginStays
<1>2. issued' \in JWT /\ stale' \in JWT /\ expired' \in JWT
  BY <1>1, BoundsType DEF CredentialsOK, JWT, TokenGoesStale, TokenExpires, Forget, vars
<1>3. store' \in Entry /\ lost' \in BOOLEAN
  BY <1>1, NoEntryType DEF CredentialsOK, TokenGoesStale, TokenExpires, Forget, vars
<1>4. UNCHANGED <<persistent, state, jar, token, cookies, taskVars, lifeVars>>
  BY DEF TokenGoesStale, TokenExpires, Forget, vars
<1>5. QED
  BY <1>1, <1>2, <1>3, <1>4 DEF CredentialsOK, LoginStays, RequestCarriesLogin

(* A login leaves UNAUTH for good, its cookie stays in the jar, and every    *)
(* task is left with a cookie no older than the login it began after.        *)
THEOREM LoginStaysHolds == Spec => []LoginStays
<1>1. Init => LoginStays
  <2> SUFFICES ASSUME Init PROVE LoginStays
    OBVIOUS
  <2>1. /\ 0 \in 0 .. MaxLogins /\ 0 \in 0 .. 0 /\ 0 \in 0 .. MaxRestarts
    BY BoundsType
  <2>2. CredentialsOK
    BY <2>1, NoEntryType DEF Init, CredentialsOK, Stages
  <2>3. QED
    BY <2>2 DEF Init, LoginStays, RequestCarriesLogin, Tasks
<1>2. LoginStays /\ [Next]_vars => LoginStays'
  <2> SUFFICES ASSUME LoginStays, [Next]_vars PROVE LoginStays'
    OBVIOUS
  <2>1. CASE \E r \in Requests : RequestStep(r)
    BY <2>1, RequestInvariant
  <2>2. CASE \E l \in Logins : Login(l)
    BY <2>2, LoginInvariant
  <2>3. CASE \E t \in Tasks : Step(t)
    BY <2>3, ObtainInvariant
  <2>4. CASE TokenGoesStale \/ TokenExpires \/ Forget \/ UNCHANGED vars
    BY <2>4, OtherInvariant
  <2>5. CASE Restart
    BY <2>5, RestartInvariant
  <2>6. QED
    BY <2>1, <2>2, <2>3, <2>4, <2>5 DEF Next
<1>3. QED
  BY <1>1, <1>2, PTL DEF Spec

(* A request that began after a login carries its cookie, or a later one,    *)
(* for any number of concurrent requests and logins.                         *)
THEOREM LoginIsCarried == Spec => []RequestCarriesLogin
<1>1. LoginStays => RequestCarriesLogin
  BY DEF LoginStays, RequestCarriesLogin
<1>2. QED
  BY <1>1, LoginStaysHolds, PTL

-------------------------------------------------------------------------------
(* The queue of the store. *)

Fits(q) == q \in Seq(Tasks) /\ IsInjective(q)

LEMMA Positions ==
  ASSUME NEW q \in Seq(Tasks)
  PROVE  /\ Len(q) \in Nat /\ DOMAIN q = 1 .. Len(q)
         /\ \A n \in 1 .. Len(q) : q[n] \in Tasks
         /\ ToSet(q) = {q[n] : n \in 1 .. Len(q)}
BY LenProperties, ElementOfSeq DEF ToSet

(* A task that does not wait yet joins the queue behind all others.          *)
LEMMA Joined ==
  ASSUME NEW q, Fits(q), NEW t \in Tasks, t \notin ToSet(q)
  PROVE  /\ Fits(Append(q, t))
         /\ ToSet(Append(q, t)) = ToSet(q) \cup {t}
         /\ \A a, b \in Tasks : Before(Append(q, t), a, b) => (b = t /\ a # t) \/ Before(q, a, b)
<1> DEFINE p == Append(q, t)
<1>1. /\ q \in Seq(Tasks) /\ p \in Seq(Tasks) /\ Len(q) \in Nat /\ Len(p) = Len(q) + 1
      /\ \A n \in 1 .. Len(q) : p[n] = q[n]
      /\ p[Len(q) + 1] = t
  BY AppendProperties, LenProperties DEF Fits
<1> HIDE DEF p
<1>2. /\ DOMAIN p = 1 .. Len(q) + 1 /\ DOMAIN q = 1 .. Len(q)
      /\ ToSet(p) = {p[n] : n \in 1 .. Len(q) + 1}
      /\ ToSet(q) = {q[n] : n \in 1 .. Len(q)}
  BY <1>1, Positions
<1>3. \A n \in 1 .. Len(q) + 1 : n \in 1 .. Len(q) \/ n = Len(q) + 1
  BY <1>1
<1>4. \A n \in 1 .. Len(q) : q[n] # t /\ n \in 1 .. Len(q) + 1
  BY <1>1, <1>2
<1>5. Len(q) + 1 \in 1 .. Len(q) + 1
  BY <1>1
<1>6. IsInjective(p)
  BY <1>1, <1>2, <1>3, <1>4 DEF IsInjective, Fits
<1>7. ToSet(p) = ToSet(q) \cup {t}
  BY <1>1, <1>2, <1>3, <1>4, <1>5
<1>8. ASSUME NEW a \in Tasks, NEW b \in Tasks, Before(p, a, b)
      PROVE  (b = t /\ a # t) \/ Before(q, a, b)
  <2>1. PICK m \in 1 .. Len(q) + 1, n \in 1 .. Len(q) + 1 : m < n /\ p[m] = a /\ p[n] = b
    BY <1>1, <1>8 DEF Before
  <2>2. m \in 1 .. Len(q)
    BY <1>1, <2>1
  <2>3. QED
    BY <1>1, <1>3, <1>4, <2>1, <2>2 DEF Before
<1>9. QED
  BY <1>1, <1>6, <1>7, <1>8 DEF Fits, p

(* A task leaves the queue and the order of the others stays.                *)
LEMMA Left ==
  ASSUME NEW q, Fits(q), NEW t \in Tasks
  PROVE  /\ Fits(Leave(q, t))
         /\ ToSet(Leave(q, t)) = ToSet(q) \ {t}
         /\ \A a, b \in Tasks : Before(Leave(q, t), a, b) => Before(q, a, b)
<1> DEFINE p == Leave(q, t)
<1>1. CASE t \notin ToSet(q)
  BY <1>1 DEF Leave
<1>2. CASE t \in ToSet(q)
  <2> DEFINE k == CHOOSE n \in 1 .. Len(q) : q[n] = t
  <2>1. q \in Seq(Tasks) /\ k \in 1 .. Len(q) /\ q[k] = t /\ Len(q) \in Nat
    BY <1>2, Positions DEF Fits
  <2>2. p = SubSeq(q, 1, k - 1) \o SubSeq(q, k + 1, Len(q))
    BY <1>2 DEF Leave, RemoveAt
  <2> HIDE DEF k, p
  <2>3. /\ SubSeq(q, 1, k - 1) \in Seq(Tasks) /\ Len(SubSeq(q, 1, k - 1)) = k - 1
        /\ \A n \in 1 .. k - 1 : SubSeq(q, 1, k - 1)[n] = q[n]
    <3>1. \A n \in 1 .. k - 1 : n \in 1 .. Len(q) /\ q[n] \in Tasks
      BY <2>1, Positions
    <3>2. k - 1 \in Int /\ 1 - 1 <= k - 1
      BY <2>1
    <3>3. QED
      BY <2>1, <3>1, <3>2, SubSeqProperties
  <2>4. /\ SubSeq(q, k + 1, Len(q)) \in Seq(Tasks)
        /\ Len(SubSeq(q, k + 1, Len(q))) = Len(q) - k
        /\ \A n \in 1 .. Len(q) - k : SubSeq(q, k + 1, Len(q))[n] = q[k + n]
    <3>1. \A n \in k + 1 .. Len(q) : n \in 1 .. Len(q) /\ q[n] \in Tasks
      BY <2>1, Positions
    <3>2. QED
      BY <2>1, <3>1, SubSeqProperties
  <2>5. /\ p \in Seq(Tasks) /\ Len(p) = Len(q) - 1
        /\ \A n \in 1 .. Len(q) - 1 : p[n] = IF n < k THEN q[n] ELSE q[n + 1]
    <3> DEFINE u == SubSeq(q, 1, k - 1)
               v == SubSeq(q, k + 1, Len(q))
    <3>1. /\ p = u \o v /\ u \in Seq(Tasks) /\ v \in Seq(Tasks)
          /\ Len(u) = k - 1 /\ Len(v) = Len(q) - k
          /\ \A n \in 1 .. k - 1 : u[n] = q[n]
          /\ \A n \in 1 .. Len(q) - k : v[n] = q[k + n]
      BY <2>2, <2>3, <2>4
    <3> HIDE DEF u, v
    <3>2. /\ p \in Seq(Tasks) /\ Len(p) = Len(u) + Len(v)
          /\ \A n \in 1 .. Len(u) + Len(v) :
               p[n] = IF n <= Len(u) THEN u[n] ELSE v[n - Len(u)]
      BY <3>1, ConcatProperties
    <3>3. Len(p) = Len(q) - 1
      BY <2>1, <3>1, <3>2
    <3>4. ASSUME NEW n \in 1 .. Len(q) - 1
          PROVE  p[n] = IF n < k THEN q[n] ELSE q[n + 1]
      <4>1. CASE n < k
        <5>1. n \in 1 .. k - 1 /\ n \in 1 .. Len(u) + Len(v) /\ n <= Len(u)
          BY <2>1, <3>1, <4>1
        <5>2. p[n] = u[n] /\ u[n] = q[n]
          BY <3>1, <3>2, <5>1
        <5>3. QED BY <4>1, <5>2
      <4>2. CASE n >= k
        <5>1. /\ n - (k - 1) \in 1 .. Len(q) - k /\ k + (n - (k - 1)) = n + 1
              /\ n \in 1 .. Len(u) + Len(v) /\ ~(n <= Len(u)) /\ n - Len(u) = n - (k - 1)
          BY <2>1, <3>1, <4>2
        <5>2. QED
          BY <2>1, <3>1, <3>2, <4>2, <5>1
      <4>3. QED BY <2>1, <4>1, <4>2
    <3>5. QED
      BY <3>2, <3>3, <3>4
  <2> DEFINE at(n) == IF n < k THEN n ELSE n + 1
  <2>6. /\ \A n \in 1 .. Len(p) : at(n) \in 1 .. Len(q) /\ at(n) # k /\ p[n] = q[at(n)]
        /\ \A m, n \in 1 .. Len(p) : (m < n => at(m) < at(n)) /\ (at(m) = at(n) => m = n)
        /\ \A n \in 1 .. Len(q) : n # k => \E m \in 1 .. Len(p) : at(m) = n
    <3>1. ASSUME NEW n \in 1 .. Len(q), n # k
          PROVE  \E m \in 1 .. Len(p) : at(m) = n
      <4>1. CASE n < k
        <5>1. n \in 1 .. Len(p) /\ at(n) = n
          BY <2>1, <2>5, <4>1
        <5>2. QED BY <5>1
      <4>2. CASE n > k
        <5>1. n - 1 \in 1 .. Len(p) /\ at(n - 1) = n
          BY <2>1, <2>5, <4>2
        <5>2. QED BY <5>1
      <4>3. QED BY <2>1, <3>1, <4>1, <4>2
    <3>2. QED
      BY <2>1, <2>5, <3>1
  <2> HIDE DEF at
  <2>7. \A m, n \in 1 .. Len(q) : q[m] = q[n] => m = n
    BY <2>1, Positions DEF Fits, IsInjective
  <2>8. IsInjective(p)
    <3>1. DOMAIN p = 1 .. Len(p)
      BY <2>5, Positions
    <3>2. QED
      BY <2>6, <2>7, <3>1 DEF IsInjective
  <2>9. ToSet(p) = ToSet(q) \ {t}
    <3>1. ToSet(p) = {p[n] : n \in 1 .. Len(p)} /\ ToSet(q) = {q[n] : n \in 1 .. Len(q)}
      BY <2>1, <2>5, Positions
    <3>2. q[k] = t /\ k \in 1 .. Len(q)
      BY <2>1
    <3>3. ASSUME NEW n \in 1 .. Len(p)
          PROVE  p[n] \in ToSet(q) \ {t}
      <4>1. at(n) \in 1 .. Len(q) /\ at(n) # k /\ p[n] = q[at(n)]
        BY <2>6
      <4>2. q[at(n)] # t
        BY <2>7, <3>2, <4>1
      <4>3. QED BY <3>1, <4>1, <4>2
    <3>4. ASSUME NEW n \in 1 .. Len(q), q[n] # t
          PROVE  q[n] \in ToSet(p)
      <4>1. PICK m \in 1 .. Len(p) : at(m) = n
        BY <2>6, <3>2, <3>4
      <4>2. p[m] = q[n]
        BY <2>6, <4>1
      <4>3. QED BY <3>1, <4>2
    <3>5. QED
      BY <3>1, <3>3, <3>4
  <2>10. \A a, b \in Tasks : Before(p, a, b) => Before(q, a, b)
    BY <2>6 DEF Before
  <2>11. QED
    BY <2>5, <2>8, <2>9, <2>10 DEF Fits, p
<1>3. QED
  BY <1>1, <1>2

(* The head of the queue leaves; all others were behind it.                  *)
LEMMA Advanced ==
  ASSUME NEW q, Fits(q), q # << >>
  PROVE  /\ Fits(Tail(q))
         /\ ToSet(Tail(q)) = ToSet(q) \ {Head(q)}
         /\ \A a, b \in Tasks : Before(Tail(q), a, b) => Before(q, a, b)
         /\ \A b \in ToSet(q) \ {Head(q)} : Before(q, Head(q), b)
<1> DEFINE p == Tail(q)
<1>1. /\ q \in Seq(Tasks) /\ p \in Seq(Tasks) /\ Len(q) \in Nat /\ Len(q) >= 1
      /\ Len(p) = Len(q) - 1 /\ Head(q) = q[1]
      /\ \A n \in 1 .. Len(p) : p[n] = q[n + 1]
  BY HeadTailProperties, LenProperties, EmptySeq DEF Fits
<1> HIDE DEF p
<1>2. /\ ToSet(p) = {p[n] : n \in 1 .. Len(p)} /\ ToSet(q) = {q[n] : n \in 1 .. Len(q)}
      /\ DOMAIN p = 1 .. Len(p) /\ DOMAIN q = 1 .. Len(q)
  BY <1>1, Positions
<1>3. \A m, n \in 1 .. Len(q) : q[m] = q[n] => m = n
  BY <1>2 DEF Fits, IsInjective
<1>4. /\ \A n \in 1 .. Len(p) : n + 1 \in 1 .. Len(q) /\ n + 1 # 1 /\ p[n] = q[n + 1]
      /\ \A n \in 1 .. Len(q) : n # 1 => n - 1 \in 1 .. Len(p) /\ p[n - 1] = q[n] /\ 1 < n
      /\ 1 \in 1 .. Len(q)
  <2>1. \A n \in 1 .. Len(q) : n # 1 => n - 1 \in 1 .. Len(p) /\ (n - 1) + 1 = n /\ 1 < n
    BY <1>1
  <2>2. QED
    BY <1>1, <2>1
<1>5. IsInjective(p)
  <2>1. \A m, n \in 1 .. Len(p) : m + 1 = n + 1 => m = n
    BY <1>1
  <2>2. QED
    BY <1>2, <1>3, <1>4, <2>1 DEF IsInjective
<1>6. ToSet(p) = ToSet(q) \ {Head(q)}
  BY <1>1, <1>2, <1>3, <1>4
<1>7. ASSUME NEW a \in Tasks, NEW b \in Tasks, Before(p, a, b)
      PROVE  Before(q, a, b)
  <2>1. PICK m \in 1 .. Len(p), n \in 1 .. Len(p) : m < n /\ p[m] = a /\ p[n] = b
    BY <1>7 DEF Before
  <2>2. m + 1 < n + 1
    BY <1>1, <2>1
  <2>3. QED
    BY <1>4, <2>1, <2>2 DEF Before
<1>8. \A b \in ToSet(q) \ {Head(q)} : Before(q, Head(q), b)
  BY <1>1, <1>2, <1>4 DEF Before
<1>9. QED
  BY <1>1, <1>5, <1>6, <1>7, <1>8 DEF Fits, p

-------------------------------------------------------------------------------
(* What the store will hold. *)

Waits(t) == pc[t] \in {"load", "save"}

\* Before the first login or restore of a life.
Early ==
  state = "unauth" =>
    /\ \A t \in Tasks : pc[t] \notin {"get", "got", "save", "saved"}
    /\ ~lost => \A t \in Tasks : pc[t] = "loaded" => held[t] = store

LEMMA Frame ==
  ASSUME CredentialsOK, NEW t \in Tasks, NEW at, NEW c, NEW h, NEW s,
         Suspend(t, at, c, h, s)
  PROVE  /\ pc'[t] = at /\ held'[t] = h
         /\ \A u \in Tasks : u # t => pc'[u] = pc[u] /\ held'[u] = held[u]
BY DEF CredentialsOK, Suspend

(* The ways the queue changes with the stage of a task.                      *)
LEMMA QueueStep ==
  ASSUME CredentialsOK, QueueOK, NEW t \in Tasks, NEW at, NEW c, NEW h, NEW s,
         Suspend(t, at, c, h, s),
         \/ at \notin {"load", "save"} /\ ~Waits(t) /\ waiting' = waiting
         \/ at \notin {"load", "save"} /\ waiting' = Leave(waiting, t)
         \/ at \notin {"load", "save"} /\ NextInStore(t) /\ waiting' = Tail(waiting)
         \/ at \in {"load", "save"} /\ ~Waits(t) /\ waiting' = Append(waiting, t)
  PROVE  /\ QueueOK'
         /\ \A a, b \in Tasks : Before(waiting', a, b) => (b = t /\ a # t) \/ Before(waiting, a, b)
         /\ at \notin {"load", "save"} =>
              \A a, b \in Tasks : Before(waiting', a, b) => Before(waiting, a, b)
<1> USE DEF Waits
<1>1. Fits(waiting) /\ ToSet(waiting) = {u \in Tasks : Waits(u)}
  BY DEF QueueOK, Fits
<1>2. pc'[t] = at /\ \A u \in Tasks : u # t => pc'[u] = pc[u]
  BY Frame
<1>3. CASE at \notin {"load", "save"} /\ ~Waits(t) /\ waiting' = waiting
  BY <1>1, <1>2, <1>3 DEF QueueOK, Fits
<1>4. CASE at \notin {"load", "save"} /\ waiting' = Leave(waiting, t)
  <2>1. /\ Fits(waiting') /\ ToSet(waiting') = ToSet(waiting) \ {t}
        /\ \A a, b \in Tasks : Before(waiting', a, b) => Before(waiting, a, b)
    BY <1>1, <1>4, Left
  <2>2. QED
    BY <1>1, <1>2, <1>4, <2>1 DEF QueueOK, Fits
<1>5. CASE at \notin {"load", "save"} /\ NextInStore(t) /\ waiting' = Tail(waiting)
  BY <1>1, <1>2, <1>5, Advanced DEF QueueOK, Fits, NextInStore
<1>6. CASE at \in {"load", "save"} /\ ~Waits(t) /\ waiting' = Append(waiting, t)
  BY <1>1, <1>2, <1>6, Joined DEF QueueOK, Fits
<1>7. QED
  BY <1>3, <1>4, <1>5, <1>6

(* A step of a task that neither is in a save nor begins one, and leaves the *)
(* store alone, changes nothing about what the store will hold.              *)
LEMMA StillHolds ==
  ASSUME CredentialsOK, NEW t \in Tasks, NEW at, NEW c, NEW h, NEW s, NEW e,
         Suspend(t, at, c, h, s), pc[t] # "save", at # "save", store' = store,
         \A a, b \in Tasks : Before(waiting', a, b) => (b = t /\ a # t) \/ Before(waiting, a, b),
         WillHold(e)
  PROVE  /\ store' = e /\ (\A u \in Tasks : pc'[u] # "save")
         \/ \E u \in Tasks : Newest(u)' /\ held'[u] = e
<1>1. /\ pc'[t] = at
      /\ \A u \in Tasks : u # t => pc'[u] = pc[u] /\ held'[u] = held[u]
  BY Frame
<1>2. CASE store = e /\ \A u \in Tasks : pc[u] # "save"
  BY <1>1, <1>2
<1>3. ASSUME NEW u \in Tasks, Newest(u), held[u] = e
      PROVE  Newest(u)' /\ held'[u] = e
  BY <1>1, <1>3 DEF Newest
<1>4. QED
  BY <1>2, <1>3 DEF WillHold

(* ... so that the session is found as before, if the manager's credentials  *)
(* and the excuses are as before.                                            *)
LEMMA QuietStep ==
  ASSUME SessionStored, CredentialsOK', NEW t \in Tasks, NEW at, NEW c, NEW h, NEW s,
         Suspend(t, at, c, h, s), pc[t] # "save", at # "save",
         \/ at \notin {"load", "save"} /\ ~Waits(t) /\ waiting' = waiting
         \/ at \notin {"load", "save"} /\ waiting' = Leave(waiting, t)
         \/ at \notin {"load", "save"} /\ NextInStore(t) /\ waiting' = Tail(waiting)
         \/ at \in {"load", "save"} /\ ~Waits(t) /\ waiting' = Append(waiting, t),
         UNCHANGED <<persistent, managerVars, store, lost, overtaken>>,
         state = "unauth" => at \notin {"get", "got", "save", "saved"},
         at = "loaded" => h = store
  PROVE  SessionStored'
<1> USE DEF managerVars
<1>1. CredentialsOK /\ QueueOK /\ Early /\ RestartFindsSession
  BY DEF SessionStored, Early
<1>2. /\ QueueOK'
      /\ \A a, b \in Tasks : Before(waiting', a, b) => (b = t /\ a # t) \/ Before(waiting, a, b)
  BY <1>1, QueueStep
<1>3. /\ pc'[t] = at /\ held'[t] = h
      /\ \A u \in Tasks : u # t => pc'[u] = pc[u] /\ held'[u] = held[u]
  BY <1>1, Frame
<1>4. Early'
  BY <1>1, <1>3 DEF Early
<1>5. RestartFindsSession'
  <2>1. SUFFICES ASSUME persistent', state' = "sessioned", ~lost', ~overtaken'
                 PROVE  WillHold([token |-> token, cookie |-> jar])'
    BY DEF RestartFindsSession
  <2>2. WillHold([token |-> token, cookie |-> jar])
    BY <1>1, <2>1 DEF RestartFindsSession
  <2>3. [token |-> token', cookie |-> jar'] = [token |-> token, cookie |-> jar]
    OBVIOUS
  <2>4. \/ store' = [token |-> token, cookie |-> jar] /\ \A u \in Tasks : pc'[u] # "save"
        \/ \E u \in Tasks : Newest(u)' /\ held'[u] = [token |-> token, cookie |-> jar]
    <3> DEFINE e == [token |-> token, cookie |-> jar]
    <3>1. WillHold(e) /\ store' = store
      BY <2>2
    <3> HIDE DEF e
    <3>2. \/ store' = e /\ \A u \in Tasks : pc'[u] # "save"
          \/ \E u \in Tasks : Newest(u)' /\ held'[u] = e
      BY <1>1, <1>2, <3>1, StillHolds
    <3>3. QED
      BY <3>2 DEF e
  <2>5. QED
    BY <2>3, <2>4 DEF WillHold
<1>6. QED
  BY <1>2, <1>4, <1>5 DEF SessionStored, Early

(* A step after which there is no session, or an excuse, need only keep the  *)
(* rest of the invariant.                                                    *)
LEMMA ExcusedStep ==
  ASSUME SessionStored, CredentialsOK', QueueOK', Early',
         ~(persistent' /\ state' = "sessioned" /\ ~lost' /\ ~overtaken')
  PROVE  SessionStored'
BY DEF SessionStored, Early, RestartFindsSession

LEMMA PassStages ==
  ASSUME NEW r, NEW st, NEW c, NEW n, NEW s, Pass(r, st, c, n, s)
  PROVE  /\ state' = st /\ jar' = c /\ token' = n
         /\ \E at \in {"get", "wire"} : \E k :
              Suspend(r, at, k, NoEntry, s) /\ (st = "unauth" => at = "wire")
BY DEF Pass, SendRequest

LEMMA RequestKeepsSession ==
  ASSUME SessionStored, CredentialsOK', NEW r \in Requests, RequestStep(r)
  PROVE  SessionStored'
<1> USE DEF managerVars, storeVars, lifeVars, Waits
<1>1. /\ CredentialsOK /\ QueueOK /\ Early /\ RestartFindsSession /\ r \in Tasks
      /\ held[r] \in Entry
  BY DEF SessionStored, Early, Tasks, CredentialsOK
<1>2. ASSUME Pass(r, state, jar, token, since[r]) \/ Pass(r, state, jar, token, login),
             UNCHANGED <<persistent, store, waiting, lost, overtaken>>,
             pc[r] \in {"idle", "loaded"}
      PROVE  SessionStored'
  <2>1. UNCHANGED <<state, jar, token>>
    BY <1>2, PassStages
  <2>2. \E s, k : \E at \in {"get", "wire"} :
          Suspend(r, at, k, NoEntry, s) /\ (state = "unauth" => at = "wire")
    BY <1>2, PassStages
  <2>3. PICK at, k, s : /\ at \in {"get", "wire"} /\ Suspend(r, at, k, NoEntry, s)
                        /\ state = "unauth" => at = "wire"
    BY <2>2
  <2>4. at \notin {"load", "save"} /\ at # "loaded" /\ at # "save"
    BY <2>3
  <2>5. pc[r] # "save" /\ ~Waits(r)
    BY <1>2
  <2>6. state = "unauth" => at \notin {"get", "got", "save", "saved"}
    BY <2>3
  <2>7. QED
    BY <1>1, <1>2, <2>1, <2>3, <2>4, <2>5, <2>6, QuietStep
<1>3. CASE Ensure(r)
  <2>1. CASE state = "unauth" /\ persistent
    BY <1>1, <1>3, <2>1, QuietStep DEF Ensure
  <2>2. CASE ~(state = "unauth" /\ persistent)
    BY <1>2, <1>3, <2>2 DEF Ensure
  <2>3. QED BY <2>1, <2>2
<1>4. CASE RequestEnds(r)
  BY <1>1, <1>4, QuietStep DEF RequestEnds, Return
<1>5. CASE LoadTakesEffect(r)
  BY <1>1, <1>5, QuietStep DEF LoadTakesEffect
<1>6. CASE LoadFails(r)
  BY <1>1, <1>6, QuietStep DEF LoadFails, Return
<1>7. CASE Restore(r)
  <2>1. CASE ~Usable(held[r])
    BY <1>2, <1>7, <2>1 DEF Restore
  <2>2. CASE Usable(held[r])
    <3>1. /\ Pass(r, "sessioned", held[r].cookie, held[r].token, since[r])
          /\ overtaken' = (overtaken \/ state # "unauth")
          /\ pc[r] = "loaded" /\ UNCHANGED <<persistent, store, waiting, lost>>
      BY <1>7, <2>2 DEF Restore
    <3>2. /\ state' = "sessioned" /\ jar' = held[r].cookie /\ token' = held[r].token
      BY <3>1, PassStages
    <3>3. PICK at, k : at \in {"get", "wire"} /\ Suspend(r, at, k, NoEntry, since[r])
      BY <3>1, PassStages
    <3>4. QueueOK'
      BY <1>1, <3>1, <3>3, QueueStep
    <3>5. ASSUME ~lost', ~overtaken'
          PROVE  WillHold([token |-> token, cookie |-> jar])'
      <4>1. /\ held[r] = store
            /\ \A u \in Tasks : pc[u] # "save"
        BY <1>1, <3>1, <3>5 DEF Early
      <4>2. \A u \in Tasks : pc'[u] # "save"
        BY <1>1, <3>3, <4>1, Frame
      <4>3. store' = [token |-> token', cookie |-> jar']
        BY <1>1, <3>1, <3>2, <4>1 DEF Entry
      <4>4. QED
        BY <4>2, <4>3 DEF WillHold
    <3>6. QED
      BY <3>2, <3>4, <3>5 DEF SessionStored, RestartFindsSession
  <2>3. QED BY <2>1, <2>2
<1>8. QED
  BY <1>3, <1>4, <1>5, <1>6, <1>7 DEF RequestStep

LEMMA ObtainKeepsSession ==
  ASSUME SessionStored, CredentialsOK', NEW t \in Tasks, Step(t)
  PROVE  SessionStored'
<1> USE DEF managerVars, storeVars, lifeVars, Waits
<1>1. CredentialsOK /\ QueueOK /\ Early /\ RestartFindsSession /\ held[t] \in Entry
  BY DEF SessionStored, Early, CredentialsOK
<1>2. ASSUME NEW at \in {"idle", "wire"}, NEW c, NEW s, Suspend(t, at, c, NoEntry, s),
             pc[t] # "save",
             waiting' = Leave(waiting, t) \/ (~Waits(t) /\ waiting' = waiting),
             UNCHANGED <<persistent, managerVars, store, lost, overtaken>>
      PROVE  SessionStored'
  BY <1>1, <1>2, QuietStep
<1>3. ASSUME AfterObtained(t) \/ AfterFailure(t) \/ Return(t)
      PROVE  \E at \in {"idle", "wire"} : \E c, s : Suspend(t, at, c, NoEntry, s)
  BY <1>3 DEF AfterObtained, AfterFailure, Return, SendRequest
<1>4. CASE PortalAnswers(t)
  <2>1. PICK h : Suspend(t, "got", 0, h, since[t])
    BY <1>4 DEF PortalAnswers
  <2>2. state # "unauth" /\ pc[t] = "get"
    BY <1>1, <1>4 DEF PortalAnswers, Early
  <2>3. UNCHANGED <<persistent, managerVars, storeVars, overtaken>>
    BY <1>4 DEF PortalAnswers
  <2>4. QED
    BY <1>1, <2>1, <2>2, <2>3, QuietStep
<1>5. CASE Obtained(t)
  <2>1. /\ pc[t] = "got" /\ ~Waits(t) /\ state' = "sessioned"
        /\ token' = held[t].token /\ jar' = jar
    BY <1>5 DEF Obtained
  <2>2. CASE persistent
    <3>1. Suspend(t, "save", 0, Given(t), since[t]) /\ waiting' = Append(waiting, t)
      BY <1>5, <2>2 DEF Obtained
    <3>2. /\ QueueOK'
          /\ \A a, b \in Tasks : Before(waiting', a, b) => (b = t /\ a # t) \/ Before(waiting, a, b)
      BY <1>1, <2>1, <3>1, QueueStep
    <3>3. pc'[t] = "save" /\ held'[t] = [token |-> token', cookie |-> jar']
      BY <1>1, <2>1, <3>1, Frame DEF Given
    <3>4. \A b \in Tasks : ~Before(waiting, t, b)
      <4>1. t \notin ToSet(waiting) /\ waiting \in Seq(Tasks)
        BY <1>1, <2>1 DEF QueueOK
      <4>2. QED
        BY <4>1, Positions DEF Before
    <3>5. Newest(t)'
      BY <3>2, <3>3, <3>4 DEF Newest
    <3>6. QED
      BY <2>1, <3>2, <3>3, <3>5 DEF SessionStored, RestartFindsSession, WillHold
  <2>3. CASE ~persistent
    <3>1. AfterObtained(t) /\ waiting' = waiting /\ persistent' = persistent
      BY <1>5, <2>3 DEF Obtained
    <3>2. QueueOK'
      BY <1>1, <1>3, <2>1, <3>1, QueueStep
    <3>3. QED
      BY <2>1, <2>3, <3>1, <3>2, ExcusedStep DEF Early
  <2>4. QED BY <2>2, <2>3
<1>6. CASE ObtainFails(t)
  <2>1. pc[t] \in {"get", "got"} /\ AfterFailure(t)
        /\ UNCHANGED <<persistent, managerVars, storeVars, overtaken>>
    BY <1>6 DEF ObtainFails
  <2>2. QED
    BY <1>2, <1>3, <2>1
<1>7. CASE SaveTakesEffect(t)
  <2>1. /\ pc[t] = "save" /\ NextInStore(t) /\ Suspend(t, "saved", 0, NoEntry, since[t])
        /\ store' = held[t] /\ waiting' = Tail(waiting)
        /\ UNCHANGED <<persistent, managerVars, lost, overtaken>>
    BY <1>7 DEF SaveTakesEffect
  <2>2. /\ QueueOK'
        /\ \A a, b \in Tasks : Before(waiting', a, b) => Before(waiting, a, b)
    BY <1>1, <2>1, QueueStep
  <2>3. /\ pc'[t] = "saved"
        /\ \A u \in Tasks : u # t => pc'[u] = pc[u] /\ held'[u] = held[u]
    BY <1>1, <2>1, Frame
  <2>4. state' # "unauth"
    BY <1>1, <2>1 DEF Early
  <2>5. ASSUME persistent', state' = "sessioned", ~lost', ~overtaken'
        PROVE  WillHold([token |-> token, cookie |-> jar])'
    <3>1. PICK u \in Tasks : Newest(u) /\ held[u] = [token |-> token, cookie |-> jar]
      BY <1>1, <2>1, <2>5 DEF RestartFindsSession, WillHold
    <3>2. CASE u = t
      <4>1. \A v \in Tasks \ {t} : pc[v] = "save" => Before(waiting, t, v)
        BY <1>1, <2>1, Advanced DEF QueueOK, Fits, NextInStore
      <4>2. \A v \in Tasks : pc'[v] # "save"
        BY <2>3, <3>1, <3>2, <4>1 DEF Newest
      <4>3. QED
        BY <2>1, <3>1, <3>2, <4>2 DEF WillHold
    <3>3. CASE u # t
      <4>1. Newest(u)' /\ held'[u] = held[u]
        BY <2>2, <2>3, <3>1, <3>3 DEF Newest
      <4>2. QED
        BY <2>1, <3>1, <4>1 DEF WillHold
    <3>4. QED BY <3>2, <3>3
  <2>6. QED
    BY <2>2, <2>4, <2>5 DEF SessionStored, RestartFindsSession
<1>8. CASE SaveReturns(t)
  <2>1. /\ pc[t] \in {"save", "saved"} /\ AfterObtained(t) /\ waiting' = Leave(waiting, t)
        /\ lost' = (lost \/ pc[t] = "save")
        /\ UNCHANGED <<persistent, managerVars, store, overtaken>>
    BY <1>8 DEF SaveReturns
  <2>2. CASE pc[t] = "saved"
    <3>1. lost' = lost
      BY <1>1, <2>1, <2>2 DEF CredentialsOK
    <3>2. QED
      BY <1>2, <1>3, <2>1, <2>2, <3>1
  <2>3. CASE pc[t] = "save"
    <3>1. QueueOK'
      BY <1>1, <1>3, <2>1, QueueStep
    <3>2. state' # "unauth" /\ lost'
      BY <1>1, <2>1, <2>3 DEF Early
    <3>3. QED
      BY <3>1, <3>2, ExcusedStep DEF Early
  <2>4. QED BY <2>1, <2>2, <2>3
<1>9. CASE Cancel(t)
  <2>1. /\ Return(t) /\ waiting' = Leave(waiting, t)
        /\ lost' = (lost \/ pc[t] = "save")
        /\ pc[t] # "save" => store' = store
        /\ UNCHANGED <<persistent, managerVars, overtaken>>
    BY <1>9 DEF Cancel
  <2>2. CASE pc[t] # "save"
    <3>1. lost' = lost
      BY <1>1, <2>1, <2>2 DEF CredentialsOK
    <3>2. QED
      BY <1>2, <1>3, <2>1, <2>2, <3>1
  <2>3. CASE pc[t] = "save"
    <3>1. QueueOK'
      BY <1>1, <1>3, <2>1, QueueStep
    <3>2. state' # "unauth" /\ lost'
      BY <1>1, <2>1, <2>3 DEF Early
    <3>3. QED
      BY <3>1, <3>2, ExcusedStep DEF Early
  <2>4. QED BY <2>2, <2>3
<1>10. QED
  BY <1>4, <1>5, <1>6, <1>7, <1>8, <1>9 DEF Step

LEMMA OthersKeepSession ==
  ASSUME SessionStored, CredentialsOK',
         \/ \E l \in Logins : Login(l)
         \/ TokenGoesStale \/ TokenExpires \/ Forget \/ Restart \/ UNCHANGED vars
  PROVE  SessionStored'
<1> USE DEF managerVars, storeVars, lifeVars, taskVars, Waits
<1>1. CredentialsOK /\ QueueOK /\ Early /\ RestartFindsSession
  BY DEF SessionStored, Early
<1>2. CASE \E l \in Logins : Login(l)
  <2>1. PICK l \in Logins : Login(l)
    BY <1>2
  <2>2. /\ l \in Tasks /\ pc[l] = "idle" /\ waiting' = waiting /\ state' = "cookie_only"
        /\ Suspend(l, "get", logins + 1, NoEntry, 0)
    BY <2>1 DEF Login, Tasks
  <2>3. QueueOK'
    BY <1>1, <2>2, QueueStep
  <2>4. QED
    BY <2>2, <2>3, ExcusedStep DEF Early
<1>3. CASE TokenGoesStale \/ TokenExpires \/ UNCHANGED vars
  <2>1. UNCHANGED <<managerVars, storeVars, taskVars, persistent, overtaken>>
    BY <1>3 DEF TokenGoesStale, TokenExpires, vars
  <2>2. QueueOK' /\ Early'
    BY <1>1, <2>1 DEF QueueOK, Early
  <2>3. RestartFindsSession'
    BY <1>1, <2>1 DEF RestartFindsSession, WillHold, Newest
  <2>4. QED
    BY <2>2, <2>3 DEF SessionStored, Early
<1>4. CASE Forget
  <2>1. lost' /\ UNCHANGED <<state, waiting, taskVars>>
    BY <1>4 DEF Forget
  <2>2. QueueOK' /\ Early'
    BY <1>1, <2>1 DEF QueueOK, Early
  <2>3. QED
    BY <2>1, <2>2, ExcusedStep
<1>5. CASE Restart
  <2>1. /\ waiting' = << >> /\ state' = "unauth"
        /\ \A t \in Tasks : pc'[t] = "idle"
    BY <1>5 DEF Restart
  <2>2. QueueOK'
    BY <2>1 DEF QueueOK, IsInjective, ToSet
  <2>3. QED
    BY <2>1, <2>2, ExcusedStep DEF Early
<1>6. QED
  BY <1>2, <1>3, <1>4, <1>5

(* The queue of the store is in order, and nothing obtains a token before    *)
(* the first login or restore of a life.                                     *)
THEOREM SessionStoredHolds == Spec => []SessionStored
<1>1. Init /\ CredentialsOK => SessionStored
  BY DEF Init, SessionStored, QueueOK, IsInjective, ToSet, RestartFindsSession, Tasks
<1>2. LoginStays => CredentialsOK
  BY DEF LoginStays
<1>3. SessionStored /\ CredentialsOK' /\ [Next]_vars => SessionStored'
  <2> SUFFICES ASSUME SessionStored, CredentialsOK', [Next]_vars PROVE SessionStored'
    OBVIOUS
  <2>1. CASE \E r \in Requests : RequestStep(r)
    BY <2>1, RequestKeepsSession
  <2>2. CASE \E t \in Tasks : Step(t)
    BY <2>2, ObtainKeepsSession
  <2>3. CASE \/ \E l \in Logins : Login(l)
             \/ TokenGoesStale \/ TokenExpires \/ Forget \/ Restart \/ UNCHANGED vars
    BY <2>3, OthersKeepSession
  <2>4. QED
    BY <2>1, <2>2, <2>3 DEF Next
<1>4. QED
  BY <1>1, <1>2, <1>3, LoginStaysHolds, PTL DEF Spec

(* In a session the store holds, or will hold when the saves under way took  *)
(* effect, the token and the cookie of the manager, however many requests    *)
(* and logins obtain tokens at the same time.                                *)
THEOREM SessionIsFound == Spec => []RestartFindsSession
<1>1. SessionStored => RestartFindsSession
  BY DEF SessionStored
<1>2. QED
  BY <1>1, SessionStoredHolds, PTL

-------------------------------------------------------------------------------
(* The credentials of a state are there: TypeOK.                             *)

\* An entry with a token has the cookie the token was obtained with.
Whole(e) == e.token # 0 => e.cookie # 0

\* The invariant behind TypeOK: a state comes with its credentials, and so does
\* whatever waits to be assigned, restored or saved.
CredentialsOfState ==
  /\ state # "unauth" => jar # 0
  /\ state = "sessioned" => token # 0
Ages == expired <= stale /\ stale <= issued
InHand(t) ==
  /\ pc[t] \in {"loaded", "save"} => Whole(held[t])
  /\ pc[t] = "got" => held[t].token # 0
Genuine == CredentialsOfState /\ Ages /\ Whole(store) /\ \A t \in Tasks : InHand(t)

(* A step of one task keeps Genuine when what the task gets in hand is whole. *)
LEMMA GenuineStep ==
  ASSUME CredentialsOK, Genuine, NEW t \in Tasks, NEW at, NEW c, NEW h, NEW s,
         Suspend(t, at, c, h, s),
         at \in {"loaded", "save"} => Whole(h),
         at = "got" => h.token # 0,
         CredentialsOfState', Ages', Whole(store')
  PROVE  Genuine'
<1>1. /\ pc'[t] = at /\ held'[t] = h
      /\ \A u \in Tasks : u # t => pc'[u] = pc[u] /\ held'[u] = held[u]
  BY Frame
<1>2. \A u \in Tasks : InHand(u)'
  BY <1>1 DEF Genuine, InHand, Whole
<1>3. QED
  BY <1>2 DEF Genuine, Whole

LEMMA RequestKeepsGenuine ==
  ASSUME CredentialsOK, Genuine, NEW r \in Requests, RequestStep(r)
  PROVE  Genuine'
<1> USE DEF managerVars, storeVars, lifeVars, portalVars
<1>1. r \in Tasks /\ CredentialsOfState /\ Ages /\ Whole(store) /\ InHand(r)
  BY DEF Genuine, Tasks
<1>2. ASSUME NEW st, NEW c, NEW n, NEW s, Pass(r, st, c, n, s),
             st # "unauth" => c # 0, st = "sessioned" => n # 0,
             UNCHANGED <<store, portalVars>>
      PROVE  Genuine'
  <2>1. state' = st /\ jar' = c /\ token' = n
    BY <1>2, PassStages
  <2>2. PICK at, k : at \in {"get", "wire"} /\ Suspend(r, at, k, NoEntry, s)
    BY <1>2, PassStages
  <2>3. CredentialsOfState' /\ Ages' /\ Whole(store')
    BY <1>1, <1>2, <2>1 DEF CredentialsOfState, Ages
  <2>4. QED
    BY <1>1, <2>2, <2>3, GenuineStep
<1>3. ASSUME UNCHANGED <<state, jar, token, portalVars, store>>
      PROVE  CredentialsOfState' /\ Ages' /\ Whole(store')
  BY <1>1, <1>3 DEF CredentialsOfState, Ages
<1>4. CASE Ensure(r)
  <2>1. CASE state = "unauth" /\ persistent
    BY <1>1, <1>3, <1>4, <2>1, GenuineStep DEF Ensure
  <2>2. CASE ~(state = "unauth" /\ persistent)
    <3>1. Pass(r, state, jar, token, login) /\ UNCHANGED <<store, portalVars>>
      BY <1>4, <2>2 DEF Ensure
    <3>2. QED
      BY <1>1, <1>2, <3>1 DEF CredentialsOfState
  <2>3. QED BY <2>1, <2>2
<1>5. CASE RequestEnds(r) \/ LoadFails(r)
  <2>1. Suspend(r, "idle", 0, NoEntry, 0) /\ UNCHANGED <<state, jar, token, portalVars, store>>
    BY <1>5 DEF RequestEnds, LoadFails, Return
  <2>2. QED
    BY <1>1, <1>3, <2>1, GenuineStep
<1>6. CASE LoadTakesEffect(r)
  <2>1. /\ Suspend(r, "loaded", 0, store, since[r])
        /\ UNCHANGED <<state, jar, token, portalVars, store>>
    BY <1>6 DEF LoadTakesEffect
  <2>2. QED
    BY <1>1, <1>3, <2>1, GenuineStep
<1>7. CASE Restore(r)
  <2>1. pc[r] = "loaded" /\ UNCHANGED <<store, portalVars>>
    BY <1>7 DEF Restore
  <2>2. CASE Usable(held[r])
    <3>1. Pass(r, "sessioned", held[r].cookie, held[r].token, since[r])
      BY <1>7, <2>2 DEF Restore
    <3>2. held[r].token # 0 /\ held[r].cookie # 0
      BY <1>1, <2>1, <2>2 DEF Usable, InHand, Whole
    <3>3. QED
      BY <1>2, <2>1, <3>1, <3>2
  <2>3. CASE ~Usable(held[r])
    <3>1. Pass(r, state, jar, token, since[r])
      BY <1>7, <2>3 DEF Restore
    <3>2. QED
      BY <1>1, <1>2, <2>1, <3>1 DEF CredentialsOfState
  <2>4. QED BY <2>2, <2>3
<1>8. QED
  BY <1>4, <1>5, <1>6, <1>7 DEF RequestStep

LEMMA ObtainKeepsGenuine ==
  ASSUME SessionStored, Genuine, NEW t \in Tasks, Step(t)
  PROVE  Genuine'
<1> USE DEF managerVars, storeVars, lifeVars, portalVars
<1>1. /\ CredentialsOK /\ CredentialsOfState /\ Ages /\ Whole(store) /\ InHand(t)
      /\ pc[t] \in {"get", "got"} => state # "unauth"
      /\ issued \in Nat /\ stale \in Nat /\ expired \in Nat
  BY BoundsType DEF Genuine, SessionStored, CredentialsOK, JWT
<1>2. ASSUME UNCHANGED <<state, jar, token, portalVars, store>>
      PROVE  CredentialsOfState' /\ Ages' /\ Whole(store')
  BY <1>1, <1>2 DEF CredentialsOfState, Ages
<1>3. ASSUME AfterObtained(t) \/ AfterFailure(t) \/ Return(t)
      PROVE  \E at \in {"idle", "wire"} : \E c, s : Suspend(t, at, c, NoEntry, s)
  BY <1>3 DEF AfterObtained, AfterFailure, Return, SendRequest
<1>4. ASSUME AfterObtained(t) \/ AfterFailure(t) \/ Return(t),
             CredentialsOfState', Ages', Whole(store')
      PROVE  Genuine'
  BY <1>1, <1>3, <1>4, GenuineStep
<1>5. CASE PortalAnswers(t)
  <2>1. PICK n \in {issued, issued + 1} \ (0 .. stale) :
          issued' = n /\ Suspend(t, "got", 0, [token |-> n, cookie |-> 0], since[t])
    BY <1>5 DEF PortalAnswers
  <2>2. n # 0 /\ n >= stale
    BY <1>1, <2>1
  <2>3. UNCHANGED <<state, jar, token, stale, expired, store>>
    BY <1>5 DEF PortalAnswers
  <2>4. CredentialsOfState' /\ Ages' /\ Whole(store')
    BY <1>1, <2>1, <2>2, <2>3 DEF CredentialsOfState, Ages
  <2>5. [token |-> n, cookie |-> 0].token # 0
    BY <2>2
  <2>6. QED
    BY <1>1, <2>1, <2>4, <2>5, GenuineStep
<1>6. CASE Obtained(t)
  <2>1. /\ pc[t] = "got" /\ token' = held[t].token /\ state' = "sessioned"
        /\ UNCHANGED <<jar, store, portalVars>>
    BY <1>6 DEF Obtained
  <2>2. jar # 0 /\ held[t].token # 0
    BY <1>1, <2>1 DEF CredentialsOfState, InHand
  <2>3. CredentialsOfState' /\ Ages' /\ Whole(store') /\ Whole(Given(t))
    BY <1>1, <2>1, <2>2 DEF CredentialsOfState, Ages, Whole, Given
  <2>4. CASE persistent
    <3>1. Suspend(t, "save", 0, Given(t), since[t])
      BY <1>6, <2>4 DEF Obtained
    <3>2. QED
      BY <1>1, <2>3, <3>1, GenuineStep
  <2>5. CASE ~persistent
    BY <1>4, <1>6, <2>3, <2>5 DEF Obtained
  <2>6. QED BY <2>4, <2>5
<1>7. CASE ObtainFails(t)
  BY <1>2, <1>4, <1>7 DEF ObtainFails
<1>8. CASE SaveTakesEffect(t)
  <2>1. /\ pc[t] = "save" /\ Suspend(t, "saved", 0, NoEntry, since[t])
        /\ store' = held[t] /\ UNCHANGED <<state, jar, token, portalVars>>
    BY <1>8 DEF SaveTakesEffect
  <2>2. CredentialsOfState' /\ Ages' /\ Whole(store')
    BY <1>1, <2>1 DEF CredentialsOfState, Ages, InHand
  <2>3. QED
    BY <1>1, <2>1, <2>2, GenuineStep
<1>9. CASE SaveReturns(t)
  BY <1>2, <1>4, <1>9 DEF SaveReturns
<1>10. CASE Cancel(t)
  <2>1. Return(t) /\ UNCHANGED <<state, jar, token, portalVars>>
    BY <1>10 DEF Cancel
  <2>2. store' = store \/ (pc[t] = "save" /\ store' = held[t])
    BY <1>10 DEF Cancel
  <2>3. CredentialsOfState' /\ Ages' /\ Whole(store')
    BY <1>1, <2>1, <2>2 DEF CredentialsOfState, Ages, InHand
  <2>4. QED
    BY <1>4, <2>1, <2>3
<1>11. QED
  BY <1>5, <1>6, <1>7, <1>8, <1>9, <1>10 DEF Step

LEMMA OthersKeepGenuine ==
  ASSUME CredentialsOK, Genuine,
         \/ \E l \in Logins : Login(l)
         \/ TokenGoesStale \/ TokenExpires \/ Forget \/ Restart \/ UNCHANGED vars
  PROVE  Genuine'
<1> USE DEF managerVars, storeVars, lifeVars, taskVars, portalVars
<1>1. /\ CredentialsOfState /\ Ages /\ Whole(store) /\ Whole(NoEntry)
      /\ \A t \in Tasks : InHand(t)
      /\ issued \in Nat /\ stale \in Nat /\ expired \in Nat /\ logins \in Nat
  BY BoundsType DEF Genuine, CredentialsOK, JWT, Whole, NoEntry
<1>2. CASE \E l \in Logins : Login(l)
  <2>1. PICK l \in Logins : Login(l)
    BY <1>2
  <2>2. /\ l \in Tasks /\ state' = "cookie_only" /\ jar' # 0
        /\ Suspend(l, "get", logins + 1, NoEntry, 0)
        /\ UNCHANGED <<issued, stale, expired, store>>
    BY <1>1, <2>1 DEF Login, Tasks
  <2>3. CredentialsOfState' /\ Ages' /\ Whole(store')
    BY <1>1, <2>2 DEF CredentialsOfState, Ages
  <2>4. QED
    BY <2>2, <2>3, GenuineStep
<1>3. CASE TokenGoesStale \/ TokenExpires
  <2>1. UNCHANGED <<managerVars, store, taskVars, issued>>
    BY <1>3 DEF TokenGoesStale, TokenExpires
  <2>2. Ages'
    BY <1>1, <1>3 DEF TokenGoesStale, TokenExpires, Ages
  <2>3. QED
    BY <1>1, <2>1, <2>2 DEF Genuine, CredentialsOfState, InHand
<1>4. CASE Forget \/ UNCHANGED vars
  <2>1. UNCHANGED <<managerVars, taskVars, portalVars>> /\ store' \in {store, NoEntry}
    BY <1>4 DEF Forget, vars
  <2>2. QED
    BY <1>1, <2>1 DEF Genuine, CredentialsOfState, Ages, InHand
<1>5. CASE Restart
  <2>1. store' = store \/ \E t \in Tasks : pc[t] = "save" /\ store' \in {held[t], NoEntry}
    BY <1>5 DEF Restart
  <2>2. Whole(store')
    BY <1>1, <2>1 DEF InHand
  <2>3. /\ state' = "unauth" /\ UNCHANGED portalVars
        /\ pc' = [t \in Tasks |-> "idle"]
    BY <1>5 DEF Restart
  <2>4. CredentialsOfState' /\ Ages' /\ \A t \in Tasks : InHand(t)'
    BY <1>1, <2>3 DEF CredentialsOfState, Ages, InHand
  <2>5. QED
    BY <2>2, <2>4 DEF Genuine, Whole
<1>6. QED
  BY <1>2, <1>3, <1>4, <1>5

(* In every state but UNAUTH there is a cookie, in SESSIONED a token, after   *)
(* whatever was restored, answered, saved or cancelled; and the variables     *)
(* have their types.                                                          *)
THEOREM TypeCorrect == Spec => []TypeOK
<1>1. Init => Genuine
  BY DEF Init, Genuine, CredentialsOfState, Ages, InHand, Whole, NoEntry
<1>2. SessionStored /\ Genuine /\ [Next]_vars => Genuine'
  <2> SUFFICES ASSUME SessionStored, Genuine, [Next]_vars PROVE Genuine'
    OBVIOUS
  <2>1. CredentialsOK
    BY DEF SessionStored
  <2>2. CASE \E r \in Requests : RequestStep(r)
    BY <2>1, <2>2, RequestKeepsGenuine
  <2>3. CASE \E t \in Tasks : Step(t)
    BY <2>3, ObtainKeepsGenuine
  <2>4. CASE \/ \E l \in Logins : Login(l)
             \/ TokenGoesStale \/ TokenExpires \/ Forget \/ Restart \/ UNCHANGED vars
    BY <2>1, <2>4, OthersKeepGenuine
  <2>5. QED
    BY <2>2, <2>3, <2>4 DEF Next
<1>3. SessionStored /\ Genuine => TypeOK
  BY DEF SessionStored, Genuine, CredentialsOfState, Ages, TypeOK
<1>4. QED
  BY <1>1, <1>2, <1>3, SessionStoredHolds, PTL DEF Spec

===============================================================================
