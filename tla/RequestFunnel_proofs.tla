-------------------------- MODULE RequestFunnel_proofs --------------------------
(***************************************************************************)
(* Proofs about RequestFunnel, for any set of calls, any number of retries *)
(* and any set-up of the client: how often the portal executes a call,     *)
(* after what it is sent again, and when a caller sees a failure.          *)
(***************************************************************************)
EXTENDS RequestFunnel, TLAPS

(* The attempts of a call are counted by the requests that were settled, so  *)
(* each effect but that of the request on the wire has one.                  *)
Counted(c) ==
  /\ effects[c] <= attempt[c] + 1
  /\ pc[c] \in {"idle", "paced"} => effects[c] = 0 /\ attempt[c] = 0 /\ reply[c] = "pending"
  /\ pc[c] = "wire" /\ reply[c] = "pending" => effects[c] <= attempt[c]

(* Only what the policy retries gets past its first attempt.                 *)
Retried(c) ==
  /\ pc[c] = "backoff" => Retryable(c, reply[c]) /\ attempt[c] < Retries
  /\ c \notin Idempotent => attempt[c] = 0
  /\ outcome[c] \in {"HTTPError", "OSError"} /\ Retryable(c, reply[c]) => attempt[c] = Retries
  /\ pc[c] # "done" => outcome[c] = "none"
  /\ attempt[c] > 0 => retried[c] # {}
  /\ retried[c] # {} => c \in Idempotent
  /\ retried[c] \subseteq {"transient", "OSError"}

Guarded(c) ==
  c \in Journaling /\ "mutations" \notin options => pc[c] \in {"idle", "done"} /\ effects[c] = 0

CallType ==
  /\ pc \in [Calls -> Stages]
  /\ attempt \in [Calls -> 0 .. Retries]
  /\ cred \in [Calls -> Cookies]
  /\ reply \in [Calls -> Statuses \cup Exceptions \cup {"pending"}]
  /\ outcome \in [Calls -> Outcomes]
  /\ effects \in [Calls -> Nat]
  /\ retried \in [Calls -> SUBSET (Statuses \cup Exceptions)]

ClientType ==
  /\ life \in {"none", "built", "inside", "left"} /\ lives \in 0 .. MaxLives
  /\ options \in SUBSET Options /\ closed \in BOOLEAN
  /\ cookie \in Cookies /\ saved \in Cookies /\ given \in Cookies

PortalType == issued \in Cookies /\ accepted \subseteq 1 .. issued

IInv ==
  /\ ClientType /\ PortalType /\ CallType
  /\ \A c \in Calls : Counted(c) /\ Retried(c) /\ Guarded(c)

LEMMA IInvIsTypeOK == IInv => TypeOK
<1> SUFFICES ASSUME IInv PROVE TypeOK
  OBVIOUS
<1>1. ASSUME NEW c \in Calls PROVE effects[c] \in 0 .. Retries + 1
  <2>1. effects[c] \in Nat /\ attempt[c] \in 0 .. Retries /\ effects[c] <= attempt[c] + 1
    BY DEF IInv, CallType, Counted
  <2>2. QED
    BY <2>1, ConfigAssumption
<1>2. effects \in [Calls -> 0 .. Retries + 1]
  BY <1>1 DEF IInv, CallType
<1>3. QED
  BY <1>2 DEF IInv, TypeOK, ClientType, PortalType, CallType

(* A step of one call leaves the others, the client and the portal alone.    *)
OneCall(c) ==
  /\ UNCHANGED <<life, lives, options, closed, cookie, saved, given, issued, accepted>>
  /\ CallType'
  /\ \A d \in Calls \ {c} :
       /\ pc'[d] = pc[d] /\ attempt'[d] = attempt[d] /\ reply'[d] = reply[d]
       /\ outcome'[d] = outcome[d] /\ effects'[d] = effects[d] /\ retried'[d] = retried[d]
  /\ Counted(c)' /\ Retried(c)' /\ Guarded(c)'

LEMMA OneCallOK ==
  ASSUME IInv, NEW c \in Calls, OneCall(c)
  PROVE  IInv'
<1>1. ClientType' /\ PortalType'
  BY DEF OneCall, IInv, ClientType, PortalType
<1>2. ASSUME NEW d \in Calls PROVE (Counted(d) /\ Retried(d) /\ Guarded(d))'
  <2>1. CASE d = c
    BY <2>1 DEF OneCall
  <2>2. CASE d # c
    BY <2>2 DEF OneCall, IInv, Counted, Retried, Guarded, Retryable
  <2>3. QED
    BY <2>1, <2>2
<1>3. QED
  BY <1>1, <1>2 DEF IInv, OneCall

-------------------------------------------------------------------------------
(* One lemma per step of a call.                                             *)
USE DEF Statuses, Exceptions

LEMMA CallOK ==
  ASSUME IInv, NEW c \in Calls, Call(c)
  PROVE  IInv'
<1>1. /\ CallType /\ ClientType /\ Counted(c) /\ Retried(c) /\ Guarded(c) /\ pc[c] = "idle"
      /\ UNCHANGED <<clientVars, portalVars, attempt, reply, effects, retried>>
  BY DEF IInv, Call
<1>2. CASE c \in Journaling /\ "mutations" \notin options
  <2>1. /\ pc' = [pc EXCEPT ![c] = "done"]
        /\ outcome' = [outcome EXCEPT ![c] = "MutationsDisabled"]
        /\ cred' = cred
    BY <1>2 DEF Call, Ended
  <2>2. CallType'
    BY <1>1, <2>1 DEF CallType, Stages, Outcomes
  <2>3. Counted(c)' /\ Retried(c)' /\ Guarded(c)'
    BY <1>1, <2>1 DEF CallType, Counted, Retried, Guarded, Retryable, clientVars
  <2>4. OneCall(c)
    BY <1>1, <2>1, <2>2, <2>3 DEF OneCall, CallType, clientVars, portalVars
  <2>5. QED
    BY <2>4, OneCallOK
<1>3. CASE ~ (c \in Journaling /\ "mutations" \notin options)
  <2>1. PICK to \in {"paced", "wire", "done"}, o \in {"none", "AttributeError"} :
          /\ pc' = [pc EXCEPT ![c] = to]
          /\ outcome' = [outcome EXCEPT ![c] = o]
          /\ to # "done" => o = "none"
    <3>1. outcome = [outcome EXCEPT ![c] = "none"]
      BY <1>1 DEF CallType, Retried
    <3>2. QED
      BY <1>3, <3>1 DEF Call, Send, Ended
  <2>2. cred' = [cred EXCEPT ![c] = cookie]
    BY <1>3 DEF Call
  <2>3. CallType'
    BY <1>1, <2>1, <2>2 DEF CallType, ClientType, Stages, Outcomes
  <2>4. Counted(c)' /\ Retried(c)' /\ Guarded(c)'
    BY <1>1, <1>3, <2>1 DEF CallType, Counted, Retried, Guarded, Retryable, clientVars
  <2>5. OneCall(c)
    BY <1>1, <2>1, <2>3, <2>4 DEF OneCall, CallType, clientVars, portalVars
  <2>6. QED
    BY <2>5, OneCallOK
<1>4. QED
  BY <1>2, <1>3

LEMMA AdmittedOK ==
  ASSUME IInv, NEW c \in Calls, Admitted(c)
  PROVE  IInv'
<1>1. /\ CallType /\ Counted(c) /\ Retried(c) /\ Guarded(c) /\ pc[c] = "paced"
      /\ UNCHANGED <<clientVars, portalVars, attempt, cred, reply, effects, retried>>
  BY DEF IInv, Admitted
<1>2. PICK to \in {"wire", "done"}, o \in {"none", "AttributeError"} :
        /\ pc' = [pc EXCEPT ![c] = to]
        /\ outcome' = [outcome EXCEPT ![c] = o]
        /\ to # "done" => o = "none"
  <2>1. outcome = [outcome EXCEPT ![c] = "none"]
    BY <1>1 DEF CallType, Retried
  <2>2. QED
    BY <2>1 DEF Admitted, Send, Ended
<1>3. CallType'
  BY <1>1, <1>2 DEF CallType, Stages, Outcomes
<1>4. Counted(c)' /\ Retried(c)' /\ Guarded(c)'
  BY <1>1, <1>2 DEF CallType, Counted, Retried, Guarded, Retryable, clientVars
<1>5. OneCall(c)
  BY <1>1, <1>2, <1>3, <1>4 DEF OneCall, CallType, clientVars, portalVars
<1>6. QED
  BY <1>5, OneCallOK

LEMMA AnswerOK ==
  ASSUME IInv, NEW c \in Calls, Answer(c)
  PROVE  IInv'
<1>1. /\ CallType /\ Counted(c) /\ Retried(c) /\ Guarded(c) /\ pc[c] = "wire"
      /\ reply[c] = "pending" /\ effects[c] <= attempt[c]
      /\ effects[c] \in Nat /\ attempt[c] \in Nat
      /\ UNCHANGED <<clientVars, portalVars, pc, attempt, cred, outcome, retried>>
  BY DEF IInv, Answer, Counted, CallType
<1>2. PICK r \in Statuses, n \in {0, 1} :
        /\ reply' = [reply EXCEPT ![c] = r]
        /\ effects' = [effects EXCEPT ![c] = effects[c] + n]
  <2>1. effects = [effects EXCEPT ![c] = effects[c] + 0]
    BY <1>1 DEF CallType
  <2>2. CASE cred[c] \in accepted
    BY <2>2 DEF Answer
  <2>3. CASE cred[c] \notin accepted
    BY <2>1, <2>3 DEF Answer
  <2>4. QED
    BY <2>2, <2>3
<1>3. CallType'
  BY <1>1, <1>2 DEF CallType
<1>4. /\ effects'[c] = effects[c] + n /\ reply'[c] = r /\ r # "pending" /\ pc'[c] = "wire"
      /\ attempt'[c] = attempt[c] /\ outcome'[c] = "none" /\ retried'[c] = retried[c]
  BY <1>1, <1>2 DEF CallType, Retried
<1>5. Counted(c)'
  BY <1>1, <1>4 DEF Counted
<1>6. Retried(c)'
  BY <1>1, <1>4 DEF Retried
<1>7. Guarded(c)'
  BY <1>1, <1>4 DEF Guarded, clientVars
<1>8. OneCall(c)
  BY <1>1, <1>2, <1>3, <1>5, <1>6, <1>7 DEF OneCall, CallType, clientVars, portalVars
<1>9. QED
  BY <1>8, OneCallOK

LEMMA BreakOK ==
  ASSUME IInv, NEW c \in Calls, Break(c)
  PROVE  IInv'
<1>1. /\ CallType /\ Counted(c) /\ Retried(c) /\ Guarded(c) /\ pc[c] = "wire"
      /\ UNCHANGED <<clientVars, portalVars, pc, attempt, cred, outcome, effects, retried>>
  BY DEF IInv, Break
<1>2. PICK x \in Exceptions : reply' = [reply EXCEPT ![c] = x]
  BY DEF Break
<1>3. CallType'
  BY <1>1, <1>2 DEF CallType
<1>4. /\ reply'[c] = x /\ pc'[c] = "wire" /\ outcome'[c] = "none"
      /\ attempt'[c] = attempt[c] /\ effects'[c] = effects[c] /\ retried'[c] = retried[c]
  BY <1>1, <1>2 DEF CallType, Retried
<1>5. Counted(c)' /\ Retried(c)' /\ Guarded(c)'
  BY <1>1, <1>4 DEF Counted, Retried, Guarded, clientVars
<1>6. OneCall(c)
  BY <1>1, <1>2, <1>3, <1>5 DEF OneCall, CallType, clientVars, portalVars
<1>7. QED
  BY <1>6, OneCallOK

LEMMA SettleOK ==
  ASSUME IInv, NEW c \in Calls, Settle(c)
  PROVE  IInv'
<1>1. /\ CallType /\ Counted(c) /\ Retried(c) /\ Guarded(c) /\ pc[c] = "wire"
      /\ attempt[c] \in 0 .. Retries /\ effects[c] \in Nat
      /\ UNCHANGED <<clientVars, portalVars, attempt, cred, reply, effects, retried>>
  BY DEF IInv, Settle, CallType
<1>2. CASE Retryable(c, reply[c]) /\ attempt[c] < Retries
  <2>1. pc' = [pc EXCEPT ![c] = "backoff"] /\ outcome' = outcome
    BY <1>2 DEF Settle
  <2>2. CallType'
    BY <1>1, <2>1 DEF CallType, Stages
  <2>3. /\ pc'[c] = "backoff" /\ reply'[c] = reply[c] /\ outcome'[c] = "none"
        /\ attempt'[c] = attempt[c] /\ effects'[c] = effects[c] /\ retried'[c] = retried[c]
    BY <1>1, <2>1 DEF CallType, Retried
  <2>4. Counted(c)' /\ Retried(c)' /\ Guarded(c)'
    BY <1>1, <1>2, <2>3 DEF Counted, Retried, Guarded, Retryable, clientVars
  <2>5. OneCall(c)
    BY <1>1, <2>1, <2>2, <2>4 DEF OneCall, CallType, clientVars, portalVars
  <2>6. QED
    BY <2>5, OneCallOK
<1>3. CASE ~ (Retryable(c, reply[c]) /\ attempt[c] < Retries)
  <2>1. PICK o \in Outcomes :
          pc' = [pc EXCEPT ![c] = "done"] /\ outcome' = [outcome EXCEPT ![c] = o]
    <3>1. PICK o \in Raised(reply[c]) : Ended(c, o)
      BY <1>3 DEF Settle
    <3>2. reply[c] \in Statuses \cup Exceptions
      BY <1>1 DEF Settle, CallType
    <3>3. o \in Outcomes
      BY <3>1, <3>2 DEF Raised, Outcomes
    <3>4. QED
      BY <3>1, <3>3 DEF Ended
  <2>2. CallType'
    BY <1>1, <2>1 DEF CallType, Stages
  <2>3. Retryable(c, reply[c]) => attempt[c] = Retries
    BY <1>1, <1>3, ConfigAssumption
  <2>4. /\ pc'[c] = "done" /\ reply'[c] = reply[c]
        /\ attempt'[c] = attempt[c] /\ effects'[c] = effects[c] /\ retried'[c] = retried[c]
    BY <1>1, <2>1 DEF CallType
  <2>5. Counted(c)' /\ Retried(c)' /\ Guarded(c)'
    BY <1>1, <2>3, <2>4 DEF Counted, Retried, Guarded, Retryable, clientVars
  <2>6. OneCall(c)
    BY <1>1, <2>1, <2>2, <2>5 DEF OneCall, CallType, clientVars, portalVars
  <2>7. QED
    BY <2>6, OneCallOK
<1>4. QED
  BY <1>2, <1>3

LEMMA ResendOK ==
  ASSUME IInv, NEW c \in Calls, Resend(c)
  PROVE  IInv'
<1>1. /\ CallType /\ Counted(c) /\ Retried(c) /\ Guarded(c) /\ pc[c] = "backoff"
      /\ attempt[c] \in 0 .. Retries /\ effects[c] \in Nat
      /\ Retryable(c, reply[c]) /\ attempt[c] < Retries
      /\ pc' = [pc EXCEPT ![c] = "wire"]
      /\ attempt' = [attempt EXCEPT ![c] = attempt[c] + 1]
      /\ reply' = [reply EXCEPT ![c] = "pending"]
      /\ retried' = [retried EXCEPT ![c] = retried[c] \cup {reply[c]}]
      /\ UNCHANGED <<clientVars, portalVars, cred, outcome, effects>>
  BY DEF IInv, Resend, CallType, Retried
<1>2. attempt[c] + 1 \in 0 .. Retries
  BY <1>1, ConfigAssumption
<1>3. CallType'
  <2>1. retried[c] \cup {reply[c]} \in SUBSET (Statuses \cup Exceptions)
    BY <1>1 DEF CallType, Retryable
  <2>2. retried' \in [Calls -> SUBSET (Statuses \cup Exceptions)]
    BY <1>1, <2>1 DEF CallType
  <2>3. QED
    BY <1>1, <1>2, <2>2 DEF CallType, Stages
<1>4. /\ pc'[c] = "wire" /\ reply'[c] = "pending" /\ outcome'[c] = "none"
      /\ attempt'[c] = attempt[c] + 1 /\ effects'[c] = effects[c]
      /\ retried'[c] = retried[c] \cup {reply[c]}
  BY <1>1 DEF CallType, Retried
<1>5. Counted(c)' /\ Retried(c)' /\ Guarded(c)'
  BY <1>1, <1>2, <1>4 DEF Counted, Retried, Guarded, Retryable, clientVars
<1>6. OneCall(c)
  BY <1>1, <1>3, <1>5 DEF OneCall, CallType, clientVars, portalVars
<1>7. QED
  BY <1>6, OneCallOK

LEMMA CancelOK ==
  ASSUME IInv, NEW c \in Calls, Cancel(c)
  PROVE  IInv'
<1>1. /\ CallType /\ Counted(c) /\ Retried(c) /\ Guarded(c)
      /\ pc[c] \in {"paced", "wire", "backoff"}
      /\ pc' = [pc EXCEPT ![c] = "done"]
      /\ outcome' = [outcome EXCEPT ![c] = "cancelled"]
      /\ UNCHANGED <<clientVars, portalVars, attempt, cred, reply, effects, retried>>
  BY DEF IInv, Cancel, Suspended, Ended
<1>2. CallType'
  BY <1>1 DEF CallType, Stages, Outcomes
<1>3. /\ pc'[c] = "done" /\ outcome'[c] = "cancelled" /\ reply'[c] = reply[c]
      /\ attempt'[c] = attempt[c] /\ effects'[c] = effects[c] /\ retried'[c] = retried[c]
  BY <1>1 DEF CallType
<1>4. Counted(c)' /\ Retried(c)' /\ Guarded(c)'
  BY <1>1, <1>3 DEF Counted, Retried, Guarded, Retryable, clientVars
<1>5. OneCall(c)
  BY <1>1, <1>2, <1>4 DEF OneCall, CallType, clientVars, portalVars
<1>6. QED
  BY <1>5, OneCallOK

-------------------------------------------------------------------------------
(* The steps of the client, the browser and the portal.                      *)
LEMMA ClientStepOK ==
  ASSUME IInv, UNCHANGED <<callVars, options>>, ClientType', PortalType'
  PROVE  IInv'
<1>1. CallType'
  BY DEF IInv, CallType, callVars
<1>2. ASSUME NEW c \in Calls PROVE (Counted(c) /\ Retried(c) /\ Guarded(c))'
  BY DEF IInv, Counted, Retried, Guarded, Retryable, callVars
<1>3. QED
  BY <1>1, <1>2 DEF IInv

LEMMA FromCookieOK ==
  ASSUME IInv, FromCookie
  PROVE  IInv'
<1>1. ClientType' /\ PortalType'
  <2>1. closed' \in BOOLEAN /\ PortalType' /\ options' \in SUBSET Options
    BY DEF IInv, PortalType, FromCookie, portalVars
  <2>2. life' \in {"none", "built", "inside", "left"} /\ lives' \in 0 .. MaxLives
    BY LimitsAssumption DEF IInv, ClientType, FromCookie
  <2>3. cookie' \in Cookies /\ saved' \in Cookies /\ given' \in Cookies
    BY DEF IInv, ClientType, PortalType, FromCookie
  <2>4. QED
    BY <2>1, <2>2, <2>3 DEF ClientType
<1>2. CallType'
  BY ConfigAssumption, LimitsAssumption DEF FromCookie, CallType, Stages, Outcomes, Cookies
<1>3. ASSUME NEW c \in Calls PROVE (Counted(c) /\ Retried(c) /\ Guarded(c))'
  BY DEF FromCookie, Counted, Retried, Guarded
<1>4. QED
  BY <1>1, <1>2, <1>3 DEF IInv

LEMMA InitOK == Init => IInv
<1> SUFFICES ASSUME Init PROVE IInv
  OBVIOUS
<1>1. ClientType /\ PortalType
  <2>1. closed \in BOOLEAN
    BY DEF Init
  <2>2. 0 \in Cookies /\ 0 \in 0 .. MaxLives
    BY LimitsAssumption DEF Cookies
  <2>3. QED
    BY <2>1, <2>2 DEF Init, ClientType, PortalType
<1>2. CallType
  BY ConfigAssumption, LimitsAssumption DEF Init, CallType, Stages, Outcomes, Cookies
<1>3. ASSUME NEW c \in Calls PROVE Counted(c) /\ Retried(c) /\ Guarded(c)
  BY DEF Init, Counted, Retried, Guarded
<1>4. QED
  BY <1>1, <1>2, <1>3 DEF IInv

LEMMA NextOK == IInv /\ [Next]_vars => IInv'
<1> SUFFICES ASSUME IInv, [Next]_vars PROVE IInv'
  OBVIOUS
<1>0. ClientType /\ PortalType
  BY DEF IInv
<1>1. CASE BrowserLogin
  BY <1>0, <1>1, LimitsAssumption, ClientStepOK
     DEF BrowserLogin, ClientType, PortalType, clientVars, Cookies
<1>2. ASSUME NEW s \in accepted, Expire(s) PROVE IInv'
  BY <1>0, <1>2, ClientStepOK DEF Expire, ClientType, PortalType, clientVars
<1>3. CASE FromCookie
  BY <1>3, FromCookieOK
<1>4. CASE Enter
  BY <1>0, <1>4, ClientStepOK DEF Enter, ClientType, PortalType, portalVars
<1>5. CASE Save
  BY <1>0, <1>5, ClientStepOK DEF Save, ClientType, PortalType, portalVars
<1>6. CASE Exit
  BY <1>0, <1>6, ClientStepOK DEF Exit, ClientType, PortalType, portalVars
<1>7. CASE ExitUnsaved
  BY <1>0, <1>7, ClientStepOK DEF ExitUnsaved, ClientType, PortalType, portalVars
<1>8. ASSUME NEW c \in Calls, CallNext(c) PROVE IInv'
  BY <1>8, CallOK, AdmittedOK, AnswerOK, BreakOK, SettleOK, ResendOK, CancelOK DEF CallNext
<1>9. CASE UNCHANGED vars
  BY <1>0, <1>9, ClientStepOK DEF vars, clientVars, portalVars, ClientType, PortalType
<1>10. QED
  BY <1>1, <1>2, <1>3, <1>4, <1>5, <1>6, <1>7, <1>8, <1>9 DEF Next

-------------------------------------------------------------------------------
LEMMA IInvBoundsEffects == IInv => EffectsBounded
<1> SUFFICES ASSUME IInv, NEW c \in Calls
             PROVE  effects[c] <= CASE c \in Journaling /\ "mutations" \notin options -> 0
                                    [] c \in Idempotent -> Retries + 1
                                    [] OTHER -> 1
  BY DEF EffectsBounded
<1>1. /\ effects[c] \in Nat /\ attempt[c] \in 0 .. Retries /\ effects[c] <= attempt[c] + 1
      /\ c \notin Idempotent => attempt[c] = 0
      /\ c \in Journaling /\ "mutations" \notin options => effects[c] = 0
  BY DEF IInv, CallType, Counted, Retried, Guarded
<1>2. CASE c \in Journaling /\ "mutations" \notin options
  BY <1>1, <1>2, CallsAssumption
<1>3. CASE c \in Idempotent
  BY <1>1, <1>3, CallsAssumption, ConfigAssumption
<1>4. CASE c \notin Idempotent /\ ~ (c \in Journaling /\ "mutations" \notin options)
  BY <1>1, <1>4
<1>5. QED
  BY <1>2, <1>3, <1>4

LEMMA IInvGivesUpLast == IInv => GivesUpLast
BY CallsAssumption DEF IInv, GivesUpLast, Retried, Retryable

(* The variables keep their types: no call makes more attempts than          *)
(* configured.                                                               *)
THEOREM TypeCorrect == Spec => []TypeOK
<1>1. QED
  BY InitOK, NextOK, IInvIsTypeOK, PTL DEF Spec

(* A write is executed at most once, a guarded journal write never, a read   *)
(* at most once per configured attempt.                                      *)
THEOREM EffectsAreBounded == Spec => []EffectsBounded
<1>1. QED
  BY InitOK, NextOK, IInvBoundsEffects, PTL DEF Spec

(* A call is sent again only if it is idempotent and only after what the     *)
(* policy knows, and the caller of a read sees a transient status or such an *)
(* exception only after all retries; an exception of httpx, the default      *)
(* session's network failure, is never retried.                              *)
THEOREM FailureIsLast == Spec => []GivesUpLast
<1>1. QED
  BY InitOK, NextOK, IInvGivesUpLast, PTL DEF Spec
===============================================================================
