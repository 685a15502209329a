----------------------------- MODULE CircuitBreaker ----------------------------
(***************************************************************************)
(* CircuitBreaker: one circuit per registered (host, path prefix), used by *)
(* tasks that call before_call(), make their request, and report           *)
(* on_success() or on_failure(), as the module's docstring shows.          *)
(*                                                                         *)
(* A key stands for a registered (host, path prefix), a target for the     *)
(* (host, path) of a request.  Only differences of monotonic times are     *)
(* ever compared, and only with recovery_s: the model keeps for each       *)
(* circuit the ticks since last_failure_at and last_probe_at, up to        *)
(* Recovery.  Likewise failure_count is only ever compared with            *)
(* failure_threshold, and counts up to Threshold here.                     *)
(***************************************************************************)
EXTENDS Naturals, Sequences, FiniteSets, SequencesExt

CONSTANTS
  Tasks,      \* tasks that make guarded requests
  Targets,    \* the (host, path) pairs they address
  Keys,       \* the (host, path prefix) pairs that may be registered
  NoKey,      \* None: no circuit, no request
  Exact,      \* Exact[r]: the key equal to target r, or NoKey
  Covers,     \* Covers[k]: targets on the host of k whose path starts with its prefix
  DefaultKey, \* DefaultKey[r]: (host, "/") when the host is in enrolled_hosts, or NoKey
  Threshold,  \* failure_threshold
  Recovery    \* recovery_s, in ticks

ASSUME KeysAssumption ==
  /\ NoKey \notin Keys \cup Targets
  /\ Exact \in [Targets -> Keys \cup {NoKey}]
  /\ Covers \in [Keys -> SUBSET Targets]
  /\ DefaultKey \in [Targets -> Keys \cup {NoKey}]
ASSUME BreakerAssumption == Threshold \in Nat \ {0} /\ Recovery \in Nat \ {0}

VARIABLES
  registered, \* _circuits: the keys in the order they were enrolled
  state, failure_count, since_failure, since_probe,
              \* the fields of each circuit's entry
  target,     \* target[t]: the request t has under way, or NoTarget
  probing     \* history: probing[t]: the half-open circuit that let t through

entryVars == <<state, failure_count, since_failure, since_probe>>
taskVars == <<target, probing>>

NoTarget == NoKey
vars == <<registered, entryVars, taskVars>>

-------------------------------------------------------------------------------
Registered == ToSet(registered)
Smaller(a, b) == IF a < b THEN a ELSE b

\* The first registered key that covers target r, in the order of enrolment.
FirstCover(r) ==
  registered[CHOOSE i \in DOMAIN registered :
    /\ r \in Covers[registered[i]]
    /\ \A j \in DOMAIN registered : r \in Covers[registered[j]] => i <= j]

\* _key_for(): an exact match, else the first prefix, else the enrolled host.
KeyFor(r) ==
  IF Exact[r] \in Registered THEN Exact[r]
  ELSE IF \E k \in Registered : r \in Covers[k] THEN FirstCover(r)
  ELSE DefaultKey[r]

\* Mutant of EnrollFor: what is enrolled already is enrolled again.
EnrollAgain(k) ==
  registered' = IF k = NoKey THEN registered ELSE Append(registered, k)

\* enroll(), as _key_for() calls it on the way.
EnrollFor(k) ==
  registered' = IF k \in Registered \cup {NoKey} THEN registered ELSE Append(registered, k)

\* What follows in the entry of a circuit that is registered and one that is not.
Entry(k, st, count, failed, probed) ==
  /\ state' = [state EXCEPT ![k] = st]
  /\ failure_count' = [failure_count EXCEPT ![k] = count]
  /\ since_failure' = [since_failure EXCEPT ![k] = failed]
  /\ since_probe' = [since_probe EXCEPT ![k] = probed]

Launched(t, r, k) ==
  /\ target' = [target EXCEPT ![t] = r]
  /\ probing' = [probing EXCEPT ![t] = k]

Landed(t) ==
  /\ target' = [target EXCEPT ![t] = NoTarget]
  /\ probing' = [probing EXCEPT ![t] = NoKey]

Enroll(k) ==
  /\ k \notin Registered
  /\ registered' = Append(registered, k)
  /\ UNCHANGED <<entryVars, taskVars>>

\* before_call() on a target without a circuit, or with a closed one.
PassThrough(t, r) ==
  /\ target[t] = NoTarget
  /\ LET k == KeyFor(r)
     IN /\ k # NoKey => state[k] = "closed"
        /\ EnrollFor(k)
  /\ Launched(t, r, NoKey)
  /\ UNCHANGED entryVars

\* before_call() on an open circuit whose recovery time is over.
Probe(t, r) ==
  /\ target[t] = NoTarget
  /\ LET k == KeyFor(r)
     IN /\ k # NoKey /\ state[k] = "open" /\ since_failure[k] >= Recovery
        /\ EnrollFor(k)
        /\ Entry(k, "half_open", failure_count[k], since_failure[k], 0)
        /\ Launched(t, r, k)

\* before_call() on an open circuit before that: BreakerOpen.
Reject(t, r) ==
  /\ target[t] = NoTarget
  /\ LET k == KeyFor(r)
     IN k # NoKey /\ state[k] = "open" /\ since_failure[k] < Recovery
  /\ UNCHANGED vars

\* before_call() on a half-open circuit in its probe window.
JoinProbe(t, r) ==
  /\ target[t] = NoTarget
  /\ LET k == KeyFor(r)
     IN /\ k # NoKey /\ state[k] = "half_open" /\ since_probe[k] < Recovery
        /\ Launched(t, r, k)
  /\ UNCHANGED <<registered, entryVars>>

\* Mutant of Reopen: an expired probe window changes nothing.
ReopenNothing(t, r) ==
  /\ target[t] = NoTarget
  /\ LET k == KeyFor(r)
     IN k # NoKey /\ state[k] = "half_open" /\ since_probe[k] >= Recovery
  /\ UNCHANGED vars

\* before_call() on a half-open circuit after it: the circuit opens again.
Reopen(t, r) ==
  /\ target[t] = NoTarget
  /\ LET k == KeyFor(r)
     IN /\ k # NoKey /\ state[k] = "half_open" /\ since_probe[k] >= Recovery
        /\ Entry(k, "open", failure_count[k], 0, since_probe[k])
  /\ UNCHANGED <<registered, taskVars>>

\* The request succeeded: on_success().
Success(t) ==
  /\ target[t] # NoTarget
  /\ LET k == KeyFor(target[t])
     IN /\ EnrollFor(k)
        /\ IF k = NoKey
             THEN UNCHANGED entryVars
             ELSE Entry(k, "closed", 0, since_failure[k], since_probe[k])
  /\ Landed(t)

\* Mutant of Opens: off by one.
OpensLate(k) == failure_count[k] >= Threshold \/ state[k] = "half_open"

\* Whether one more failure opens the circuit.
Opens(k) == failure_count[k] + 1 >= Threshold \/ state[k] = "half_open"

\* The request failed: on_failure().
Failure(t) ==
  /\ target[t] # NoTarget
  /\ LET k == KeyFor(target[t])
     IN /\ EnrollFor(k)
        /\ IF k = NoKey
             THEN UNCHANGED entryVars
             ELSE Entry(k, IF Opens(k) THEN "open" ELSE state[k],
                        Smaller(failure_count[k] + 1, Threshold), 0, since_probe[k])
  /\ Landed(t)

\* The task is cancelled: CancelledError is no Exception, nothing is reported.
Cancel(t) ==
  /\ target[t] # NoTarget
  /\ Landed(t)
  /\ UNCHANGED <<registered, entryVars>>

\* reset(): a new entry, which is closed and never failed.
Reset(r) ==
  LET k == KeyFor(r)
  IN /\ k # NoKey
     /\ EnrollFor(k)
     /\ Entry(k, "closed", 0, Recovery, Recovery)
     /\ UNCHANGED taskVars

Older(since) == [k \in Keys |-> Smaller(since[k] + 1, Recovery)]

Tick ==
  /\ since_failure' = Older(since_failure)
  /\ since_probe' = Older(since_probe)
  /\ UNCHANGED <<registered, state, failure_count, taskVars>>

Init ==
  /\ registered = << >>
  /\ state = [k \in Keys |-> "closed"]
  /\ failure_count = [k \in Keys |-> 0]
  /\ since_failure = [k \in Keys |-> Recovery]
  /\ since_probe = [k \in Keys |-> Recovery]
  /\ target = [t \in Tasks |-> NoTarget]
  /\ probing = [t \in Tasks |-> NoKey]

BeforeCall(t, r) ==
  PassThrough(t, r) \/ Probe(t, r) \/ Reject(t, r) \/ JoinProbe(t, r) \/ Reopen(t, r)

Next ==
  \/ \E k \in Keys : Enroll(k)
  \/ \E t \in Tasks, r \in Targets : BeforeCall(t, r)
  \/ \E t \in Tasks : Success(t) \/ Failure(t) \/ Cancel(t)
  \/ \E r \in Targets : Reset(r)
  \/ Tick

Spec == Init /\ [][Next]_vars

\* Time passes, requests end, and the application asks again and again for each
\* target, whatever else it does meanwhile.
FairSpec ==
  /\ Spec
  /\ WF_vars(Tick)
  /\ \A t \in Tasks : WF_vars(Success(t) \/ Failure(t) \/ Cancel(t))
  /\ \A r \in Targets : SF_vars(\E t \in Tasks : Probe(t, r) \/ Reopen(t, r))

-------------------------------------------------------------------------------
(* Properties. *)

\* The variables have their types; no key is registered twice.
TypeOK ==
  /\ registered \in Seq(Keys) /\ IsInjective(registered)
  /\ state \in [Keys -> {"closed", "open", "half_open"}]
  /\ failure_count \in [Keys -> 0 .. Threshold]
  /\ {since_failure, since_probe} \subseteq [Keys -> 0 .. Recovery]
  /\ target \in [Tasks -> Targets \cup {NoTarget}]
  /\ probing \in [Tasks -> Keys \cup {NoKey}]

\* A circuit is closed exactly while fewer than failure_threshold failures were
\* reported since the last success or reset, in whatever order the reports of
\* concurrent calls, of calls let through before it opened, and of probes arrive.
ClosedIffBelowThreshold ==
  \A k \in Keys : state[k] = "closed" <=> failure_count[k] < Threshold

\* A circuit on which a target falls for good does not stay open for ever, nor
\* half-open: not when its probe is cancelled or its answer never reported, and
\* not for the failures that keep coming in from before it opened.
NeverStuck ==
  \A r \in Targets : Exact[r] # NoKey =>
    /\ state[Exact[r]] = "open" ~> state[Exact[r]] # "open"
    /\ state[Exact[r]] = "half_open" ~> state[Exact[r]] # "half_open"

\* breaker.py:43 "recovery probe: one request allowed", breaker.py:140 "only one
\* probe at a time".
OneProbe ==
  \A k \in Keys : \A t, u \in Tasks : probing[t] = k /\ probing[u] = k => t = u
===============================================================================
