------------------------- MODULE CircuitBreaker_proofs -------------------------
(***************************************************************************)
(* Proofs about CircuitBreaker, for any set of tasks, targets and keys,    *)
(* any table of which key covers which target, and any threshold and       *)
(* recovery time.                                                          *)
(***************************************************************************)
EXTENDS CircuitBreaker, TLAPS, WellFoundedInduction

(* Among the positions of a sequence that satisfy a condition there is a     *)
(* first one.                                                                *)
LEMMA FirstPosition ==
  ASSUME NEW P \in SUBSET Nat, P # {}
  PROVE  \E i \in P : \A j \in P : i <= j
<1>1. PICK i \in P : \A j \in P : ~ (<<j, i>> \in OpToRel(<, Nat))
  BY WFMin, NatLessThanWellFounded
<1>2. \A j \in P : ~ (j < i)
  BY <1>1 DEF OpToRel
<1>3. QED
  BY <1>2

(* _key_for() finds a registered key, enrolls one, or finds none.            *)
LEMMA KeyForType ==
  ASSUME registered \in Seq(Keys), NEW r \in Targets
  PROVE  KeyFor(r) \in Keys \cup {NoKey}
<1> DEFINE P == {i \in DOMAIN registered : r \in Covers[registered[i]]}
<1>1. Registered \subseteq Keys
  BY DEF Registered, ToSet
<1>2. CASE P # {}
  <2>1. DOMAIN registered \subseteq Nat
    OBVIOUS
  <2>2. PICK i \in P : \A j \in P : i <= j
    <3>1. P \in SUBSET Nat
      BY <2>1
    <3> HIDE DEF P
    <3> QED BY <1>2, <3>1, FirstPosition
  <2>3. /\ i \in DOMAIN registered
        /\ r \in Covers[registered[i]]
        /\ \A j \in DOMAIN registered : r \in Covers[registered[j]] => i <= j
    BY <2>2
  <2>4. FirstCover(r) \in Keys
    BY <2>3 DEF FirstCover
  <2>5. QED
    BY <1>1, <2>4, KeysAssumption DEF KeyFor
<1>3. CASE P = {}
  <2>1. ~ \E k \in Registered : r \in Covers[k]
    BY <1>3 DEF Registered, ToSet
  <2>2. QED
    BY <1>1, <2>1, KeysAssumption DEF KeyFor
<1>4. QED
  BY <1>2, <1>3

-------------------------------------------------------------------------------
(* What an update of one entry and an enrolment on the way leave behind.     *)

EntryTypeOK ==
  /\ state \in [Keys -> {"closed", "open", "half_open"}]
  /\ failure_count \in [Keys -> 0 .. Threshold]
  /\ since_failure \in [Keys -> 0 .. Recovery]
  /\ since_probe \in [Keys -> 0 .. Recovery]

RegisteredOK == registered \in Seq(Keys) /\ IsInjective(registered)

TasksOK ==
  /\ target \in [Tasks -> Targets \cup {NoTarget}]
  /\ probing \in [Tasks -> Keys \cup {NoKey}]

LEMMA TypeParts == TypeOK <=> RegisteredOK /\ EntryTypeOK /\ TasksOK
BY DEF TypeOK, RegisteredOK, EntryTypeOK, TasksOK

(* A new state is legal with the new count when it is closed exactly below   *)
(* the threshold.                                                            *)
LEMMA EntryStep ==
  ASSUME EntryTypeOK, ClosedIffBelowThreshold, NEW k \in Keys,
         NEW st \in {"closed", "open", "half_open"}, NEW count \in 0 .. Threshold,
         NEW failed \in 0 .. Recovery, NEW probed \in 0 .. Recovery,
         st = "closed" <=> count < Threshold,
         Entry(k, st, count, failed, probed)
  PROVE  EntryTypeOK' /\ ClosedIffBelowThreshold'
BY DEF EntryTypeOK, ClosedIffBelowThreshold, Entry

LEMMA AppendKey ==
  ASSUME RegisteredOK, NEW k \in Keys, k \notin Registered,
         registered' = Append(registered, k)
  PROVE  RegisteredOK'
<1>1. registered' \in Seq(Keys) /\ Len(registered') = Len(registered) + 1
  BY DEF RegisteredOK
<1>2. \A i \in DOMAIN registered :
        registered'[i] = registered[i] /\ registered[i] \in Registered
  BY DEF RegisteredOK, Registered, ToSet
<1>3. registered'[Len(registered) + 1] = k
  BY DEF RegisteredOK
<1>4. ASSUME NEW i \in DOMAIN registered', NEW j \in DOMAIN registered',
             registered'[i] = registered'[j]
      PROVE  i = j
  <2>1. /\ i \in DOMAIN registered \/ i = Len(registered) + 1
        /\ j \in DOMAIN registered \/ j = Len(registered) + 1
    BY <1>1 DEF RegisteredOK
  <2>2. QED
    BY <1>2, <1>3, <1>4, <2>1 DEF RegisteredOK, IsInjective
<1>5. QED
  BY <1>1, <1>4 DEF RegisteredOK, IsInjective

LEMMA EnrollStep ==
  ASSUME RegisteredOK, NEW k \in Keys \cup {NoKey}, EnrollFor(k)
  PROVE  RegisteredOK'
<1>1. CASE k \in Registered \cup {NoKey}
  BY <1>1 DEF EnrollFor, RegisteredOK
<1>2. CASE k \notin Registered \cup {NoKey}
  BY <1>2, AppendKey DEF EnrollFor
<1>3. QED
  BY <1>1, <1>2

LEMMA OlderType ==
  ASSUME NEW since \in [Keys -> 0 .. Recovery]
  PROVE  Older(since) \in [Keys -> 0 .. Recovery]
BY BreakerAssumption DEF Older, Smaller

-------------------------------------------------------------------------------
(* The invariant.  That a closed circuit is below the threshold depends on   *)
(* that a circuit which is not closed has reached it: a probe inherits the   *)
(* count of the open circuit, so one more failure cannot leave it half-open  *)
(* or close it.                                                              *)
IInv == TypeOK /\ ClosedIffBelowThreshold

LEMMA InitOK == Init => IInv
<1> SUFFICES ASSUME Init PROVE IInv
  OBVIOUS
<1>1. EntryTypeOK /\ ClosedIffBelowThreshold
  BY BreakerAssumption DEF Init, EntryTypeOK, ClosedIffBelowThreshold
<1>2. RegisteredOK
  BY DEF Init, RegisteredOK, IsInjective
<1>3. TasksOK
  BY DEF Init, TasksOK
<1>4. QED
  BY <1>1, <1>2, <1>3, TypeParts DEF IInv

LEMMA NextOK == IInv /\ [Next]_vars => IInv'
<1> SUFFICES ASSUME IInv, [Next]_vars PROVE IInv'
  OBVIOUS
<1>0. /\ RegisteredOK /\ EntryTypeOK /\ TasksOK /\ ClosedIffBelowThreshold
      /\ registered \in Seq(Keys)
      /\ Threshold \in Nat \ {0} /\ Recovery \in Nat \ {0}
  BY TypeParts, BreakerAssumption DEF IInv, RegisteredOK
<1>a. SUFFICES RegisteredOK' /\ EntryTypeOK' /\ TasksOK' /\ ClosedIffBelowThreshold'
  BY TypeParts DEF IInv, TypeOK, RegisteredOK, EntryTypeOK, TasksOK
<1>b. UNCHANGED registered => RegisteredOK'
  BY <1>0 DEF RegisteredOK
<1>c. UNCHANGED entryVars => EntryTypeOK' /\ ClosedIffBelowThreshold'
  BY <1>0 DEF entryVars, EntryTypeOK, ClosedIffBelowThreshold
<1>d. UNCHANGED taskVars => TasksOK'
  BY <1>0 DEF taskVars, TasksOK
<1>e. ASSUME NEW t \in Tasks, NEW r \in Targets, NEW k \in Keys \cup {NoKey},
             Launched(t, r, k)
      PROVE  TasksOK'
  BY <1>0, <1>e DEF Launched, TasksOK
<1>f. ASSUME NEW t \in Tasks, Landed(t)
      PROVE  TasksOK'
  BY <1>0, <1>f DEF Landed, TasksOK
<1>1. ASSUME NEW k \in Keys, Enroll(k)
      PROVE  RegisteredOK' /\ EntryTypeOK' /\ TasksOK' /\ ClosedIffBelowThreshold'
  BY <1>0, <1>1, <1>c, <1>d, AppendKey DEF Enroll
<1>2. ASSUME NEW t \in Tasks, NEW r \in Targets, BeforeCall(t, r)
      PROVE  RegisteredOK' /\ EntryTypeOK' /\ TasksOK' /\ ClosedIffBelowThreshold'
  <2> DEFINE k == KeyFor(r)
  <2>0. k \in Keys \cup {NoKey}
    BY <1>0, KeyForType
  <2> HIDE DEF k
  <2>1. CASE PassThrough(t, r)
    <3>1. EnrollFor(k) /\ Launched(t, r, NoKey) /\ UNCHANGED entryVars
      BY <2>1 DEF PassThrough, k
    <3>2. QED
      BY <1>0, <1>c, <1>e, <2>0, <3>1, EnrollStep
  <2>2. CASE Probe(t, r)
    <3>1. /\ k \in Keys /\ state[k] = "open"
          /\ EnrollFor(k) /\ Launched(t, r, k)
          /\ Entry(k, "half_open", failure_count[k], since_failure[k], 0)
      BY <2>0, <2>2 DEF Probe, k
    <3>2. failure_count[k] \in 0 .. Threshold /\ since_failure[k] \in 0 .. Recovery
      BY <1>0, <3>1 DEF EntryTypeOK
    <3>3. ~ (failure_count[k] < Threshold)
      BY <1>0, <3>1 DEF ClosedIffBelowThreshold
    <3>4. EntryTypeOK' /\ ClosedIffBelowThreshold'
      BY <1>0, <3>1, <3>2, <3>3, EntryStep
    <3>5. QED
      BY <1>0, <1>e, <2>0, <3>1, <3>4, EnrollStep
  <2>3. CASE Reject(t, r)
    BY <1>b, <1>c, <1>d, <2>3 DEF Reject, vars
  <2>4. CASE JoinProbe(t, r)
    <3>1. Launched(t, r, k) /\ UNCHANGED <<registered, entryVars>>
      BY <2>4 DEF JoinProbe, k
    <3>2. QED
      BY <1>b, <1>c, <1>e, <2>0, <3>1
  <2>5. CASE Reopen(t, r)
    <3>1. /\ k \in Keys /\ state[k] = "half_open"
          /\ Entry(k, "open", failure_count[k], 0, since_probe[k])
          /\ UNCHANGED <<registered, taskVars>>
      BY <2>0, <2>5 DEF Reopen, k
    <3>2. failure_count[k] \in 0 .. Threshold /\ since_probe[k] \in 0 .. Recovery
      BY <1>0, <3>1 DEF EntryTypeOK
    <3>3. ~ (failure_count[k] < Threshold)
      BY <1>0, <3>1 DEF ClosedIffBelowThreshold
    <3>4. EntryTypeOK' /\ ClosedIffBelowThreshold'
      BY <1>0, <3>1, <3>2, <3>3, EntryStep
    <3>5. QED
      BY <1>b, <1>d, <3>1, <3>4
  <2>6. QED
    BY <1>2, <2>1, <2>2, <2>3, <2>4, <2>5 DEF BeforeCall
<1>3. ASSUME NEW t \in Tasks, Success(t) \/ Failure(t)
      PROVE  RegisteredOK' /\ EntryTypeOK' /\ TasksOK' /\ ClosedIffBelowThreshold'
  <2> DEFINE k == KeyFor(target[t])
  <2>0. target[t] \in Targets /\ Landed(t) /\ EnrollFor(k)
    BY <1>0, <1>3 DEF Success, Failure, TasksOK
  <2>1. k \in Keys \cup {NoKey}
    BY <1>0, <2>0, KeyForType
  <2> HIDE DEF k
  <2>2. EntryTypeOK' /\ ClosedIffBelowThreshold'
    <3>1. CASE k = NoKey
      BY <1>3, <1>c, <3>1 DEF Success, Failure, k
    <3>2. CASE k # NoKey /\ Success(t)
      <4>1. Entry(k, "closed", 0, since_failure[k], since_probe[k])
        BY <3>2 DEF Success, k
      <4>2. since_failure[k] \in 0 .. Recovery /\ since_probe[k] \in 0 .. Recovery
        BY <1>0, <2>1, <3>2 DEF EntryTypeOK
      <4>3. QED
        BY <1>0, <2>1, <3>2, <4>1, <4>2, EntryStep
    <3>3. CASE k # NoKey /\ Failure(t)
      <4> DEFINE st == IF Opens(k) THEN "open" ELSE state[k]
                 count == Smaller(failure_count[k] + 1, Threshold)
      <4>1. Entry(k, st, count, 0, since_probe[k])
        BY <3>3 DEF Failure, k
      <4>2. /\ state[k] \in {"closed", "open", "half_open"}
            /\ failure_count[k] \in 0 .. Threshold
            /\ since_probe[k] \in 0 .. Recovery
            /\ state[k] = "closed" <=> failure_count[k] < Threshold
        BY <1>0, <2>1, <3>3 DEF EntryTypeOK, ClosedIffBelowThreshold
      <4>3. count \in 0 .. Threshold /\ st \in {"closed", "open", "half_open"}
        BY <1>0, <4>2 DEF Smaller
      <4>4. st = "closed" <=> count < Threshold
        BY <1>0, <4>2 DEF Smaller, Opens
      <4> HIDE DEF st, count
      <4>5. QED
        BY <1>0, <2>1, <3>3, <4>1, <4>2, <4>3, <4>4, EntryStep
    <3>4. QED
      BY <1>3, <3>1, <3>2, <3>3
  <2>3. QED
    BY <1>0, <1>f, <2>0, <2>1, <2>2, EnrollStep
<1>4. ASSUME NEW t \in Tasks, Cancel(t)
      PROVE  RegisteredOK' /\ EntryTypeOK' /\ TasksOK' /\ ClosedIffBelowThreshold'
  BY <1>b, <1>c, <1>f, <1>4 DEF Cancel
<1>5. ASSUME NEW r \in Targets, Reset(r)
      PROVE  RegisteredOK' /\ EntryTypeOK' /\ TasksOK' /\ ClosedIffBelowThreshold'
  <2> DEFINE k == KeyFor(r)
  <2>1. k \in Keys \cup {NoKey}
    BY <1>0, KeyForType
  <2>2. /\ k # NoKey /\ EnrollFor(k) /\ UNCHANGED taskVars
        /\ Entry(k, "closed", 0, Recovery, Recovery)
    BY <1>5 DEF Reset
  <2> HIDE DEF k
  <2>3. QED
    BY <1>0, <1>d, <2>1, <2>2, EnrollStep, EntryStep
<1>6. CASE Tick
  <2>1. /\ UNCHANGED <<registered, state, failure_count, taskVars>>
        /\ since_failure' \in [Keys -> 0 .. Recovery]
        /\ since_probe' \in [Keys -> 0 .. Recovery]
    BY <1>0, <1>6, OlderType DEF Tick, EntryTypeOK
  <2>2. QED
    BY <1>0, <1>b, <1>d, <2>1 DEF EntryTypeOK, ClosedIffBelowThreshold
<1>7. CASE UNCHANGED vars
  BY <1>7, <1>b, <1>c, <1>d DEF vars
<1>8. QED
  BY <1>1, <1>2, <1>3, <1>4, <1>5, <1>6, <1>7 DEF Next

(* The entries of all circuits and the list of them have their types, in     *)
(* every behaviour of any number of tasks.                                   *)
THEOREM TypeCorrect == Spec => []TypeOK
<1>1. IInv => TypeOK
  BY DEF IInv
<1>2. QED
  BY InitOK, NextOK, <1>1, PTL DEF Spec

(* A circuit is closed exactly while the failures reported since its last    *)
(* success or reset are fewer than the threshold: no order of late reports,  *)
(* probes and resets opens it early or keeps it closed.                      *)
THEOREM ClosedBelowThreshold == Spec => []ClosedIffBelowThreshold
<1>1. IInv => ClosedIffBelowThreshold
  BY DEF IInv
<1>2. QED
  BY InitOK, NextOK, <1>1, PTL DEF Spec
===============================================================================
