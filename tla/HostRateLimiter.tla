---------------------------- MODULE HostRateLimiter ----------------------------
(***************************************************************************)
(* HostRateLimiter: a token bucket per host, shared by the tasks that send *)
(* requests.                                                               *)
(*                                                                         *)
(* Time is counted in ticks, Second of them to a second.  A rate is given  *)
(* by its cost, the ticks it takes to earn one token, so that rate_rps is  *)
(* Second/cost; a bucket of that rate earns one unit per tick, and cost    *)
(* units are a token.  Its capacity, max(1.0, rps) tokens, is then the     *)
(* larger of cost and Second, and consume() asks for a wait of exactly     *)
(* cost - tokens ticks.                                                    *)
(*                                                                         *)
(* acquire() suspends only in its sleep.  A sleeping task keeps the bucket *)
(* object it met; set_rate() and disable() put the object out of use, not  *)
(* out of existence, so buckets are numbered in the order they were made.  *)
(***************************************************************************)
EXTENDS Integers, Sequences, FiniteSets

CONSTANTS
  Tasks,       \* tasks that call acquire()
  Hosts,       \* the host keys they use
  Second,      \* ticks to a second
  Costs,       \* the rates in use, as ticks per token
  DefaultCost, \* the rate given to the constructor
  MaxTime,     \* bound: ticks until which calls begin
  MaxBuckets,  \* bound: bucket objects
  MaxOverlaps  \* bound: callers of a bucket that find another one asleep

Off == 0      \* rate None: limiting is disabled
Default == 1  \* no override for this host

ASSUME TasksAssumption == IsFiniteSet(Tasks)
ASSUME RatesAssumption ==
  /\ Second \in Nat \ {0}
  /\ Costs \subseteq Nat \ {0, 1}
  /\ DefaultCost \in Costs
ASSUME BoundAssumption == {MaxTime, MaxBuckets, MaxOverlaps} \subseteq Nat

VARIABLES
  clock,     \* time.monotonic()
  default,   \* _default_rps, as a cost, or Off
  override,  \* _overrides: a cost, Off, or Default when the host has none
  current,   \* _buckets: the number of the host's bucket, or 0
  buckets,   \* the bucket objects made so far
  held,      \* held[t]: the bucket a sleeping acquire() holds, 0 when not asleep
  until,     \* until[t]: when its sleep is over
  born, sent, overlaps
    \* history: when each bucket was made, how many callers it let through, and
    \* how many of them arrived while another one slept on it

settingVars == <<default, override>>
bucketVars == <<current, buckets, born, sent, overlaps>>
vars == <<clock, settingVars, bucketVars, held, until>>

Bucket == [cost : Costs, tokens : Nat, last : Nat]
Larger(a, b) == IF a > b THEN a ELSE b
Smaller(a, b) == IF a < b THEN a ELSE b
Capacity(cost) == Larger(cost, Second)
Made == DOMAIN buckets
Sleepers(b) == {t \in Tasks : held[t] = b}

-------------------------------------------------------------------------------
\* Mutant of Refilled: the tokens are not limited to the capacity.
RefilledUncapped(k) ==
  [cost |-> k.cost, tokens |-> k.tokens + (clock - k.last), last |-> clock]

\* _Bucket.refill()
Refilled(k) ==
  [cost |-> k.cost,
   tokens |-> Smaller(Capacity(k.cost), k.tokens + (clock - k.last)),
   last |-> clock]

Spent(k) == [cost |-> k.cost, tokens |-> k.tokens - k.cost, last |-> k.last]

\* Mutant of Consumed: a caller that must wait leaves last_refill as it was.
ConsumedStale(k) ==
  IF Refilled(k).tokens >= k.cost THEN Spent(Refilled(k))
                                  ELSE [Refilled(k) EXCEPT !.last = k.last]

\* _Bucket.consume(): the bucket it leaves ...
Consumed(k) ==
  IF Refilled(k).tokens >= k.cost THEN Spent(Refilled(k)) ELSE Refilled(k)
\* ... and the wait it returns.
Wait(k) == k.cost - Smaller(k.cost, Refilled(k).tokens)

Rate(h) == IF override[h] = Default THEN default ELSE override[h]

\* _bucket_for(): the number of the bucket of h, which may have to be made, ...
NumberFor(h) == IF current[h] = 0 THEN Len(buckets) + 1 ELSE current[h]
\* ... a fresh one starting full, ...
Fresh(cost) == [cost |-> cost, tokens |-> Capacity(cost), last |-> clock]
\* ... and the buckets there are then.
WithBucket(h) == IF current[h] = 0 THEN Append(buckets, Fresh(Rate(h))) ELSE buckets

\* acquire() on a host whose limiting is disabled.
Unlimited(t, h) ==
  /\ held[t] = 0 /\ clock < MaxTime
  /\ Rate(h) = Off
  /\ UNCHANGED vars

\* acquire() up to its sleep, or to its end when a token is there.
Acquire(t, h) ==
  /\ held[t] = 0 /\ clock < MaxTime
  /\ Rate(h) # Off
  /\ Len(WithBucket(h)) <= MaxBuckets
  /\ LET b == NumberFor(h)
         k == WithBucket(h)[b]
         new == current[h] = 0
         wait == Wait(k)
     IN /\ Sleepers(b) # {} => overlaps[b] < MaxOverlaps
        /\ buckets' = [WithBucket(h) EXCEPT ![b] = Consumed(k)]
        /\ current' = [current EXCEPT ![h] = b]
        /\ held' = [held EXCEPT ![t] = IF wait > 0 THEN b ELSE 0]
        /\ until' = [until EXCEPT ![t] = IF wait > 0 THEN clock + wait ELSE 0]
        /\ born' = IF new THEN Append(born, clock) ELSE born
        /\ sent' = [(IF new THEN Append(sent, 0) ELSE sent)
                      EXCEPT ![b] = @ + IF wait > 0 THEN 0 ELSE 1]
        /\ overlaps' = [(IF new THEN Append(overlaps, 0) ELSE overlaps)
                          EXCEPT ![b] = @ + IF Sleepers(b) = {} THEN 0 ELSE 1]
  /\ UNCHANGED <<clock, settingVars>>

\* Mutant of Wake: the token that was slept for is not consumed.
WakeWithoutToken(t) ==
  /\ held[t] # 0 /\ clock >= until[t]
  /\ sent' = [sent EXCEPT ![held[t]] = @ + 1]
  /\ held' = [held EXCEPT ![t] = 0]
  /\ until' = [until EXCEPT ![t] = 0]
  /\ UNCHANGED <<clock, settingVars, current, buckets, born, overlaps>>

\* The sleep is over, at the time asked for or later: the token is consumed and
\* acquire() returns, whatever consume() says.
Wake(t) ==
  /\ held[t] # 0 /\ clock >= until[t]
  /\ buckets' = [buckets EXCEPT ![held[t]] = Consumed(@)]
  /\ sent' = [sent EXCEPT ![held[t]] = @ + 1]
  /\ held' = [held EXCEPT ![t] = 0]
  /\ until' = [until EXCEPT ![t] = 0]
  /\ UNCHANGED <<clock, settingVars, current, born, overlaps>>

\* The sleeping task is cancelled.
Cancel(t) ==
  /\ held[t] # 0
  /\ held' = [held EXCEPT ![t] = 0]
  /\ until' = [until EXCEPT ![t] = 0]
  /\ UNCHANGED <<clock, settingVars, bucketVars>>

SetRate(h, cost) ==
  /\ override' = [override EXCEPT ![h] = cost]
  /\ current' = [current EXCEPT ![h] = 0]
  /\ UNCHANGED <<clock, default, buckets, born, sent, overlaps, held, until>>

Disable(h) ==
  /\ override' = [override EXCEPT ![h] = Off]
  /\ current' = [current EXCEPT ![h] = 0]
  /\ UNCHANGED <<clock, default, buckets, born, sent, overlaps, held, until>>

\* disable(None): hosts with a rate of their own stay limited.
DisableAll ==
  /\ default' = Off
  /\ current' = [h \in Hosts |-> 0]
  /\ UNCHANGED <<clock, override, buckets, born, sent, overlaps, held, until>>

\* Time passes; sleeps can still end after the last call has begun.
Tick ==
  /\ clock < MaxTime \/ \E t \in Tasks : held[t] # 0 /\ clock < until[t]
  /\ clock' = clock + 1
  /\ UNCHANGED <<settingVars, bucketVars, held, until>>

Init ==
  /\ clock = 0
  /\ default = DefaultCost
  /\ override = [h \in Hosts |-> Default]
  /\ current = [h \in Hosts |-> 0]
  /\ buckets = << >>
  /\ held = [t \in Tasks |-> 0]
  /\ until = [t \in Tasks |-> 0]
  /\ born = << >> /\ sent = << >> /\ overlaps = << >>

Next ==
  \/ \E t \in Tasks, h \in Hosts : Unlimited(t, h) \/ Acquire(t, h)
  \/ \E t \in Tasks : Wake(t) \/ Cancel(t)
  \/ \E h \in Hosts, cost \in Costs : SetRate(h, cost)
  \/ \E h \in Hosts : Disable(h)
  \/ DisableAll
  \/ Tick

Spec == Init /\ [][Next]_vars

-------------------------------------------------------------------------------
(* Properties. *)

\* The variables have their types, and no bucket holds more than its capacity.
TypeOK ==
  /\ clock \in Nat
  /\ default \in Costs \cup {Off}
  /\ override \in [Hosts -> Costs \cup {Off, Default}]
  /\ buckets \in Seq(Bucket)
  /\ \A b \in Made : buckets[b].tokens <= Capacity(buckets[b].cost) /\ buckets[b].last <= clock
  /\ current \in [Hosts -> Made \cup {0}]
  /\ held \in [Tasks -> Made \cup {0}]
  /\ until \in [Tasks -> Nat]
  /\ \A s \in {born, sent, overlaps} : s \in Seq(Nat) /\ Len(s) = Len(buckets)

\* What a bucket may have let through since it was made: a full bucket's worth,
\* and a token for every `cost' ticks.
Allowance(b) == Capacity(buckets[b].cost) + (clock - born[b])

\* token_bucket.py:6-8: acquire() "blocks until a token is available"; config.py:29:
\* "per-host request rate cap".  A bucket lets no more callers through than it
\* earned tokens for.
RateCap == \A b \in Made : sent[b] * buckets[b].cost <= Allowance(b)

\* What is left of the cap: each caller that found another one asleep on the bucket
\* costs at most one request above it, whatever the order of late wake-ups, callers
\* that overtake sleepers, cancellations and changes of the rate.  (One caller at a
\* time keeps the cap.)
OverrunBounded ==
  \A b \in Made : (sent[b] - Smaller(sent[b], overlaps[b])) * buckets[b].cost <= Allowance(b)

\* Why: a sleeper is due its token as long as nobody took one since it, and those it
\* sleeps with, met the bucket; all others are covered by an overlap.
Due(b) ==
  /\ Sleepers(b) # {}
  /\ \A t \in Sleepers(b) :
       until[t] + buckets[b].tokens >= buckets[b].last + buckets[b].cost
Spare(b) == overlaps[b] + (IF Due(b) THEN 1 ELSE 0) - Cardinality(Sleepers(b))
Balance ==
  \A b \in Made :
    LET k == buckets[b]
    IN /\ born[b] <= k.last /\ k.last <= clock
       /\ Spare(b) >= 0
       /\ sent[b] * k.cost + k.tokens <= Capacity(k.cost) + (k.last - born[b]) + Spare(b) * k.cost
===============================================================================
