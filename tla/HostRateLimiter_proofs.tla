------------------------ MODULE HostRateLimiter_proofs ------------------------
(***************************************************************************)
(* Proofs about HostRateLimiter, for any number of tasks and hosts, any    *)
(* rates and any behaviour of the clock: how far a bucket can exceed its   *)
(* rate.                                                                   *)
(***************************************************************************)
EXTENDS HostRateLimiter, TLAPS, FiniteSetTheorems, SequenceTheorems

(* Arithmetic of tokens. *)
LEMMA TimesSucc ==
  ASSUME NEW a \in Int, NEW c \in Int
  PROVE  (a + 1) * c = a * c + c
OBVIOUS

LEMMA TimesMono ==
  ASSUME NEW a \in Int, NEW b \in Int, a <= b, NEW c \in Nat
  PROVE  a * c <= b * c
<1>1. PICK d \in Nat : b = a + d
  BY b - a \in Nat
<1>2. b * c = a * c + d * c
  BY <1>1
<1>3. d * c >= 0
  OBVIOUS
<1>4. QED
  BY <1>2, <1>3

LEMMA CapacityType ==
  ASSUME NEW c \in Costs
  PROVE  Capacity(c) \in Nat /\ c <= Capacity(c) /\ c \in Nat \ {0, 1}
BY RatesAssumption DEF Capacity, Larger

-------------------------------------------------------------------------------
(* What consume() does to a bucket that is in order.                         *)
InOrder(k) == k \in Bucket /\ k.last <= clock /\ k.tokens <= Capacity(k.cost)

LEMMA ConsumeFacts ==
  ASSUME clock \in Nat, NEW k, InOrder(k)
  PROVE  LET new == Consumed(k)
             earned == k.tokens + (clock - k.last)
         IN /\ new \in Bucket /\ new.tokens <= Capacity(new.cost)
            /\ new.cost = k.cost /\ new.last = clock
            /\ Wait(k) \in Nat
            /\ Wait(k) = 0 => new.tokens + k.cost <= earned
            /\ Wait(k) # 0 => /\ new.tokens = earned /\ earned < k.cost
                              /\ Wait(k) = k.cost - earned
<1>1. /\ k.cost \in Costs /\ k.tokens \in Nat /\ k.last \in Nat
      /\ k = [cost |-> k.cost, tokens |-> k.tokens, last |-> k.last]
  BY DEF InOrder, Bucket
<1> DEFINE full == Smaller(Capacity(k.cost), k.tokens + (clock - k.last))
<1>2. /\ full \in Nat /\ full <= Capacity(k.cost)
      /\ full <= k.tokens + (clock - k.last)
      /\ full < k.cost => full = k.tokens + (clock - k.last)
  BY <1>1, CapacityType DEF Smaller, InOrder
<1>3. Refilled(k) = [cost |-> k.cost, tokens |-> full, last |-> clock]
  BY DEF Refilled
<1>4. CASE full >= k.cost
  <2>1. Consumed(k) = [cost |-> k.cost, tokens |-> full - k.cost, last |-> clock]
    BY <1>3, <1>4 DEF Consumed, Spent
  <2>2. Wait(k) = 0
    BY <1>1, <1>2, <1>3, <1>4, CapacityType DEF Wait, Smaller
  <2> HIDE DEF full
  <2>3. QED
    BY <1>1, <1>2, <1>4, <2>1, <2>2, CapacityType DEF Bucket
<1>5. CASE ~ (full >= k.cost)
  <2>1. Consumed(k) = [cost |-> k.cost, tokens |-> full, last |-> clock]
    BY <1>3, <1>5 DEF Consumed
  <2>2. Wait(k) = k.cost - full
    BY <1>1, <1>2, <1>3, <1>5, CapacityType DEF Wait, Smaller
  <2> HIDE DEF full
  <2>3. QED
    BY <1>1, <1>2, <1>5, <2>1, <2>2, CapacityType DEF Bucket
<1>6. QED
  BY <1>4, <1>5

-------------------------------------------------------------------------------
(* The balance of one bucket k, with its history and the set S of tasks that *)
(* sleep on it until the times u.                                            *)
DueTo(k, S, u) ==
  S # {} /\ \A t \in S : u[t] + k.tokens >= k.last + k.cost
SpareOf(k, o, S, u) == o + (IF DueTo(k, S, u) THEN 1 ELSE 0) - Cardinality(S)
Balanced(k, b, n, o, S, u) ==
  /\ b <= k.last
  /\ SpareOf(k, o, S, u) >= 0
  /\ n * k.cost + k.tokens
       <= Capacity(k.cost) + (k.last - b) + SpareOf(k, o, S, u) * k.cost

(* A step keeps the balance if it spends no more than was earned and the     *)
(* spare requests grow with what was spent above that.                       *)
LEMMA KeepBalance ==
  ASSUME NEW now \in Nat, NEW k, InOrder(k), k.last <= now,
         NEW new \in Bucket, new.cost = k.cost, new.last = now,
         NEW b \in Nat, NEW n \in Nat, NEW o \in Nat, NEW o2 \in Nat, NEW S, NEW S2,
         NEW u, NEW u2, IsFiniteSet(S), IsFiniteSet(S2), NEW extra \in {0, 1},
         NEW passed \in {0, 1},
         Balanced(k, b, n, o, S, u),
         SpareOf(new, o2, S2, u2) >= SpareOf(k, o, S, u) + extra,
         new.tokens + (passed - extra) * k.cost <= k.tokens + (now - k.last)
  PROVE  Balanced(new, b, n + passed, o2, S2, u2)
<1> DEFINE s1 == SpareOf(k, o, S, u)
           s2 == SpareOf(new, o2, S2, u2)
           c == k.cost
<1>1. /\ c \in Nat /\ k.last \in Nat /\ k.tokens \in Nat /\ new.tokens \in Nat
      /\ Capacity(c) \in Nat /\ k.last <= now
  BY CapacityType DEF InOrder, Bucket
<1>2. s1 \in Int /\ s2 \in Int
  <2>1. Cardinality(S) \in Nat /\ Cardinality(S2) \in Nat
    BY FS_CardinalityType
  <2>2. QED
    BY <2>1 DEF SpareOf
<1>3. /\ b <= k.last /\ s1 >= 0
      /\ n * c + k.tokens <= Capacity(c) + (k.last - b) + s1 * c
  BY DEF Balanced
<1>4. s2 >= s1 + extra
  OBVIOUS
<1> HIDE DEF s1, s2, c
<1>5. (s1 + extra) * c <= s2 * c
  <2>1. s1 + extra \in Int
    BY <1>2
  <2>2. QED
    BY <1>1, <1>2, <1>4, <2>1, TimesMono
<1>6. (s1 + extra) * c = s1 * c + extra * c
  <2>1. CASE extra = 0
    BY <1>1, <1>2, <2>1
  <2>2. CASE extra = 1
    BY <1>1, <1>2, <2>2, TimesSucc
  <2>3. QED BY <2>1, <2>2
<1>7. (n + passed) * c = n * c + passed * c
  <2>1. CASE passed = 0
    BY <1>1, <2>1
  <2>2. CASE passed = 1
    BY <1>1, <2>2, TimesSucc
  <2>3. QED BY <2>1, <2>2
<1>8. (passed - extra) * c = passed * c - extra * c
  BY <1>1
<1>9. /\ n * c \in Int /\ s1 * c \in Int /\ s2 * c \in Int
      /\ extra * c \in Int /\ passed * c \in Int
  BY <1>1, <1>2
<1>10. new.tokens + (passed * c - extra * c) <= k.tokens + (now - k.last)
  BY <1>8 DEF c
<1>11. (n + passed) * c + new.tokens <= Capacity(c) + (now - b) + s2 * c
  BY <1>1, <1>3, <1>5, <1>6, <1>7, <1>9, <1>10
<1>12. s2 >= 0
  BY <1>2, <1>3, <1>4
<1>13. QED
  BY <1>1, <1>3, <1>11, <1>12 DEF Balanced, s2, c

LEMMA SpareType ==
  ASSUME NEW k, NEW o \in Int, NEW S, IsFiniteSet(S), NEW u
  PROVE  SpareOf(k, o, S, u) \in Int /\ Cardinality(S) \in Nat
<1>1. Cardinality(S) \in Nat
  BY FS_CardinalityType
<1>2. QED
  BY <1>1 DEF SpareOf

(* The times of tasks that do not sleep on the bucket do not matter.         *)
LEMMA SameSleepers ==
  ASSUME NEW k, NEW b, NEW n, NEW o, NEW S, NEW u, NEW u2,
         \A t \in S : u2[t] = u[t]
  PROVE  /\ SpareOf(k, o, S, u2) = SpareOf(k, o, S, u)
         /\ Balanced(k, b, n, o, S, u2) <=> Balanced(k, b, n, o, S, u)
BY DEF Balanced, SpareOf, DueTo

(* The spare requests after each kind of step.  A caller that finds a token. *)
LEMMA SparePassed ==
  ASSUME NEW k, NEW new, NEW o \in Nat, NEW S, IsFiniteSet(S), NEW u
  PROVE  SpareOf(new, o + (IF S = {} THEN 0 ELSE 1), S, u) >= SpareOf(k, o, S, u)
BY SpareType DEF SpareOf, DueTo

(* A caller that has to sleep.                                               *)
LEMMA SpareAsleep ==
  ASSUME clock \in Nat, NEW k, InOrder(k), Wait(k) # 0,
         NEW o \in Nat, NEW S, IsFiniteSet(S), NEW t, t \notin S,
         NEW u, \A s \in S : u[s] \in Nat,
         NEW u2, \A s \in S : u2[s] = u[s], u2[t] = clock + Wait(k)
  PROVE  SpareOf(Consumed(k), o + (IF S = {} THEN 0 ELSE 1), S \cup {t}, u2)
           >= SpareOf(k, o, S, u)
<1> DEFINE new == Consumed(k)
<1>1. /\ new.tokens = k.tokens + (clock - k.last) /\ new.last = clock
      /\ new.cost = k.cost /\ Wait(k) = k.cost - (k.tokens + (clock - k.last))
      /\ k.cost \in Nat /\ k.tokens \in Nat /\ k.last \in Nat
  BY ConsumeFacts, CapacityType DEF InOrder, Bucket
<1>2. Cardinality(S \cup {t}) = Cardinality(S) + 1 /\ Cardinality(S) \in Nat
  BY FS_AddElement, FS_CardinalityType
<1>3. u2[t] + new.tokens >= new.last + new.cost
  BY <1>1
<1>4. ASSUME DueTo(k, S, u) \/ S = {}
      PROVE  DueTo(new, S \cup {t}, u2)
  <2>1. ASSUME NEW s \in S
        PROVE  u2[s] + new.tokens >= new.last + new.cost
    <3>1. u[s] + k.tokens >= k.last + k.cost /\ u2[s] = u[s] /\ u[s] \in Nat
      BY <1>4, <2>1 DEF DueTo
    <3>2. QED
      BY <1>1, <3>1
  <2>2. QED
    BY <1>3, <2>1 DEF DueTo
<1> HIDE DEF new
<1>5. CASE S = {}
  <2>1. Cardinality(S) = 0
    BY <1>5, FS_EmptySet
  <2>2. QED
    BY <1>2, <1>4, <1>5, <2>1 DEF SpareOf, DueTo, new
<1>6. CASE S # {}
  BY <1>2, <1>4, <1>6 DEF SpareOf, new
<1>7. QED
  BY <1>5, <1>6

(* A sleeper that leaves, with or without a token: if it was due one, it got *)
(* one.                                                                      *)
LEMMA SpareAwake ==
  ASSUME clock \in Nat, NEW k, InOrder(k),
         NEW o \in Nat, NEW S, IsFiniteSet(S), NEW t \in S,
         NEW u, u[t] \in Nat, u[t] <= clock
  PROVE  SpareOf(Consumed(k), o, S \ {t}, u)
           >= SpareOf(k, o, S, u) + (IF Wait(k) = 0 THEN 0 ELSE 1)
<1>1. Cardinality(S \ {t}) = Cardinality(S) - 1 /\ Cardinality(S) \in Nat
  BY FS_RemoveElement, FS_CardinalityType
<1>2. CASE Wait(k) = 0
  BY <1>1, <1>2 DEF SpareOf
<1>3. CASE Wait(k) # 0
  <2>1. /\ k.tokens + (clock - k.last) < k.cost
        /\ k.cost \in Nat /\ k.tokens \in Nat /\ k.last \in Nat
    BY <1>3, ConsumeFacts, CapacityType DEF InOrder, Bucket
  <2>2. ~ (u[t] + k.tokens >= k.last + k.cost)
    BY <2>1
  <2>3. ~ DueTo(k, S, u)
    BY <2>2 DEF DueTo
  <2>4. QED
    BY <1>1, <1>3, <2>3 DEF SpareOf
<1>4. QED
  BY <1>2, <1>3

(* A sleeper that is cancelled.                                              *)
LEMMA SpareCancelled ==
  ASSUME NEW k, NEW o \in Nat, NEW S, IsFiniteSet(S), NEW t \in S, NEW u
  PROVE  SpareOf(k, o, S \ {t}, u) >= SpareOf(k, o, S, u)
<1>1. Cardinality(S \ {t}) = Cardinality(S) - 1 /\ Cardinality(S) \in Nat
  BY FS_RemoveElement, FS_CardinalityType
<1>2. QED
  BY <1>1 DEF SpareOf

-------------------------------------------------------------------------------
(* The invariant, stated for any list of buckets with its history lists.     *)
HeapType(bs, bo, se, ov) ==
  /\ bs \in Seq(Bucket)
  /\ bo \in Seq(Nat) /\ se \in Seq(Nat) /\ ov \in Seq(Nat)
  /\ Len(bo) = Len(bs) /\ Len(se) = Len(bs) /\ Len(ov) = Len(bs)

HeapBalanced(bs, bo, se, ov) ==
  \A b \in DOMAIN bs :
    InOrder(bs[b]) /\ Balanced(bs[b], bo[b], se[b], ov[b], Sleepers(b), until)

SettingType ==
  /\ clock \in Nat
  /\ default \in Costs \cup {Off}
  /\ override \in [Hosts -> Costs \cup {Off, Default}]
  /\ current \in [Hosts -> Made \cup {0}]

SleeperType ==
  /\ held \in [Tasks -> Made \cup {0}]
  /\ until \in [Tasks -> Nat]

HeapOK == HeapType(buckets, born, sent, overlaps) /\ HeapBalanced(buckets, born, sent, overlaps)

IInv == SettingType /\ SleeperType /\ HeapOK

LEMMA IInvIsTypeOK == IInv => TypeOK
BY DEF IInv, SettingType, SleeperType, HeapOK, HeapType, HeapBalanced, InOrder, TypeOK, Made

LEMMA SleepersFinite ==
  ASSUME NEW b
  PROVE  IsFiniteSet(Sleepers(b))
<1>1. Sleepers(b) \subseteq Tasks
  BY DEF Sleepers
<1>2. QED
  BY <1>1, TasksAssumption, FS_Subset

(* A bucket made by _bucket_for() is in balance from the start.              *)
LEMMA FreshBalanced ==
  ASSUME clock \in Nat, NEW cost \in Costs, NEW u
  PROVE  InOrder(Fresh(cost)) /\ Balanced(Fresh(cost), clock, 0, 0, {}, u)
<1>1. Capacity(cost) \in Nat /\ cost \in Nat
  BY CapacityType
<1>2. Fresh(cost) \in Bucket /\ InOrder(Fresh(cost))
  BY <1>1 DEF Fresh, Bucket, InOrder
<1>3. SpareOf(Fresh(cost), 0, {}, u) = 0
  BY FS_EmptySet DEF SpareOf, DueTo
<1>4. QED
  BY <1>1, <1>2, <1>3 DEF Balanced, Fresh

(* The lists _bucket_for() leaves: those that were there, or one longer.     *)
LEMMA WithBucketOK ==
  ASSUME IInv, NEW h \in Hosts, Rate(h) # Off
  PROVE  LET new == current[h] = 0
             bs == WithBucket(h)
             bo == IF new THEN Append(born, clock) ELSE born
             se == IF new THEN Append(sent, 0) ELSE sent
             ov == IF new THEN Append(overlaps, 0) ELSE overlaps
         IN /\ HeapType(bs, bo, se, ov) /\ HeapBalanced(bs, bo, se, ov)
            /\ NumberFor(h) \in DOMAIN bs /\ NumberFor(h) # 0
            /\ Made \subseteq DOMAIN bs
<1>1. CASE current[h] # 0
  <2>1. current[h] \in Made
    BY <1>1 DEF IInv, SettingType
  <2>2. /\ HeapOK /\ HeapType(buckets, born, sent, overlaps)
        /\ Made = 1 .. Len(buckets)
    BY DEF IInv, HeapOK, Made
  <2>3. QED
    BY <1>1, <2>1, <2>2 DEF HeapOK, HeapType, WithBucket, NumberFor
<1>2. CASE current[h] = 0
  <2> DEFINE cost == Rate(h)
             bs == Append(buckets, Fresh(cost))
             bo == Append(born, clock)
             se == Append(sent, 0)
             ov == Append(overlaps, 0)
             new == Len(buckets) + 1
  <2>1. cost \in Costs /\ clock \in Nat
    BY DEF Rate, IInv, SettingType
  <2>2. InOrder(Fresh(cost)) /\ Fresh(cost) \in Bucket
    BY <2>1, FreshBalanced DEF InOrder
  <2>3. HeapType(bs, bo, se, ov) /\ HeapType(buckets, born, sent, overlaps)
    BY <2>1, <2>2 DEF IInv, HeapOK, HeapType
  <2>4. Sleepers(new) = {}
    <3>1. Len(buckets) \in Nat /\ DOMAIN buckets = 1 .. Len(buckets)
      BY <2>3 DEF HeapType
    <3>2. \A t \in Tasks : held[t] \in 1 .. Len(buckets) \cup {0}
      BY <3>1 DEF IInv, SleeperType, Made
    <3>3. QED BY <3>1, <3>2 DEF Sleepers
  <2>5. /\ bs[new] = Fresh(cost) /\ bo[new] = clock /\ se[new] = 0 /\ ov[new] = 0
        /\ DOMAIN bs = DOMAIN buckets \cup {new} /\ new # 0
        /\ \A b \in DOMAIN buckets : /\ bs[b] = buckets[b] /\ bo[b] = born[b]
                                     /\ se[b] = sent[b] /\ ov[b] = overlaps[b]
    BY <2>3 DEF HeapType
  <2> HIDE DEF bs, bo, se, ov, new, cost
  <2>6. ASSUME NEW b \in DOMAIN bs
        PROVE  InOrder(bs[b]) /\ Balanced(bs[b], bo[b], se[b], ov[b], Sleepers(b), until)
    <3>1. CASE b = new
      BY <2>1, <2>4, <2>5, <3>1, FreshBalanced
    <3>2. CASE b \in DOMAIN buckets
      BY <2>5, <3>2 DEF IInv, HeapOK, HeapBalanced
    <3>3. QED
      BY <2>5, <3>1, <3>2
  <2>7. /\ WithBucket(h) = bs /\ NumberFor(h) = new
    BY <1>2 DEF WithBucket, NumberFor, bs, new, cost
  <2>8. QED
    BY <1>2, <2>3, <2>5, <2>6, <2>7 DEF HeapBalanced, Made, bo, se, ov
<1>3. QED
  BY <1>1, <1>2

(* One bucket changes, and who sleeps on it; the balance of the others       *)
(* stays.                                                                    *)
OneBucket(bs, bo, se, ov, b, k, n, o) ==
  /\ clock \in Nat /\ clock' = clock
  /\ HeapType(bs, bo, se, ov) /\ HeapBalanced(bs, bo, se, ov)
  /\ b \in DOMAIN bs /\ k \in Bucket /\ n \in Nat /\ o \in Nat
  /\ buckets' = [bs EXCEPT ![b] = k]
  /\ born' = bo
  /\ sent' = [se EXCEPT ![b] = n]
  /\ overlaps' = [ov EXCEPT ![b] = o]
  /\ k.last <= clock /\ k.tokens <= Capacity(k.cost)
  /\ Balanced(k, bo[b], n, o, Sleepers(b)', until')
  /\ \A c \in DOMAIN bs \ {b} :
       Sleepers(c)' = Sleepers(c) /\ \A t \in Sleepers(c) : until'[t] = until[t]

LEMMA OneBucketChanges ==
  ASSUME NEW bs, NEW bo, NEW se, NEW ov, NEW b, NEW k, NEW n, NEW o,
         OneBucket(bs, bo, se, ov, b, k, n, o)
  PROVE  HeapOK' /\ DOMAIN buckets' = DOMAIN bs
<1>1. HeapType(buckets, born, sent, overlaps)' /\ DOMAIN buckets' = DOMAIN bs
  BY DEF OneBucket, HeapType
<1>2. ASSUME NEW c \in DOMAIN buckets'
      PROVE  (InOrder(buckets[c])
               /\ Balanced(buckets[c], born[c], sent[c], overlaps[c], Sleepers(c), until))'
  <2>1. CASE c = b
    <3>1. buckets'[c] = k /\ sent'[c] = n /\ overlaps'[c] = o
      <4>1. /\ buckets' = [bs EXCEPT ![b] = k] /\ sent' = [se EXCEPT ![b] = n]
            /\ overlaps' = [ov EXCEPT ![b] = o] /\ b \in DOMAIN bs
            /\ DOMAIN se = DOMAIN bs /\ DOMAIN ov = DOMAIN bs
        BY DEF OneBucket, HeapType
      <4>2. QED BY <2>1, <4>1
    <3>2. QED
      BY <2>1, <3>1 DEF OneBucket, InOrder
  <2>2. CASE c # b
    <3>1. /\ buckets'[c] = bs[c] /\ sent'[c] = se[c] /\ overlaps'[c] = ov[c]
          /\ c \in DOMAIN bs \ {b}
      BY <1>1, <2>2 DEF OneBucket, HeapType
    <3>2. InOrder(bs[c]) /\ Balanced(bs[c], bo[c], se[c], ov[c], Sleepers(c), until)
      BY <3>1 DEF OneBucket, HeapBalanced
    <3>3. Balanced(bs[c], bo[c], se[c], ov[c], Sleepers(c)', until')
      BY <3>1, <3>2, SameSleepers DEF OneBucket
    <3>4. QED
      BY <3>1, <3>2, <3>3 DEF OneBucket, InOrder
  <2>3. QED BY <2>1, <2>2
<1>3. QED
  BY <1>1, <1>2 DEF HeapOK, HeapBalanced

-------------------------------------------------------------------------------
(* How each kind of step keeps the balance of the bucket it is about.  A     *)
(* caller that finds a token passes.                                         *)
LEMMA PassBalanced ==
  ASSUME clock \in Nat, NEW k, InOrder(k), Wait(k) = 0,
         NEW b \in Nat, NEW n \in Nat, NEW o \in Nat, NEW S, IsFiniteSet(S),
         NEW u, NEW u2, \A s \in S : u2[s] = u[s],
         Balanced(k, b, n, o, S, u)
  PROVE  Balanced(Consumed(k), b, n + 1, o + (IF S = {} THEN 0 ELSE 1), S, u2)
<1>1. PICK o2 \in Nat : o2 = o + (IF S = {} THEN 0 ELSE 1)
  OBVIOUS
<1>2. PICK new : new = Consumed(k)
  OBVIOUS
<1>3. /\ new \in Bucket /\ new.cost = k.cost /\ new.last = clock /\ k.last <= clock
      /\ new.tokens + k.cost <= k.tokens + (clock - k.last) /\ k.cost \in Nat
  BY <1>2, ConsumeFacts, CapacityType DEF InOrder, Bucket
<1>4. SpareOf(new, o2, S, u) >= SpareOf(k, o, S, u)
  BY <1>1, SparePassed
<1>5. SpareOf(new, o2, S, u2) = SpareOf(new, o2, S, u) /\ SpareOf(k, o, S, u) \in Int
  BY SameSleepers, SpareType
<1>6. SpareOf(new, o2, S, u2) >= SpareOf(k, o, S, u) + 0
  BY <1>4, <1>5
<1>7. new.tokens + (1 - 0) * k.cost <= k.tokens + (clock - k.last)
  BY <1>3
<1>8. Balanced(new, b, n + 1, o2, S, u2)
  BY <1>3, <1>6, <1>7, KeepBalance
<1>9. QED
  BY <1>1, <1>2, <1>8

(* A caller that finds none goes to sleep.                                   *)
LEMMA SleepBalanced ==
  ASSUME clock \in Nat, NEW k, InOrder(k), Wait(k) # 0,
         NEW b \in Nat, NEW n \in Nat, NEW o \in Nat, NEW S, IsFiniteSet(S), NEW t, t \notin S,
         NEW u, \A s \in S : u[s] \in Nat,
         NEW u2, \A s \in S : u2[s] = u[s], u2[t] = clock + Wait(k),
         Balanced(k, b, n, o, S, u)
  PROVE  Balanced(Consumed(k), b, n, o + (IF S = {} THEN 0 ELSE 1), S \cup {t}, u2)
<1>1. PICK o2 \in Nat : o2 = o + (IF S = {} THEN 0 ELSE 1)
  OBVIOUS
<1>2. PICK new : new = Consumed(k)
  OBVIOUS
<1>3. /\ new \in Bucket /\ new.cost = k.cost /\ new.last = clock /\ k.last <= clock
      /\ new.tokens = k.tokens + (clock - k.last)
      /\ k.cost \in Nat /\ k.tokens \in Nat /\ k.last \in Nat
  BY <1>2, ConsumeFacts, CapacityType DEF InOrder, Bucket
<1>4. SpareOf(new, o2, S \cup {t}, u2) >= SpareOf(k, o, S, u)
  BY <1>1, <1>2, SpareAsleep
<1>5. SpareOf(new, o2, S \cup {t}, u2) >= SpareOf(k, o, S, u) + 0
  BY <1>4, SpareType
<1>6. new.tokens + (0 - 0) * k.cost <= k.tokens + (clock - k.last)
  BY <1>3
<1>7. IsFiniteSet(S \cup {t})
  BY FS_AddElement
<1>8. Balanced(new, b, n + 0, o2, S \cup {t}, u2)
  BY <1>3, <1>5, <1>6, <1>7, KeepBalance
<1>9. QED
  BY <1>1, <1>2, <1>8

(* A sleeper wakes up and passes.                                            *)
LEMMA WakeBalanced ==
  ASSUME clock \in Nat, NEW k, InOrder(k),
         NEW b \in Nat, NEW n \in Nat, NEW o \in Nat, NEW S, IsFiniteSet(S), NEW t \in S,
         NEW u, u[t] \in Nat, u[t] <= clock,
         NEW u2, \A s \in S \ {t} : u2[s] = u[s],
         NEW new, new = Consumed(k), NEW n2, n2 = n + 1, NEW S2, S2 = S \ {t},
         Balanced(k, b, n, o, S, u)
  PROVE  Balanced(new, b, n2, o, S2, u2)
<1>1. PICK extra \in {0, 1} : extra = IF Wait(k) = 0 THEN 0 ELSE 1
  OBVIOUS
<1>3. /\ new \in Bucket /\ new.cost = k.cost /\ new.last = clock /\ k.last <= clock
      /\ Wait(k) = 0 => new.tokens + k.cost <= k.tokens + (clock - k.last)
      /\ Wait(k) # 0 => new.tokens = k.tokens + (clock - k.last)
      /\ k.cost \in Nat /\ k.tokens \in Nat /\ k.last \in Nat
  BY ConsumeFacts, CapacityType DEF InOrder, Bucket
<1>4. SpareOf(new, o, S \ {t}, u) >= SpareOf(k, o, S, u) + extra
  BY <1>1, SpareAwake
<1>5. SpareOf(new, o, S \ {t}, u2) = SpareOf(new, o, S \ {t}, u)
  BY SameSleepers
<1>6. new.tokens + (1 - extra) * k.cost <= k.tokens + (clock - k.last)
  <2>1. CASE extra = 0
    <3>1. (1 - extra) * k.cost = k.cost
      BY <1>3, <2>1
    <3>2. QED BY <1>1, <1>3, <2>1, <3>1
  <2>2. CASE extra = 1
    <3>1. (1 - extra) * k.cost = 0
      BY <1>3, <2>2
    <3>2. QED BY <1>1, <1>3, <2>2, <3>1
  <2>3. QED BY <1>1, <2>1, <2>2
<1>7. IsFiniteSet(S \ {t})
  BY FS_Subset
<1>8. SpareOf(new, o, S \ {t}, u2) >= SpareOf(k, o, S, u) + extra
  BY <1>4, <1>5
<1>9. Balanced(new, b, n + 1, o, S \ {t}, u2)
  BY <1>3, <1>6, <1>7, <1>8, KeepBalance
<1>10. QED
  BY <1>9

(* A sleeper is cancelled.                                                   *)
LEMMA CancelBalanced ==
  ASSUME clock \in Nat, NEW k, InOrder(k),
         NEW b \in Nat, NEW n \in Nat, NEW o \in Nat, NEW S, IsFiniteSet(S), NEW t \in S,
         NEW u, NEW u2, \A s \in S \ {t} : u2[s] = u[s],
         Balanced(k, b, n, o, S, u)
  PROVE  Balanced(k, b, n, o, S \ {t}, u2)
<1>1. /\ k \in Bucket /\ k.cost \in Nat /\ k.tokens \in Nat /\ k.last \in Nat
      /\ k.last <= k.last
  BY CapacityType DEF InOrder, Bucket
<1>2. /\ SpareOf(k, o, S \ {t}, u) >= SpareOf(k, o, S, u)
      /\ SpareOf(k, o, S \ {t}, u2) = SpareOf(k, o, S \ {t}, u)
      /\ SpareOf(k, o, S, u) \in Int
  BY SpareCancelled, SameSleepers, SpareType
<1>3. IsFiniteSet(S \ {t})
  BY FS_Subset
<1>4. SpareOf(k, o, S \ {t}, u2) >= SpareOf(k, o, S, u) + 0
  BY <1>2
<1>5. k.tokens + (0 - 0) * k.cost <= k.tokens + (k.last - k.last)
  BY <1>1
<1>6. Balanced(k, b, n + 0, o, S \ {t}, u2)
  BY <1>1, <1>3, <1>4, <1>5, KeepBalance
<1>7. QED
  BY <1>6

-------------------------------------------------------------------------------
(* One lemma per kind of action.                                             *)

LEMMA AcquireOK ==
  ASSUME IInv, NEW t \in Tasks, NEW h \in Hosts, Acquire(t, h)
  PROVE  IInv'
<1>1. PICK b, bs, bo, se, ov, wait, new :
        /\ b = NumberFor(h) /\ bs = WithBucket(h)
        /\ bo = IF current[h] = 0 THEN Append(born, clock) ELSE born
        /\ se = IF current[h] = 0 THEN Append(sent, 0) ELSE sent
        /\ ov = IF current[h] = 0 THEN Append(overlaps, 0) ELSE overlaps
        /\ wait = Wait(bs[b]) /\ new = Consumed(bs[b])
  OBVIOUS
<1> DEFINE k == bs[b]
<1>2. /\ HeapType(bs, bo, se, ov) /\ HeapBalanced(bs, bo, se, ov)
      /\ b \in DOMAIN bs /\ b # 0 /\ Made \subseteq DOMAIN bs
  BY <1>1, WithBucketOK DEF Acquire
<1>3. /\ held[t] = 0
      /\ buckets' = [bs EXCEPT ![b] = new]
      /\ current' = [current EXCEPT ![h] = b]
      /\ held' = [held EXCEPT ![t] = IF wait > 0 THEN b ELSE 0]
      /\ until' = [until EXCEPT ![t] = IF wait > 0 THEN clock + wait ELSE 0]
      /\ born' = bo
      /\ sent' = [se EXCEPT ![b] = se[b] + IF wait > 0 THEN 0 ELSE 1]
      /\ overlaps' = [ov EXCEPT ![b] = ov[b] + IF Sleepers(b) = {} THEN 0 ELSE 1]
      /\ UNCHANGED <<clock, default, override>>
  BY <1>1 DEF Acquire, settingVars
<1>4. PICK S : S = Sleepers(b)
  OBVIOUS
<1>5. clock \in Nat /\ InOrder(k) /\ Balanced(k, bo[b], se[b], ov[b], S, until)
  BY <1>2, <1>4 DEF IInv, SettingType, HeapBalanced
<1>6. /\ bo[b] \in Nat /\ se[b] \in Nat /\ ov[b] \in Nat
  BY <1>2 DEF HeapType
<1>7. t \notin S /\ S \subseteq Tasks /\ IsFiniteSet(S)
  BY <1>2, <1>3, <1>4, SleepersFinite DEF Sleepers
<1>8. /\ held \in [Tasks -> Made \cup {0}] /\ until \in [Tasks -> Nat]
  BY DEF IInv, SleeperType
<1>9. \A c \in DOMAIN bs \ {b} :
        Sleepers(c)' = Sleepers(c) /\ \A s \in Sleepers(c) : until'[s] = until[s]
  <2>1. \A c \in DOMAIN bs \ {b} : c # 0
    BY <1>2 DEF HeapType
  <2>2. QED
    BY <1>3, <1>8, <2>1 DEF Sleepers
<1>10. /\ new \in Bucket /\ new.last <= clock /\ new.tokens <= Capacity(new.cost)
       /\ new = Consumed(k) /\ wait = Wait(k) /\ wait \in Nat
  BY <1>1, <1>5, ConsumeFacts
<1>11. \A s \in S : until'[s] = until[s] /\ until[s] \in Nat
  BY <1>3, <1>7, <1>8
<1>12. CASE wait = 0
  <2>1. Sleepers(b)' = S
    BY <1>2, <1>3, <1>4, <1>7, <1>8, <1>12 DEF Sleepers
  <2>2. PICK o \in Nat : o = ov[b] + (IF S = {} THEN 0 ELSE 1)
    BY <1>6
  <2>3. Balanced(new, bo[b], se[b] + 1, o, S, until')
    BY <1>5, <1>6, <1>7, <1>10, <1>11, <1>12, <2>2, PassBalanced
  <2>4. /\ sent' = [se EXCEPT ![b] = se[b] + 1] /\ overlaps' = [ov EXCEPT ![b] = o]
        /\ se[b] + 1 \in Nat
    BY <1>3, <1>4, <1>6, <1>12, <2>2
  <2>5. OneBucket(bs, bo, se, ov, b, new, se[b] + 1, o)
    BY <1>2, <1>3, <1>5, <1>9, <1>10, <2>1, <2>2, <2>3, <2>4 DEF OneBucket
  <2>6. HeapOK' /\ DOMAIN buckets' = DOMAIN bs
    BY <2>5, OneBucketChanges
  <2>7. SettingType' /\ SleeperType'
    BY <1>2, <1>3, <1>8, <1>12, <2>6 DEF IInv, SettingType, SleeperType, Made
  <2>8. QED
    BY <2>6, <2>7 DEF IInv
<1>13. CASE wait # 0
  <2>1. wait > 0 /\ until'[t] = clock + wait
    BY <1>3, <1>8, <1>10, <1>13
  <2>2. Sleepers(b)' = S \cup {t}
    BY <1>2, <1>3, <1>4, <1>7, <1>8, <2>1 DEF Sleepers
  <2>3. PICK o \in Nat : o = ov[b] + (IF S = {} THEN 0 ELSE 1)
    BY <1>6
  <2>4. Balanced(new, bo[b], se[b], o, S \cup {t}, until')
    BY <1>5, <1>6, <1>7, <1>10, <1>11, <1>13, <2>1, <2>3, SleepBalanced
  <2>5. sent' = [se EXCEPT ![b] = se[b]] /\ overlaps' = [ov EXCEPT ![b] = o]
    <3>1. /\ (IF wait > 0 THEN 0 ELSE 1) = 0 /\ se[b] + 0 = se[b]
          /\ (IF Sleepers(b) = {} THEN 0 ELSE 1) = (IF S = {} THEN 0 ELSE 1)
      BY <1>4, <1>6, <2>1
    <3>2. QED
      BY <1>3, <2>3, <3>1
  <2>6. OneBucket(bs, bo, se, ov, b, new, se[b], o)
    BY <1>2, <1>3, <1>5, <1>6, <1>9, <1>10, <2>2, <2>3, <2>4, <2>5 DEF OneBucket
  <2>7. HeapOK' /\ DOMAIN buckets' = DOMAIN bs
    BY <2>6, OneBucketChanges
  <2>8. SettingType' /\ SleeperType'
    BY <1>2, <1>3, <1>5, <1>8, <1>10, <2>1, <2>7 DEF IInv, SettingType, SleeperType, Made
  <2>9. QED
    BY <2>7, <2>8 DEF IInv
<1>14. QED
  BY <1>12, <1>13

LEMMA WakeOK ==
  ASSUME IInv, NEW t \in Tasks, Wake(t)
  PROVE  IInv'
<1>1. PICK b, k, S, new, n :
        /\ b = held[t] /\ k = buckets[b] /\ S = Sleepers(b)
        /\ new = Consumed(k) /\ n = sent[b] + 1
  OBVIOUS
<1>2. /\ HeapType(buckets, born, sent, overlaps)
      /\ HeapBalanced(buckets, born, sent, overlaps)
      /\ held \in [Tasks -> Made \cup {0}] /\ until \in [Tasks -> Nat] /\ clock \in Nat
  BY DEF IInv, HeapOK, SleeperType, SettingType
<1>3. /\ b \in DOMAIN buckets /\ b # 0 /\ until[t] <= clock
      /\ buckets' = [buckets EXCEPT ![b] = new]
      /\ sent' = [sent EXCEPT ![b] = n]
      /\ held' = [held EXCEPT ![t] = 0]
      /\ until' = [until EXCEPT ![t] = 0]
      /\ UNCHANGED <<clock, default, override, current, born, overlaps>>
  BY <1>1, <1>2 DEF Wake, Made, settingVars
<1>4. overlaps' = [overlaps EXCEPT ![b] = overlaps[b]]
  BY <1>2, <1>3 DEF HeapType
<1>5. InOrder(k) /\ Balanced(k, born[b], sent[b], overlaps[b], S, until)
  BY <1>1, <1>2, <1>3 DEF HeapBalanced
<1>6. born[b] \in Nat /\ sent[b] \in Nat /\ overlaps[b] \in Nat /\ n \in Nat
  BY <1>1, <1>2, <1>3 DEF HeapType
<1>7. /\ t \in S /\ IsFiniteSet(S)
      /\ \A s \in S : until[s] \in Nat
      /\ \A s \in S \ {t} : until'[s] = until[s]
  BY <1>1, <1>2, <1>3, SleepersFinite DEF Sleepers
<1>8. Sleepers(b)' = S \ {t}
  BY <1>1, <1>2, <1>3 DEF Sleepers
<1>9. \A c \in DOMAIN buckets \ {b} :
        Sleepers(c)' = Sleepers(c) /\ \A s \in Sleepers(c) : until'[s] = until[s]
  <2>1. \A c \in DOMAIN buckets \ {b} : c # 0
    BY <1>2 DEF HeapType
  <2>2. QED
    BY <1>1, <1>2, <1>3, <2>1 DEF Sleepers
<1>10. new \in Bucket /\ new.last <= clock /\ new.tokens <= Capacity(new.cost)
  BY <1>1, <1>2, <1>5, ConsumeFacts
<1>11. Balanced(new, born[b], n, overlaps[b], S \ {t}, until')
  <2>1. PICK u, u2, S2 : u = until /\ u2 = until' /\ S2 = S \ {t}
    OBVIOUS
  <2>2. /\ u[t] \in Nat /\ t \in S /\ IsFiniteSet(S)
        /\ \A s \in S \ {t} : u2[s] = u[s]
        /\ u[t] <= clock
    BY <1>3, <1>7, <2>1
  <2>3. Balanced(k, born[b], sent[b], overlaps[b], S, u) /\ InOrder(k)
    BY <1>5, <2>1
  <2>4. PICK bo, se, ov : bo = born[b] /\ se = sent[b] /\ ov = overlaps[b]
    OBVIOUS
  <2>5. /\ bo \in Nat /\ se \in Nat /\ ov \in Nat /\ clock \in Nat
        /\ n = se + 1 /\ new = Consumed(k) /\ InOrder(k) /\ Balanced(k, bo, se, ov, S, u)
    BY <1>1, <1>2, <1>6, <2>3, <2>4
  <2>6. Balanced(new, bo, n, ov, S2, u2)
    BY <2>1, <2>2, <2>5, WakeBalanced
  <2>7. QED
    BY <2>1, <2>4, <2>6
<1>12. OneBucket(buckets, born, sent, overlaps, b, new, n, overlaps[b])
  BY <1>2, <1>3, <1>4, <1>6, <1>8, <1>9, <1>10, <1>11 DEF OneBucket
<1>13. HeapOK' /\ DOMAIN buckets' = DOMAIN buckets
  BY <1>12, OneBucketChanges
<1>14. SettingType' /\ SleeperType'
  BY <1>2, <1>3, <1>13 DEF IInv, SettingType, SleeperType, Made
<1>15. QED
  BY <1>13, <1>14 DEF IInv

LEMMA CancelOK ==
  ASSUME IInv, NEW t \in Tasks, Cancel(t)
  PROVE  IInv'
<1>1. PICK b, k, S : b = held[t] /\ k = buckets[b] /\ S = Sleepers(b)
  OBVIOUS
<1>2. /\ HeapType(buckets, born, sent, overlaps)
      /\ HeapBalanced(buckets, born, sent, overlaps)
      /\ held \in [Tasks -> Made \cup {0}] /\ until \in [Tasks -> Nat] /\ clock \in Nat
  BY DEF IInv, HeapOK, SleeperType, SettingType
<1>3. /\ b \in DOMAIN buckets /\ b # 0
      /\ held' = [held EXCEPT ![t] = 0]
      /\ until' = [until EXCEPT ![t] = 0]
      /\ UNCHANGED <<clock, default, override, current, buckets, born, sent, overlaps>>
  BY <1>1, <1>2 DEF Cancel, Made, settingVars, bucketVars
<1>4. /\ buckets' = [buckets EXCEPT ![b] = k] /\ sent' = [sent EXCEPT ![b] = sent[b]]
      /\ overlaps' = [overlaps EXCEPT ![b] = overlaps[b]]
  BY <1>1, <1>2, <1>3 DEF HeapType
<1>5. InOrder(k) /\ Balanced(k, born[b], sent[b], overlaps[b], S, until)
  BY <1>1, <1>2, <1>3 DEF HeapBalanced
<1>6. born[b] \in Nat /\ sent[b] \in Nat /\ overlaps[b] \in Nat
  BY <1>2, <1>3 DEF HeapType
<1>7. /\ t \in S /\ IsFiniteSet(S)
      /\ \A s \in S \ {t} : until'[s] = until[s]
  BY <1>1, <1>2, <1>3, SleepersFinite DEF Sleepers
<1>8. Sleepers(b)' = S \ {t}
  BY <1>1, <1>2, <1>3 DEF Sleepers
<1>9. \A c \in DOMAIN buckets \ {b} :
        Sleepers(c)' = Sleepers(c) /\ \A s \in Sleepers(c) : until'[s] = until[s]
  <2>1. \A c \in DOMAIN buckets \ {b} : c # 0
    BY <1>2 DEF HeapType
  <2>2. QED
    BY <1>1, <1>2, <1>3, <2>1 DEF Sleepers
<1>10. k \in Bucket /\ k.tokens <= Capacity(k.cost) /\ k.last <= clock
  BY <1>5 DEF InOrder
<1>11. Balanced(k, born[b], sent[b], overlaps[b], S \ {t}, until')
  BY <1>2, <1>5, <1>6, <1>7, CancelBalanced
<1>12. OneBucket(buckets, born, sent, overlaps, b, k, sent[b], overlaps[b])
  BY <1>2, <1>3, <1>4, <1>6, <1>8, <1>9, <1>10, <1>11 DEF OneBucket
<1>13. HeapOK' /\ DOMAIN buckets' = DOMAIN buckets
  BY <1>12, OneBucketChanges
<1>14. SettingType' /\ SleeperType'
  BY <1>2, <1>3, <1>13 DEF IInv, SettingType, SleeperType, Made
<1>15. QED
  BY <1>13, <1>14 DEF IInv

(* The clock and the settings.                                               *)
LEMMA OtherOK ==
  ASSUME IInv, UNCHANGED <<buckets, born, sent, overlaps, held, until>>,
         clock' \in Nat, clock <= clock',
         default' \in Costs \cup {Off},
         override' \in [Hosts -> Costs \cup {Off, Default}],
         current' \in [Hosts -> Made \cup {0}]
  PROVE  IInv'
<1>1. \A b : Sleepers(b)' = Sleepers(b)
  BY DEF Sleepers
<1>2. HeapType(buckets, born, sent, overlaps)'
  BY DEF IInv, HeapOK, HeapType
<1>3. ASSUME NEW b \in DOMAIN buckets
      PROVE  (InOrder(buckets[b])
               /\ Balanced(buckets[b], born[b], sent[b], overlaps[b], Sleepers(b), until))'
  <2>1. /\ InOrder(buckets[b])
        /\ Balanced(buckets[b], born[b], sent[b], overlaps[b], Sleepers(b), until)
    BY DEF IInv, HeapOK, HeapBalanced
  <2>2. InOrder(buckets[b])'
    BY <2>1 DEF InOrder, Bucket, IInv, SettingType
  <2>3. QED
    BY <1>1, <2>1, <2>2
<1>4. HeapOK'
  BY <1>2, <1>3 DEF HeapOK, HeapBalanced
<1>5. SettingType' /\ SleeperType'
  BY DEF IInv, SettingType, SleeperType, Made
<1>6. QED
  BY <1>4, <1>5 DEF IInv

LEMMA InitOK == Init => IInv
<1> SUFFICES ASSUME Init PROVE IInv
  OBVIOUS
<1>1. SettingType /\ SleeperType
  BY RatesAssumption DEF Init, SettingType, SleeperType
<1>2. HeapOK
  BY DEF Init, HeapOK, HeapType, HeapBalanced
<1>3. QED
  BY <1>1, <1>2 DEF IInv

LEMMA NextOK == IInv /\ [Next]_vars => IInv'
<1> SUFFICES ASSUME IInv, [Next]_vars PROVE IInv'
  OBVIOUS
<1>0. SettingType
  BY DEF IInv
<1>1. ASSUME NEW t \in Tasks, NEW h \in Hosts, Acquire(t, h) PROVE IInv'
  BY <1>1, AcquireOK
<1>2. ASSUME NEW t \in Tasks, Wake(t) PROVE IInv'
  BY <1>2, WakeOK
<1>3. ASSUME NEW t \in Tasks, Cancel(t) PROVE IInv'
  BY <1>3, CancelOK
<1>4. CASE UNCHANGED vars
  BY <1>0, <1>4, OtherOK DEF SettingType, vars, settingVars, bucketVars
<1>5. ASSUME NEW t \in Tasks, NEW h \in Hosts, Unlimited(t, h) PROVE IInv'
  BY <1>4, <1>5 DEF Unlimited
<1>6. ASSUME NEW h \in Hosts, NEW cost \in Costs, SetRate(h, cost) PROVE IInv'
  BY <1>0, <1>6, OtherOK DEF SettingType, SetRate
<1>7. ASSUME NEW h \in Hosts, Disable(h) PROVE IInv'
  BY <1>0, <1>7, OtherOK DEF SettingType, Disable
<1>8. CASE DisableAll
  BY <1>0, <1>8, OtherOK DEF SettingType, DisableAll
<1>9. CASE Tick
  BY <1>0, <1>9, OtherOK DEF SettingType, Tick, settingVars, bucketVars
<1>10. QED
  BY <1>1, <1>2, <1>3, <1>4, <1>5, <1>6, <1>7, <1>8, <1>9 DEF Next

-------------------------------------------------------------------------------
(* A task that sleeps on a bucket which is due counts for the extra spare    *)
(* request, so there are never more spare requests than overlaps.            *)
LEMMA SpareBelowOverlaps ==
  ASSUME NEW k, NEW o \in Nat, NEW S, IsFiniteSet(S), NEW u
  PROVE  SpareOf(k, o, S, u) <= o /\ SpareOf(k, o, S, u) \in Int
<1>1. Cardinality(S) \in Nat /\ (S # {} => Cardinality(S) # 0)
  BY FS_CardinalityType, FS_EmptySet
<1>2. QED
  BY <1>1 DEF SpareOf, DueTo

LEMMA IInvBoundsOverrun == IInv => OverrunBounded
<1> SUFFICES ASSUME IInv, NEW b \in Made
             PROVE  (sent[b] - Smaller(sent[b], overlaps[b])) * buckets[b].cost <= Allowance(b)
  BY DEF OverrunBounded
<1> DEFINE c == buckets[b].cost
           n == sent[b]
           o == overlaps[b]
           s == SpareOf(buckets[b], o, Sleepers(b), until)
<1>1. /\ HeapType(buckets, born, sent, overlaps) /\ clock \in Nat
      /\ InOrder(buckets[b])
      /\ Balanced(buckets[b], born[b], n, o, Sleepers(b), until)
  BY DEF IInv, HeapOK, HeapBalanced, SettingType, Made
<1>2. n \in Nat /\ o \in Nat /\ born[b] \in Nat
  BY <1>1 DEF HeapType, Made
<1>3. /\ c \in Nat /\ buckets[b].tokens \in Nat /\ buckets[b].last \in Nat
      /\ Capacity(c) \in Nat /\ buckets[b].last <= clock
  BY <1>1, CapacityType DEF InOrder, Bucket
<1>4. s <= o /\ s \in Int
  BY <1>2, SleepersFinite, SpareBelowOverlaps
<1>5. /\ n * c + buckets[b].tokens <= Capacity(c) + (buckets[b].last - born[b]) + s * c
      /\ born[b] <= buckets[b].last
  BY <1>1 DEF Balanced
<1>6. Allowance(b) = Capacity(c) + (clock - born[b])
  BY DEF Allowance
<1> HIDE DEF c, n, o, s
<1>7. s * c <= o * c
  BY <1>2, <1>3, <1>4, TimesMono
<1>8. n * c \in Int /\ s * c \in Int /\ o * c \in Int
  BY <1>2, <1>3, <1>4
<1>9. n * c <= Capacity(c) + (clock - born[b]) + o * c
  BY <1>1, <1>2, <1>3, <1>5, <1>7, <1>8
<1>10. (n - Smaller(n, o)) * c <= Capacity(c) + (clock - born[b])
  <2>1. CASE n < o
    <3>1. (n - Smaller(n, o)) * c = 0
      BY <1>2, <1>3, <2>1 DEF Smaller
    <3>2. QED
      BY <1>1, <1>2, <1>3, <1>5, <3>1
  <2>2. CASE ~ (n < o)
    <3>1. (n - Smaller(n, o)) * c = n * c - o * c
      BY <1>2, <1>3, <2>2 DEF Smaller
    <3>2. QED
      BY <1>1, <1>2, <1>3, <1>8, <1>9, <3>1
  <2>3. QED BY <2>1, <2>2
<1>11. QED
  BY <1>6, <1>10 DEF c, n, o

(* What the run checks as Balance is the heap part of the invariant.         *)
LEMMA IInvIsBalance == IInv => Balance
<1> SUFFICES ASSUME IInv, NEW b \in Made
             PROVE  LET k == buckets[b]
                    IN /\ born[b] <= k.last /\ k.last <= clock
                       /\ Spare(b) >= 0
                       /\ sent[b] * k.cost + k.tokens
                            <= Capacity(k.cost) + (k.last - born[b]) + Spare(b) * k.cost
  BY DEF Balance
<1>1. /\ InOrder(buckets[b])
      /\ Balanced(buckets[b], born[b], sent[b], overlaps[b], Sleepers(b), until)
  BY DEF IInv, HeapOK, HeapBalanced, Made
<1>2. Due(b) <=> DueTo(buckets[b], Sleepers(b), until)
  BY DEF Due, DueTo
<1>3. Spare(b) = SpareOf(buckets[b], overlaps[b], Sleepers(b), until)
  BY <1>2 DEF Spare, SpareOf
<1>4. QED
  BY <1>1, <1>3 DEF InOrder, Balanced

(* The variables keep their types, and a bucket its capacity.                *)
THEOREM TypeCorrect == Spec => []TypeOK
<1>1. QED
  BY InitOK, NextOK, IInvIsTypeOK, PTL DEF Spec

(* Whatever the rates, the number of tasks, the delays of the event loop and *)
(* the changes of the settings: a bucket lets through at most what it earned *)
(* and one request more for each caller that found another one asleep.       *)
THEOREM OverrunIsBounded == Spec => []OverrunBounded
<1>1. QED
  BY InitOK, NextOK, IInvBoundsOverrun, PTL DEF Spec

(* Why the bound holds: in every bucket the requests let through are covered *)
(* by the tokens it earned and by the overlaps that no sleeper is due yet.   *)
THEOREM BalanceHolds == Spec => []Balance
<1>1. QED
  BY InitOK, NextOK, IInvIsBalance, PTL DEF Spec
===============================================================================
