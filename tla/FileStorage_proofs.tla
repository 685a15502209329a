--------------------------- MODULE FileStorage_proofs ---------------------------
(***************************************************************************)
(* Proofs about FileStorage, for any tasks, keys and values: the types,    *)
(* among them that the lock's queue holds exactly the operations under way *)
(* and that only its head is past the lock; and that, until a write is     *)
(* abandoned half way, the file implements the abstract KeyValueStore.     *)
(***************************************************************************)
EXTENDS FileStorage, TLAPS, FiniteSetTheorems, SequenceTheorems

(* The lock's queue. *)

LEMMA RemoveAtFacts ==
  ASSUME NEW S, NEW s \in Seq(S), NEW i \in 1 .. Len(s)
  PROVE  /\ RemoveAt(s, i) \in Seq(S)
         /\ Len(RemoveAt(s, i)) = Len(s) - 1
         /\ \A n \in 1 .. Len(s) - 1 :
              RemoveAt(s, i)[n] = IF n < i THEN s[n] ELSE s[n + 1]
<1> DEFINE a == SubSeq(s, 1, i - 1)
           b == SubSeq(s, i + 1, Len(s))
<1>1. Len(s) \in Nat /\ \A n \in 1 .. Len(s) : s[n] \in S
  BY LenProperties, ElementOfSeq
<1>2. /\ a \in Seq(S) /\ Len(a) = i - 1
      /\ \A n \in 1 .. i - 1 : a[n] = s[n]
  <2>1. \A n \in 1 .. i - 1 : s[n] \in S
    BY <1>1
  <2>2. QED BY <1>1, <2>1, SubSeqProperties
<1>3. /\ b \in Seq(S) /\ Len(b) = Len(s) - i
      /\ \A n \in 1 .. Len(s) - i : b[n] = s[i + n]
  <2>1. \A n \in i + 1 .. Len(s) : s[n] \in S
    BY <1>1
  <2>2. b \in Seq(S) /\ Len(b) = IF i + 1 <= Len(s) THEN Len(s) - (i + 1) + 1 ELSE 0
    BY <1>1, <2>1, SubSeqProperties
  <2>3. \A n \in 1 .. Len(s) - i : b[n] = s[(i + 1) + n - 1]
    BY <1>1, <2>1, SubSeqProperties
  <2>4. QED BY <1>1, <2>2, <2>3
<1>4. RemoveAt(s, i) = a \o b
  BY DEF RemoveAt
<1> HIDE DEF a, b
<1>5. /\ a \o b \in Seq(S) /\ Len(a \o b) = Len(a) + Len(b)
      /\ \A n \in 1 .. Len(a) + Len(b) : (a \o b)[n] = IF n <= Len(a) THEN a[n] ELSE b[n - Len(a)]
  BY <1>2, <1>3, ConcatProperties
<1>6. ASSUME NEW n \in 1 .. Len(s) - 1
      PROVE  (a \o b)[n] = IF n < i THEN s[n] ELSE s[n + 1]
  <2>1. CASE n < i
    BY <1>1, <1>2, <1>3, <1>5, <2>1
  <2>2. CASE ~ (n < i)
    <3>0. n - Len(a) \in 1 .. Len(s) - i /\ i + (n - Len(a)) = n + 1
      BY <1>1, <1>2, <2>2
    <3>1. PICK m \in 1 .. Len(s) - i : m = n - Len(a) /\ i + m = n + 1
      BY <3>0
    <3>2. (a \o b)[n] = b[m]
      BY <1>1, <1>2, <1>3, <1>5, <2>2, <3>1
    <3>3. QED BY <1>3, <2>2, <3>1, <3>2
  <2>3. QED BY <2>1, <2>2
<1>7. QED
  BY <1>1, <1>2, <1>3, <1>4, <1>5, <1>6

LEMMA RemoveFirstIsRemoveAt ==
  ASSUME NEW S, NEW s \in Seq(S), IsInjective(s), NEW i \in 1 .. Len(s)
  PROVE  RemoveFirst(s, s[i]) = RemoveAt(s, i)
<1> DEFINE I == {j \in 1 .. Len(s) : s[j] = s[i]}
<1>1. I = {i}
  BY LenProperties DEF IsInjective
<1>2. Min(I) = i
  BY <1>1 DEF Min
<1>3. I # {} /\ \E j \in 1 .. Len(s) : s[j] = s[i]
  BY <1>1
<1>4. QED
  BY <1>2, <1>3 DEF RemoveFirst, SelectInSeq

(* Leaving the queue takes the task out of it; a head that stays is still    *)
(* the head, and only the head's leaving makes another one the head.         *)
LEMMA LeaveLock ==
  ASSUME NEW S, NEW s \in Seq(S), IsInjective(s), NEW t \in ToSet(s)
  PROVE  LET r == RemoveFirst(s, t)
         IN  /\ r \in Seq(S) /\ IsInjective(r) /\ ToSet(r) = ToSet(s) \ {t}
             /\ Head(s) # t => r # << >> /\ Head(r) = Head(s)
<1>1. PICK i \in 1 .. Len(s) : s[i] = t
  BY LenProperties DEF ToSet
<1> DEFINE r == RemoveAt(s, i)
<1>2. RemoveFirst(s, t) = r
  BY <1>1, RemoveFirstIsRemoveAt
<1>3. /\ r \in Seq(S) /\ Len(r) = Len(s) - 1
      /\ \A n \in 1 .. Len(s) - 1 : r[n] = IF n < i THEN s[n] ELSE s[n + 1]
  BY RemoveAtFacts
<1>4. /\ Len(s) \in Nat /\ Len(r) \in Nat
      /\ DOMAIN s = 1 .. Len(s) /\ DOMAIN r = 1 .. Len(r)
      /\ \A j, k \in 1 .. Len(s) : s[j] = s[k] => j = k
  BY <1>3, LenProperties DEF IsInjective
<1> HIDE DEF r
<1>5. IsInjective(r)
  BY <1>3, <1>4 DEF IsInjective
<1>6. ToSet(r) \subseteq ToSet(s) \ {t}
  <2>1. SUFFICES ASSUME NEW n \in 1 .. Len(r) PROVE r[n] \in ToSet(s) \ {t}
    BY <1>4 DEF ToSet
  <2>2. PICK j \in 1 .. Len(s) : r[n] = s[j] /\ j # i
    <3>1. CASE n < i
      BY <1>3, <1>4, <3>1
    <3>2. CASE ~ (n < i)
      BY <1>3, <1>4, <3>2
    <3>3. QED BY <3>1, <3>2
  <2>3. s[j] # s[i]
    BY <1>4, <2>2
  <2>4. QED
    BY <1>1, <1>4, <2>2, <2>3 DEF ToSet
<1>7. ASSUME NEW x \in ToSet(s), x # t PROVE x \in ToSet(r)
  <2>1. PICK j \in 1 .. Len(s) : s[j] = x
    BY <1>4 DEF ToSet
  <2>2. CASE j < i
    BY <1>3, <1>4, <2>1, <2>2 DEF ToSet
  <2>3. CASE j > i
    <3>1. j - 1 \in 1 .. Len(r) /\ r[j - 1] = s[j]
      BY <1>3, <1>4, <2>3
    <3>2. QED BY <1>4, <2>1, <3>1 DEF ToSet
  <2>4. j # i
    BY <1>1, <1>7, <2>1
  <2>5. QED BY <2>2, <2>3, <2>4
<1>8. ASSUME Head(s) # t PROVE r # << >> /\ Head(r) = Head(s)
  <2>1. Head(s) = s[1] /\ 1 < i
    BY <1>1, <1>4, <1>8
  <2>2. 1 \in 1 .. Len(r) /\ r[1] = s[1]
    BY <1>3, <1>4, <2>1
  <2>3. QED BY <1>3, <2>1, <2>2
<1>9. QED
  BY <1>2, <1>3, <1>5, <1>6, <1>7, <1>8

LEMMA JoinLock ==
  ASSUME NEW S, NEW s \in Seq(S), IsInjective(s), NEW t \in S, t \notin ToSet(s)
  PROVE  LET r == Append(s, t)
         IN  /\ r \in Seq(S) /\ IsInjective(r) /\ ToSet(r) = ToSet(s) \cup {t}
             /\ s # << >> => Head(r) = Head(s)
<1> DEFINE r == Append(s, t)
<1>1. /\ r \in Seq(S) /\ Len(s) \in Nat /\ Len(r) = Len(s) + 1
      /\ \A n \in 1 .. Len(s) : r[n] = s[n]
      /\ r[Len(s) + 1] = t
      /\ DOMAIN s = 1 .. Len(s) /\ DOMAIN r = 1 .. Len(s) + 1
  BY AppendProperties, LenProperties
<1> HIDE DEF r
<1>2. \A n \in 1 .. Len(s) : s[n] \in ToSet(s)
  BY <1>1 DEF ToSet
<1>3. IsInjective(r)
  <2>1. SUFFICES ASSUME NEW j \in 1 .. Len(s) + 1, NEW k \in 1 .. Len(s) + 1, r[j] = r[k]
                 PROVE  j = k
    BY <1>1 DEF IsInjective
  <2>2. CASE j \in 1 .. Len(s) /\ k \in 1 .. Len(s)
    BY <1>1, <2>1, <2>2 DEF IsInjective
  <2>3. CASE ~ (j \in 1 .. Len(s) /\ k \in 1 .. Len(s))
    BY <1>1, <1>2, <2>1, <2>3
  <2>4. QED BY <2>2, <2>3
<1>4. ToSet(r) = ToSet(s) \cup {t}
  <2>1. ToSet(r) \subseteq ToSet(s) \cup {t}
    BY <1>1 DEF ToSet
  <2>2. t \in ToSet(r) /\ ToSet(s) \subseteq ToSet(r)
    BY <1>1 DEF ToSet
  <2>3. QED BY <2>1, <2>2
<1>5. s # << >> => Head(r) = Head(s)
  BY <1>1, EmptySeq
<1>6. QED
  BY <1>1, <1>3, <1>4, <1>5 DEF r

-------------------------------------------------------------------------------
(* Types. *)

LockOK ==
  /\ lock \in Seq(Tasks) /\ IsInjective(lock)
  /\ ToSet(lock) = {t \in Tasks : pc[t] # "idle"}
  /\ \A t \in Tasks : pc[t] \notin {"idle", "lock"} => Holds(t)

Pcs == {"idle", "lock", "read", "loaded", "write", "open", "stored"}

DataOK ==
  /\ disk \in Dict \cup {Torn} /\ before \in Dict
  /\ pc \in [Tasks -> Pcs] /\ op \in [Tasks -> Ops] /\ data \in [Tasks -> Dict]
  /\ blind \in [Tasks -> BOOLEAN]
  /\ orphans \in Seq(Orphan) /\ Len(orphans) <= MaxOrphans
  /\ clash \in BOOLEAN
  /\ harm \subseteq {"cancel", "fault"} /\ calls \in 0 .. MaxCalls
  /\ written \in [Keys -> SUBSET (Values \cup {Nothing})]

LEMMA TypeParts == TypeOK <=> LockOK /\ DataOK
BY DEF TypeOK, LockOK, DataOK, Pcs

(* An operation that ends leaves the lock's queue.                           *)
LEMMA Leaves ==
  ASSUME LockOK, DataOK, NEW t \in Tasks, pc[t] # "idle",
         pc' = [pc EXCEPT ![t] = "idle"], Release(t)
  PROVE  LockOK'
<1>1. /\ lock \in Seq(Tasks) /\ IsInjective(lock) /\ t \in ToSet(lock)
      /\ lock' = RemoveFirst(lock, t)
  BY DEF LockOK, Release
<1>2. /\ lock' \in Seq(Tasks) /\ IsInjective(lock') /\ ToSet(lock') = ToSet(lock) \ {t}
      /\ Head(lock) # t => lock' # << >> /\ Head(lock') = Head(lock)
  BY <1>1, LeaveLock
<1>3. \A u \in Tasks : pc'[u] = IF u = t THEN "idle" ELSE pc[u]
  BY DEF DataOK
<1>4. ToSet(lock') = {u \in Tasks : pc'[u] # "idle"}
  BY <1>2, <1>3 DEF LockOK
<1>5. \A u \in Tasks : pc'[u] \notin {"idle", "lock"} => (Holds(u))'
  BY <1>2, <1>3 DEF LockOK, Holds
<1>6. QED
  BY <1>2, <1>4, <1>5 DEF LockOK

(* An operation that goes on with the lock.                                  *)
LEMMA GoesOn ==
  ASSUME LockOK, DataOK, NEW t \in Tasks, NEW to \in Pcs \ {"idle"},
         pc[t] # "idle", Holds(t), pc' = [pc EXCEPT ![t] = to], UNCHANGED lock
  PROVE  LockOK'
<1>1. \A u \in Tasks : pc'[u] = IF u = t THEN to ELSE pc[u]
  BY DEF DataOK
<1>2. \A u : Holds(u)' <=> Holds(u)
  BY DEF Holds
<1>3. QED
  BY <1>1, <1>2 DEF LockOK

LEMMA CallLock ==
  ASSUME LockOK, DataOK, NEW t \in Tasks, Call(t)
  PROVE  LockOK'
<1>1. /\ lock \in Seq(Tasks) /\ IsInjective(lock) /\ t \notin ToSet(lock)
      /\ lock' = Append(lock, t)
  BY DEF LockOK, Call
<1>2. /\ lock' \in Seq(Tasks) /\ IsInjective(lock') /\ ToSet(lock') = ToSet(lock) \cup {t}
      /\ lock # << >> => Head(lock') = Head(lock)
  BY <1>1, JoinLock
<1>3. \A u \in Tasks : pc'[u] = IF u = t THEN "lock" ELSE pc[u]
  BY DEF DataOK, Call
<1>4. lock' # << >>
  BY <1>2 DEF ToSet
<1>5. ToSet(lock') = {u \in Tasks : pc'[u] # "idle"}
  BY <1>2, <1>3 DEF LockOK
<1>6. \A u \in Tasks : pc'[u] \notin {"idle", "lock"} => (Holds(u))'
  BY <1>2, <1>3, <1>4 DEF LockOK, Holds
<1>7. QED
  BY <1>2, <1>5, <1>6 DEF LockOK

(* Every step keeps the lock in order ...                                    *)
LEMMA LockPreserved ==
  ASSUME LockOK, DataOK, [Next]_vars
  PROVE  LockOK'
<1> USE DEF taskVars, fileVars, threadVars
<1>1. CASE UNCHANGED <<lock, pc>>
  BY <1>1 DEF LockOK, Holds
<1>2. ASSUME NEW t \in Tasks, Call(t) \/ Step(t) \/ Cancel(t) PROVE LockOK'
  <2>1. CASE Call(t)
    BY <2>1, CallLock
  <2>2. CASE Acquire(t) \/ Read(t) \/ ReadBlind(t) \/ Open(t) \/ Store(t)
    BY <2>2, GoesOn DEF Acquire, Read, ReadBlind, Open, Store, LockOK, Pcs
  <2>3. CASE ReadRaises(t) \/ Finish(t) \/ WriteFails(t) \/ Cancel(t)
    BY <2>3, Leaves DEF ReadRaises, Finish, WriteFails, Writing, Cancel
  <2>4. CASE Resume(t) /\ Writes(op[t], data[t])
    BY <2>4, GoesOn DEF Resume, LockOK, Pcs
  <2>5. CASE Resume(t) /\ ~Writes(op[t], data[t])
    BY <2>5, Leaves DEF Resume
  <2>6. QED
    BY <1>2, <2>1, <2>2, <2>3, <2>4, <2>5 DEF Step
<1>3. CASE Crash
  <2>1. /\ lock' = << >> /\ \A t \in Tasks : pc'[t] = "idle"
    BY <1>3 DEF Crash
  <2>2. QED
    BY <2>1 DEF LockOK, IsInjective, ToSet
<1>4. QED
  BY <1>1, <1>2, <1>3 DEF Next, OrphanOpen, OrphanStore, vars

(* ... and the types of the rest.                                            *)
LEMMA DictFacts ==
  /\ Empty \in Dict
  /\ \A o \in Ops : Value(o) \in Values \cup {Nothing} /\ o.key \in Keys
  /\ \A d \in Dict, k \in Keys, v \in Values \cup {Nothing} : [d EXCEPT ![k] = v] \in Dict
BY DEF Empty, Dict, Ops, Value

LEMMA ValuesAccounted ==
  ASSUME DataOK, NEW k \in Keys, NEW S \in SUBSET (Values \cup {Nothing})
  PROVE  [written EXCEPT ![k] = S] \in [Keys -> SUBSET (Values \cup {Nothing})]
BY DEF DataOK

LEMMA OrphanFacts ==
  ASSUME DataOK, NEW i \in DOMAIN orphans
  PROVE  /\ orphans[i] \in Orphan /\ orphans[i].data \in Dict
         /\ [orphans EXCEPT ![i].open = TRUE] \in Seq(Orphan)
         /\ Len([orphans EXCEPT ![i].open = TRUE]) = Len(orphans)
         /\ RemoveAt(orphans, i) \in Seq(Orphan)
         /\ Len(RemoveAt(orphans, i)) = Len(orphans) - 1
<1>1. /\ orphans \in Seq(Orphan) /\ Len(orphans) \in Nat
      /\ i \in 1 .. Len(orphans) /\ orphans[i] \in Orphan
  BY LenProperties, ElementOfSeq DEF DataOK
<1>2. [orphans[i] EXCEPT !.open = TRUE] \in Orphan
  BY <1>1 DEF Orphan
<1>3. /\ [orphans EXCEPT ![i] = [orphans[i] EXCEPT !.open = TRUE]] \in Seq(Orphan)
      /\ Len([orphans EXCEPT ![i] = [orphans[i] EXCEPT !.open = TRUE]]) = Len(orphans)
  BY <1>1, <1>2, ExceptSeq
<1>4. [orphans EXCEPT ![i].open = TRUE] = [orphans EXCEPT ![i] = [orphans[i] EXCEPT !.open = TRUE]]
  OBVIOUS
<1>5. QED
  BY <1>1, <1>3, <1>4, RemoveAtFacts DEF Orphan

LEMMA DataPreserved ==
  ASSUME DataOK, [Next]_vars
  PROVE  DataOK'
<1> USE DEF taskVars, fileVars, threadVars
<1>1. \A d \in Dict : Fill(d) => disk' \in Dict \cup {Torn} /\ before' \in Dict /\ clash' \in BOOLEAN
  BY DEF Fill, ClashGoesOn, DataOK
<1>2. Truncate => disk' \in Dict \cup {Torn} /\ before' \in Dict /\ clash' \in BOOLEAN
  BY DEF Truncate, DataOK
<1>3. ClashGoesOn => clash' \in BOOLEAN
  BY DEF ClashGoesOn, DataOK
<1>4. ASSUME NEW t \in Tasks, Call(t) \/ Step(t) PROVE DataOK'
  <2>0. op[t] \in Ops /\ Value(op[t]) \in Values \cup {Nothing} /\ op[t].key \in Keys
    BY DictFacts DEF DataOK
  <2>1. CASE Call(t)
    BY <2>1, StorageBounds DEF Call, DataOK, Pcs
  <2>2. CASE Acquire(t)
    BY <2>2 DEF Acquire, DataOK, Pcs
  <2>3. CASE Read(t)
    BY <2>3, DictFacts DEF Read, DataOK, Pcs
  <2>4. CASE ReadRaises(t)
    BY <2>4 DEF ReadRaises, DataOK, Pcs
  <2>11. CASE ReadBlind(t)
    BY <2>11, DictFacts DEF ReadBlind, DataOK, Pcs
  <2>5. CASE Resume(t)
    <3>1. data' \in [Tasks -> Dict]
      <4>1. [data[t] EXCEPT ![op[t].key] = Value(op[t])] \in Dict
        BY <2>0, DictFacts DEF DataOK
      <4>2. data' = data \/ data' = [data EXCEPT ![t] = [data[t] EXCEPT ![op[t].key] = Value(op[t])]]
        BY <2>5 DEF Resume
      <4>3. QED BY <4>1, <4>2 DEF DataOK
    <3>2. written' \in [Keys -> SUBSET (Values \cup {Nothing})]
      <4>1. written' = written \/ written' = [written EXCEPT ![op[t].key] = {Nothing}]
        BY <2>5 DEF Resume
      <4>2. QED BY <2>0, <4>1, ValuesAccounted DEF DataOK
    <3>3. pc' \in [Tasks -> Pcs]
      BY <2>5 DEF Resume, DataOK, Pcs
    <3>4. QED
      BY <2>5, <3>1, <3>2, <3>3 DEF Resume, DataOK
  <2>6. CASE Open(t)
    BY <1>2, <2>6 DEF Open, DataOK, Pcs
  <2>7. CASE Store(t)
    <3>1. data[t] \in Dict
      BY DEF DataOK
    <3>2. QED BY <1>1, <2>7, <3>1 DEF Store, DataOK, Pcs
  <2>8. CASE Finish(t)
    <3>1. written' \in [Keys -> SUBSET (Values \cup {Nothing})]
      BY <2>0, <2>8, ValuesAccounted DEF Finish
    <3>2. QED BY <2>8, <3>1 DEF Finish, DataOK, Pcs
  <2>9. CASE WriteFails(t)
    BY <1>3, <2>9 DEF WriteFails, DataOK, Pcs
  <2>10. QED
    BY <1>4, <2>1, <2>2, <2>3, <2>4, <2>5, <2>6, <2>7, <2>8, <2>9, <2>11 DEF Step
<1>5. ASSUME NEW t \in Tasks, Cancel(t) PROVE DataOK'
  <2>0. op[t] \in Ops /\ Value(op[t]) \in Values \cup {Nothing} /\ op[t].key \in Keys
    BY DictFacts DEF DataOK
  <2>1. orphans' \in Seq(Orphan) /\ Len(orphans') <= MaxOrphans /\ harm' \subseteq {"cancel", "fault"}
    <3>1. CASE UNCHANGED <<orphans, harm>>
      BY <3>1 DEF DataOK
    <3>2. CASE /\ Len(orphans) < MaxOrphans
               /\ orphans' = Append(orphans, [data |-> data[t], open |-> pc[t] = "open"])
               /\ harm' = harm \cup {"cancel"}
      <4>1. [data |-> data[t], open |-> pc[t] = "open"] \in Orphan
        BY DEF Orphan, DataOK
      <4>2. orphans' \in Seq(Orphan) /\ Len(orphans') = Len(orphans) + 1 /\ Len(orphans) \in Nat
        BY <3>2, <4>1, AppendProperties, LenProperties DEF DataOK
      <4>3. QED BY <3>2, <4>2, StorageBounds DEF DataOK
    <3>3. QED BY <1>5, <3>1, <3>2 DEF Cancel
  <2>2. written' \in [Keys -> SUBSET (Values \cup {Nothing})]
    <3>1. written[op[t].key] \cup {Value(op[t])} \in SUBSET (Values \cup {Nothing})
      BY <2>0 DEF DataOK
    <3>2. \/ written' = written
          \/ written' = [written EXCEPT ![op[t].key] = written[op[t].key] \cup {Value(op[t])}]
      BY <1>5 DEF Cancel
    <3>3. QED BY <2>0, <3>1, <3>2, ValuesAccounted DEF DataOK
  <2>3. pc' \in [Tasks -> Pcs]
    BY <1>5 DEF Cancel, DataOK, Pcs
  <2>4. QED
    BY <1>5, <2>1, <2>2, <2>3 DEF Cancel, DataOK
<1>6. ASSUME NEW i \in DOMAIN orphans, OrphanOpen(i) \/ OrphanStore(i) PROVE DataOK'
  <2>1. /\ orphans[i].data \in Dict /\ Len(orphans) \in Nat
        /\ orphans' \in Seq(Orphan) /\ Len(orphans') <= Len(orphans)
    <3> DEFINE opened == [orphans EXCEPT ![i].open = TRUE]
               stored == RemoveAt(orphans, i)
    <3>1. /\ orphans[i].data \in Dict
          /\ opened \in Seq(Orphan) /\ Len(opened) = Len(orphans)
          /\ stored \in Seq(Orphan) /\ Len(stored) = Len(orphans) - 1
      BY <1>6, OrphanFacts
    <3>2. Len(orphans) \in Nat
      BY LenProperties DEF DataOK
    <3>3. orphans' = opened \/ orphans' = stored
      BY <1>6 DEF OrphanOpen, OrphanStore
    <3> HIDE DEF opened, stored
    <3>4. QED BY <3>1, <3>2, <3>3
  <2>2. Len(orphans') <= MaxOrphans
    BY <2>1, LenProperties, StorageBounds DEF DataOK
  <2>3. disk' \in Dict \cup {Torn} /\ before' \in Dict /\ clash' \in BOOLEAN
    BY <1>1, <1>2, <1>6, <2>1 DEF OrphanOpen, OrphanStore
  <2>4. QED
    BY <1>6, <2>1, <2>2, <2>3 DEF OrphanOpen, OrphanStore, DataOK
<1>7. CASE Crash
  <2>1. written' \in [Keys -> SUBSET (Values \cup {Nothing})]
    <3>1. \A u \in Tasks : Value(op[u]) \in Values \cup {Nothing}
      BY DictFacts DEF DataOK
    <3>2. \A k \in Keys : {Value(op[u]) : u \in {u \in Tasks : (Writing(u) \/ pc[u] = "stored") /\ op[u].key = k}}
                            \in SUBSET (Values \cup {Nothing})
      BY <3>1
    <3>3. QED BY <1>7, <3>2 DEF Crash, DataOK
  <2>2. orphans' \in Seq(Orphan) /\ Len(orphans') = 0
    BY <1>7 DEF Crash
  <2>3. pc' \in [Tasks -> Pcs] /\ Len(orphans') <= MaxOrphans
    BY <1>7, <2>2, StorageBounds DEF Crash, Pcs
  <2>4. clash' \in BOOLEAN /\ harm' \subseteq {"cancel", "fault"}
    BY <1>7 DEF Crash, DataOK
  <2>5. UNCHANGED <<fileVars, op, data, blind, calls>>
    BY <1>7 DEF Crash
  <2>6. QED
    BY <2>1, <2>2, <2>3, <2>4, <2>5 DEF DataOK
<1>8. CASE UNCHANGED vars
  BY <1>8 DEF vars, DataOK
<1>9. QED
  BY <1>4, <1>5, <1>6, <1>7, <1>8 DEF Next

LEMMA InitTypes ==
  ASSUME Init
  PROVE  LockOK /\ DataOK
<1>1. \E o \in Ops : o.kind = "get"
  <2>1. PICK k \in Keys, v \in Values : TRUE
    BY ContentAssumption
  <2>2. [kind |-> "get", key |-> k, val |-> v] \in Ops
    BY DEF Ops
  <2>3. QED BY <2>2
<1>2. op \in [Tasks -> Ops]
  BY <1>1 DEF Init
<1>3. LockOK
  BY DEF Init, LockOK, IsInjective, ToSet
<1>4. DataOK
  <2>1. orphans \in Seq(Orphan) /\ Len(orphans) = 0 /\ calls \in 0 .. MaxCalls
    BY StorageBounds DEF Init
  <2>2. /\ disk \in Dict /\ before \in Dict /\ data \in [Tasks -> Dict]
        /\ blind \in [Tasks -> BOOLEAN]
    BY DictFacts DEF Init
  <2>3. pc \in [Tasks -> Pcs] /\ written \in [Keys -> SUBSET (Values \cup {Nothing})]
    BY DEF Init, Pcs
  <2>4. clash \in BOOLEAN /\ harm \subseteq {"cancel", "fault"}
    BY DEF Init
  <2>5. QED BY <1>2, <2>1, <2>2, <2>3, <2>4, StorageBounds DEF DataOK
<1>5. QED BY <1>3, <1>4

(* Every variable keeps its type; the lock's queue holds exactly the         *)
(* operations under way, each once, and only its head is past the lock.      *)
THEOREM TypeCorrect == Spec => []TypeOK
<1>1. (LockOK /\ DataOK) /\ [Next]_vars => (LockOK /\ DataOK)'
  BY LockPreserved, DataPreserved
<1>2. QED
  BY <1>1, InitTypes, TypeParts, PTL DEF Spec

-------------------------------------------------------------------------------
(* The file implements the map. *)

\* The map: the file, or what it was before the write now under way truncated it.
File == IF disk = Torn THEN before ELSE disk
\* The map as task t's operation sees it.
Base(t) == IF blind[t] THEN Empty ELSE File
Stages == [t \in Tasks |-> Stage(t)]
Results == [t \in Tasks |-> Result(t)]

\* Until a write is abandoned half way, the file is torn only while a task has it open,
\* and what a task read or is about to write is the map as it sees it or that map after
\* its operation: nobody wrote the file since the task read it.  An operation that could
\* not read the file has found no key to delete.
Undivided ==
  harm = {} =>
    /\ orphans = << >> /\ clash = FALSE
    /\ disk = Torn <=> \E t \in Tasks : pc[t] = "open"
    /\ \A t \in Tasks :
         /\ pc[t] \in {"lock", "read"} => ~blind[t]
         /\ pc[t] = "loaded" => data[t] = Base(t)
         /\ Writing(t) => /\ op[t].kind = "set" \/ (op[t].kind = "delete" /\ ~blind[t])
                          /\ data[t] = [Base(t) EXCEPT ![op[t].key] = Value(op[t])]

(* Only one task is past the lock.                                           *)
LEMMA Alone ==
  ASSUME LockOK, NEW t \in Tasks, NEW u \in Tasks,
         pc[t] \notin {"idle", "lock"}, pc[u] \notin {"idle", "lock"}
  PROVE  t = u
BY DEF LockOK, Holds

LEMMA HarmStays ==
  ASSUME [Next]_vars, harm' = {}
  PROVE  harm = {}
BY DEF Next, vars, fileVars, taskVars, threadVars, Call, Step, Acquire, Read, ReadBlind, ReadRaises,
       Resume, Open, Store, Finish, WriteFails, Cancel, OrphanOpen, OrphanStore, Crash

LEMMA UndividedPreserved ==
  ASSUME LockOK, DataOK, Undivided, [Next]_vars
  PROVE  Undivided'
<1> SUFFICES ASSUME harm' = {} PROVE Undivided'
  BY DEF Undivided
<1> USE DEF taskVars, fileVars, threadVars
<1>1. /\ harm = {} /\ orphans = << >> /\ clash = FALSE
      /\ disk = Torn <=> \E t \in Tasks : pc[t] = "open"
      /\ \A t \in Tasks :
           /\ pc[t] \in {"lock", "read"} => ~blind[t]
           /\ pc[t] = "loaded" => data[t] = Base(t)
           /\ Writing(t) => /\ op[t].kind = "set" \/ (op[t].kind = "delete" /\ ~blind[t])
                            /\ data[t] = [Base(t) EXCEPT ![op[t].key] = Value(op[t])]
  BY HarmStays DEF Undivided
<1>2. Torn \notin Dict /\ disk \in Dict \cup {Torn}
  BY TornAssumption DEF Dict, DataOK
<1>3. ASSUME NEW t \in Tasks, Call(t) \/ Step(t) \/ Cancel(t) PROVE Undivided'
  <2>0. /\ \A u \in Tasks : Writing(u) => pc[u] \in {"write", "open"}
        /\ \A u \in Tasks : u # t => /\ pc'[u] = pc[u] /\ op'[u] = op[u]
                                   /\ data'[u] = data[u] /\ blind'[u] = blind[u]
    BY <1>3 DEF Writing, Call, Step, Acquire, Read, ReadBlind, ReadRaises, Resume, Open, Store, Finish,
                WriteFails, Cancel, DataOK
  <2>1. CASE Call(t)
    BY <1>1, <2>0, <2>1 DEF Call, Undivided, Writing, Base, File, DataOK
  <2>2. CASE Acquire(t)
    BY <1>1, <2>0, <2>2 DEF Acquire, Undivided, Writing, Base, File, DataOK
  <2>3. CASE Read(t)
    <3>1. \A u \in Tasks : pc[u] # "open"
      BY <2>3, Alone DEF Read
    <3>2. QED
      BY <1>1, <2>0, <2>3, <3>1 DEF Read, Undivided, Writing, Base, File, DataOK
  <2>4. CASE ReadRaises(t)
    BY <1>1, <2>0, <2>4 DEF ReadRaises, Undivided, Writing, Base, File, DataOK
  <2>12. CASE ReadBlind(t)
    <3>1. \A u \in Tasks : pc[u] # "open"
      BY <2>12, Alone DEF ReadBlind
    <3>2. QED
      BY <1>1, <2>0, <2>12, <3>1 DEF ReadBlind, Undivided, Writing, Base, File, DataOK
  <2>5. CASE Resume(t)
    <3>1. CASE Writes(op[t], data[t])
      <4>1. /\ data[t] = Base(t)
            /\ data' = [data EXCEPT ![t] = [data[t] EXCEPT ![op[t].key] = Value(op[t])]]
        BY <1>1, <2>5, <3>1 DEF Resume
      <4>2. data'[t] = [Base(t) EXCEPT ![op[t].key] = Value(op[t])]
        BY <4>1 DEF DataOK
      <4>6. op[t].kind = "set" \/ (op[t].kind = "delete" /\ ~blind[t])
        <5>1. op[t].key \in Keys
          BY DictFacts DEF DataOK
        <5>2. blind[t] => data[t][op[t].key] = Nothing
          BY <4>1, <5>1 DEF Base, Empty
        <5>3. QED BY <3>1, <5>2 DEF Writes, DataOK
      <4>3. /\ pc' = [pc EXCEPT ![t] = "write"]
            /\ UNCHANGED <<disk, before, op, blind, orphans, clash, harm>>
        BY <2>5, <3>1 DEF Resume
      <4>4. File' = File /\ pc[t] = "loaded"
        BY <2>5, <4>3 DEF File, Resume
      <4>5. QED
        BY <1>1, <2>0, <4>1, <4>2, <4>3, <4>4, <4>6 DEF Undivided, Writing, Base, DataOK
    <3>2. CASE ~ Writes(op[t], data[t])
      BY <1>1, <2>0, <2>5, <3>2 DEF Resume, Undivided, Writing, Base, File, DataOK
    <3>3. QED BY <3>1, <3>2
  <2>6. CASE Open(t)
    <3>1. Opened = {} /\ OpenOrphans = {} /\ disk # Torn
      BY <1>1, <2>6, Alone DEF Open, Opened, OpenOrphans
    <3>2. /\ clash' = FALSE /\ disk' = Torn /\ before' = disk /\ pc[t] = "write"
          /\ pc' = [pc EXCEPT ![t] = "open"]
          /\ UNCHANGED <<lock, op, data, blind, orphans, calls, harm, written>>
      BY <1>1, <2>6, <3>1 DEF Open, Truncate
    <3>3. File' = File
      BY <3>1, <3>2 DEF File
    <3>4. QED
      BY <1>1, <2>0, <3>2, <3>3 DEF Undivided, Writing, Base, DataOK
  <2>7. CASE Store(t)
    <3>1. /\ disk' = data[t] /\ clash' = FALSE /\ pc[t] = "open"
          /\ pc' = [pc EXCEPT ![t] = "stored"]
          /\ UNCHANGED <<lock, op, data, blind, orphans, calls, harm, written, before>>
      BY <1>1, <2>7 DEF Store, Fill, ClashGoesOn
    <3>2. disk' # Torn
      BY <1>2, <3>1 DEF DataOK
    <3>3. \A u \in Tasks : u # t => pc[u] \in {"idle", "lock"}
      BY <3>1, Alone
    <3>4. QED
      BY <1>1, <2>0, <3>1, <3>2, <3>3 DEF Undivided, Writing, Base, DataOK
  <2>8. CASE Finish(t)
    BY <1>1, <2>0, <2>8 DEF Finish, Undivided, Writing, Base, File, DataOK
  <2>9. CASE WriteFails(t)
    <3>1. pc[t] = "write"
      BY <2>9 DEF WriteFails, Writing
    <3>2. QED
      BY <1>1, <2>0, <2>9, <3>1 DEF WriteFails, ClashGoesOn, Undivided, Writing, Base, File, DataOK
  <2>10. CASE Cancel(t)
    <3>1. pc[t] # "open" /\ UNCHANGED orphans
      BY <2>10 DEF Cancel
    <3>2. QED
      BY <1>1, <2>0, <2>10, <3>1 DEF Cancel, Undivided, Writing, Base, File, DataOK
  <2>11. QED
    BY <1>3, <2>1, <2>2, <2>3, <2>4, <2>5, <2>6, <2>7, <2>8, <2>9, <2>10, <2>12 DEF Step
<1>4. CASE \E i \in DOMAIN orphans : OrphanOpen(i) \/ OrphanStore(i)
  BY <1>1, <1>4
<1>5. CASE Crash
  BY <1>1, <1>5 DEF Crash, Opened, Undivided, Writing, Base, File
<1>6. CASE UNCHANGED vars
  BY <1>1, <1>6 DEF vars, Undivided, Writing, Base, File
<1>7. QED
  BY <1>3, <1>4, <1>5, <1>6 DEF Next

(* A step of one operation changes the map's view of that operation only.    *)
LEMMA OneOperation ==
  ASSUME NEW t \in Tasks,
         \A u \in Tasks : u # t => /\ pc'[u] = pc[u] /\ op'[u] = op[u]
                                   /\ data'[u] = data[u] /\ blind'[u] = blind[u]
  PROVE  /\ Stages' = [Stages EXCEPT ![t] = Stage(t)']
         /\ Results' = [Results EXCEPT ![t] = Result(t)']
<1>1. \A u \in Tasks : u # t => Stage(u)' = Stage(u) /\ Result(u)' = Result(u)
  BY DEF Stage, Result, Writes
<1>2. \A u \in Tasks : /\ Stage(u)' = IF u = t THEN Stage(t)' ELSE Stage(u)
                      /\ Result(u)' = IF u = t THEN Result(t)' ELSE Result(u)
  BY <1>1
<1>3. PICK s, r : s = Stage(t)' /\ r = Result(t)'
  OBVIOUS
<1>4. /\ [u \in Tasks |-> Stage(u)'] = [[u \in Tasks |-> Stage(u)] EXCEPT ![t] = s]
      /\ [u \in Tasks |-> Result(u)'] = [[u \in Tasks |-> Result(u)] EXCEPT ![t] = r]
  BY <1>2, <1>3
<1>5. QED
  BY <1>3, <1>4 DEF Stages, Results

(* While nothing was abandoned, an operation that is past the lock and does  *)
(* not yet, or does no longer, write finds the map in the file.              *)
LEMMA StepIsMapStep ==
  ASSUME LockOK, DataOK, LockOK', DataOK', Undivided, Undivided', [Next]_vars
  PROVE  [Map!Next]_(Map!vars)
<1> USE DEF taskVars, fileVars, threadVars
<1>1. CASE harm # {}
  <2>1. harm' # {}
    BY <1>1, HarmStays
  <2>2. QED
    BY <1>1, <2>1 DEF Map!Next, Map!Adrift
<1>2. CASE harm = {} /\ harm' # {}
  BY <1>2 DEF Map!Next, Map!Abandon
<1>3. CASE harm = {} /\ harm' = {}
  <2>1. /\ orphans = << >> /\ clash = FALSE
        /\ disk = Torn <=> \E t \in Tasks : pc[t] = "open"
        /\ \A t \in Tasks :
             /\ pc[t] \in {"lock", "read"} => ~blind[t]
             /\ pc[t] = "loaded" => data[t] = Base(t)
             /\ Writing(t) => /\ op[t].kind = "set" \/ (op[t].kind = "delete" /\ ~blind[t])
                              /\ data[t] = [Base(t) EXCEPT ![op[t].key] = Value(op[t])]
    BY <1>3 DEF Undivided
  <2>2. /\ \A t \in Tasks : pc'[t] = "loaded" => data'[t] = Base(t)'
        /\ disk' = Torn <=> \E t \in Tasks : pc'[t] = "open"
    BY <1>3 DEF Undivided
  <2>3. ASSUME NEW t \in Tasks, Call(t) \/ Step(t) \/ Cancel(t) PROVE [Map!Next]_(Map!vars)
    <3>0. \A u \in Tasks : u # t => /\ pc'[u] = pc[u] /\ op'[u] = op[u]
                                   /\ data'[u] = data[u] /\ blind'[u] = blind[u]
      BY <2>3 DEF Call, Step, Acquire, Read, ReadBlind, ReadRaises, Resume, Open, Store, Finish,
                  WriteFails, Cancel, DataOK
    <3>1. /\ Stages' = [Stages EXCEPT ![t] = Stage(t)']
          /\ Results' = [Results EXCEPT ![t] = Result(t)']
          /\ Stages[t] = Stage(t) /\ Results[t] = Result(t)
      BY <3>0, OneOperation DEF Stages, Results
    <3>3. ASSUME UNCHANGED <<op, blind>>, File' = File, Stage(t)' = Stage(t), Result(t)' = Result(t)
          PROVE  [Map!Next]_(Map!vars)
      <4>1. Stages' = Stages /\ Results' = Results
        <5>1. /\ [Stages EXCEPT ![t] = Stages[t]] = Stages
              /\ [Results EXCEPT ![t] = Results[t]] = Results
          BY DEF Stages, Results
        <5>2. QED BY <3>1, <3>3, <5>1
      <4>2. QED
        BY <1>3, <3>3, <4>1 DEF Map!vars, Stages, Results, File
    <3>4. ASSUME UNCHANGED <<op, blind>>, File' = File, pc[t] # "idle", pc'[t] = "idle"
          PROVE  [Map!Next]_(Map!vars)
      <4>1. Stage(t) # "idle" /\ Stage(t)' = "idle" /\ Result(t)' = Nothing
        BY <3>4 DEF Stage, Result
      <4>2. Map!Return(t)
        BY <1>3, <3>1, <3>4, <4>1 DEF Map!Return, Stages, Results, File
      <4>3. QED
        BY <1>3, <4>2 DEF Map!Next
    <3>5. ASSUME UNCHANGED <<op>>, Stage(t) = "called", Stage(t)' = "effective",
                 NEW b \in {blind[t], TRUE}, blind' = [blind EXCEPT ![t] = b],
                 File' = Map!After(op[t], Map!Seen(b)),
                 Result(t)' = IF op[t].kind = "get" THEN Map!Seen(b)[op[t].key] ELSE Nothing
          PROVE  [Map!Next]_(Map!vars)
      <4>1. Map!Perform(t)
        BY <1>3, <3>1, <3>5 DEF Map!Perform, Stages, Results, File
      <4>2. QED
        BY <1>3, <4>1 DEF Map!Next
    <3>18. \A b : Map!Seen(b) = IF b THEN Empty ELSE File
      BY DEF Map!Seen, Empty, File
    <3>19. [blind EXCEPT ![t] = blind[t]] = blind
      BY DEF DataOK
    <3>6. CASE Call(t)
      <4>1. /\ Stage(t) = "idle" /\ Stage(t)' = "called"
            /\ Result(t) = Nothing /\ Result(t)' = Nothing /\ File' = File
        BY <3>6 DEF Call, Stage, Result, File, DataOK
      <4>2. Results' = Results
        <5>1. [Results EXCEPT ![t] = Results[t]] = Results
          BY DEF Results
        <5>2. QED BY <3>1, <4>1, <5>1
      <4>3. \E o \in Map!Ops : op' = [op EXCEPT ![t] = o]
        BY <3>6 DEF Call, Ops, Map!Ops
      <4>6. blind' = [blind EXCEPT ![t] = FALSE]
        BY <3>6 DEF Call
      <4>4. Map!Call(t)
        BY <1>3, <3>1, <4>1, <4>2, <4>3, <4>6 DEF Map!Call, Stages, Results, File
      <4>5. QED
        BY <1>3, <4>4 DEF Map!Next
    <3>7. CASE Acquire(t)
      BY <3>3, <3>7 DEF Acquire, Stage, Result, File, DataOK
    <3>8. ASSUME pc[t] = "read", pc'[t] = "loaded", File' = File, UNCHANGED <<op>>,
                 NEW b \in {blind[t], TRUE}, blind' = [blind EXCEPT ![t] = b],
                 data'[t] = Map!Seen(b)
          PROVE  [Map!Next]_(Map!vars)
      <4>1. Stage(t) = "called" /\ Result(t) = Nothing
        BY <3>8 DEF Stage, Result
      <4>2. Map!Seen(b) \in Dict /\ op[t] \in Ops
        BY <3>18, DictFacts DEF File, DataOK
      <4>3. CASE Writes(op[t], Map!Seen(b))
        <5>1. op[t].kind # "get"
          BY <4>3 DEF Writes
        <5>2. Stage(t)' = "called" /\ Result(t)' = Nothing
          BY <3>8, <4>3, <5>1 DEF Stage, Result, Writes
        <5>3. CASE b = blind[t]
          BY <3>3, <3>8, <3>19, <4>1, <5>2, <5>3
        <5>4. CASE b = TRUE
          <6>1. Stages' = Stages /\ Results' = Results
            <7>1. /\ [Stages EXCEPT ![t] = Stages[t]] = Stages
                  /\ [Results EXCEPT ![t] = Results[t]] = Results
              BY DEF Stages, Results
            <7>2. QED BY <3>1, <4>1, <5>2, <7>1
          <6>2. Map!Misread(t)
            BY <1>3, <3>1, <3>8, <4>1, <5>4, <6>1 DEF Map!Misread, Stages, Results, File
          <6>3. QED BY <1>3, <6>2 DEF Map!Next
        <5>5. QED BY <5>3, <5>4
      <4>4. CASE ~ Writes(op[t], Map!Seen(b))
        <5>1. Stage(t)' = "effective"
          BY <3>8, <4>4 DEF Stage, Writes
        <5>2. Result(t)' = IF op[t].kind = "get" THEN Map!Seen(b)[op[t].key] ELSE Nothing
          BY <3>8 DEF Result
        <5>3. File = Map!After(op[t], Map!Seen(b))
          BY <4>2, <4>4 DEF Writes, Ops, Map!After, File
        <5>4. QED BY <3>5, <3>8, <4>1, <5>1, <5>2, <5>3
      <4>5. QED BY <4>3, <4>4
    <3>20. CASE Read(t)
      <4>1. /\ pc[t] = "read" /\ pc'[t] = "loaded" /\ data'[t] = Base(t)' /\ File' = File
            /\ UNCHANGED <<op, blind>>
        BY <2>2, <3>20 DEF Read, File, DataOK
      <4>2. data'[t] = Map!Seen(blind[t])
        BY <3>18, <4>1 DEF Base, Empty
      <4>3. QED BY <3>8, <3>19, <4>1, <4>2 DEF DataOK
    <3>21. CASE ReadBlind(t)
      <4>1. /\ pc[t] = "read" /\ pc'[t] = "loaded" /\ data'[t] = Empty /\ File' = File
            /\ UNCHANGED <<op>> /\ blind' = [blind EXCEPT ![t] = TRUE]
        BY <3>21 DEF ReadBlind, File, DataOK
      <4>2. data'[t] = Map!Seen(TRUE)
        BY <3>18, <4>1
      <4>3. QED BY <3>8, <4>1, <4>2
    <3>9. CASE ReadRaises(t)
      BY <3>4, <3>9 DEF ReadRaises, File, DataOK
    <3>10. CASE Resume(t) /\ Writes(op[t], data[t])
      <4>1. /\ pc[t] = "loaded" /\ pc'[t] = "write" /\ UNCHANGED <<op, blind>> /\ File' = File
            /\ op[t].kind # "get"
        BY <3>10 DEF Resume, Writes, File, DataOK
      <4>2. /\ Stage(t) = "called" /\ Stage(t)' = "called"
            /\ Result(t) = Nothing /\ Result(t)' = Nothing
        BY <3>10, <4>1 DEF Stage, Result
      <4>3. QED BY <3>3, <4>1, <4>2
    <3>11. CASE Resume(t) /\ ~ Writes(op[t], data[t])
      BY <3>4, <3>11 DEF Resume, File, DataOK
    <3>12. CASE Open(t)
      <4>1. disk # Torn
        BY <2>1, <3>12, Alone DEF Open
      <4>2. /\ pc[t] = "write" /\ pc'[t] = "open" /\ UNCHANGED <<op, blind>> /\ File' = File
        BY <3>12, <4>1 DEF Open, Truncate, File, DataOK
      <4>3. QED
        BY <3>3, <4>2 DEF Stage, Result
    <3>13. CASE Store(t)
      <4>1. /\ disk' = data[t] /\ pc[t] = "open" /\ pc'[t] = "stored" /\ UNCHANGED <<op, blind>>
        BY <2>1, <3>13 DEF Store, Fill, DataOK
      <4>2. disk' # Torn
        BY <4>1, TornAssumption DEF DataOK, Dict
      <4>3. /\ File' = [Base(t) EXCEPT ![op[t].key] = Value(op[t])]
            /\ op[t].kind = "set" \/ (op[t].kind = "delete" /\ ~blind[t])
        BY <2>1, <4>1, <4>2 DEF File, Writing
      <4>4. /\ Stage(t) = "called" /\ Stage(t)' = "effective" /\ Result(t)' = Nothing
        BY <4>1 DEF Stage, Result
      <4>5. Map!Seen(blind[t]) = Base(t)
        BY <3>18 DEF Base
      <4>6. File' = Map!After(op[t], Map!Seen(blind[t]))
        <5>1. CASE op[t].kind = "set"
          BY <4>3, <4>5, <5>1 DEF Map!After, Value
        <5>2. CASE op[t].kind = "delete" /\ ~blind[t]
          <6>1. Base(t) = File /\ File \in Dict /\ op[t].key \in Keys
            BY <5>2, DictFacts DEF Base, File, DataOK
          <6>2. File' = [File EXCEPT ![op[t].key] = Nothing]
            BY <4>3, <5>2, <6>1 DEF Value
          <6>3. File[op[t].key] = Nothing => [File EXCEPT ![op[t].key] = Nothing] = File
            BY <6>1 DEF Dict
          <6>4. Map!After(op[t], File) = IF File[op[t].key] = Nothing THEN File
                                          ELSE [File EXCEPT ![op[t].key] = Nothing]
            BY <5>2 DEF Map!After, File
          <6>5. QED BY <4>5, <6>1, <6>2, <6>3, <6>4
        <5>3. QED BY <4>3, <5>1, <5>2
      <4>7. Result(t)' = IF op[t].kind = "get" THEN Map!Seen(blind[t])[op[t].key] ELSE Nothing
        BY <4>3, <4>4
      <4>8. QED
        BY <3>5, <3>19, <4>1, <4>4, <4>6, <4>7
    <3>14. CASE Finish(t)
      BY <3>4, <3>14 DEF Finish, File, DataOK
    <3>15. CASE WriteFails(t)
      BY <3>4, <3>15 DEF WriteFails, Writing, File, DataOK
    <3>16. CASE Cancel(t)
      BY <3>4, <3>16 DEF Cancel, File, DataOK
    <3>17. QED
      BY <2>3, <3>6, <3>7, <3>9, <3>10, <3>11, <3>12, <3>13, <3>14, <3>15, <3>16, <3>20, <3>21 DEF Step
  <2>4. CASE \E i \in DOMAIN orphans : OrphanOpen(i) \/ OrphanStore(i)
    BY <2>1, <2>4
  <2>5. CASE Crash
    <3>1. \A t \in Tasks : Stage(t)' = "idle" /\ Result(t)' = Nothing
      BY <2>5 DEF Crash, Stage, Result
    <3>2. Stages' = [t \in Tasks |-> "idle"] /\ Results' = [t \in Tasks |-> Nothing]
      BY <3>1 DEF Stages, Results
    <3>3. Map!Restart
      BY <1>3, <2>5, <3>2 DEF Crash, Map!Restart, Stages, Results
    <3>4. QED
      BY <1>3, <3>3 DEF Map!Next
  <2>6. CASE UNCHANGED vars
    BY <1>3, <2>6 DEF vars, Map!vars, Stage, Result, Writes
  <2>7. QED
    BY <2>3, <2>4, <2>5, <2>6 DEF Next
<1>4. QED
  BY <1>1, <1>2, <1>3

(* storage/base.py: until a write is abandoned half way, the file is a map   *)
(* on which concurrent get(), set() and delete() take effect one at a time,  *)
(* whatever tasks are cancelled while they wait or read, whatever reads      *)
(* raise and wherever the process restarts between writes; but an operation  *)
(* whose read of the file failed with an OSError acts on an empty map, and   *)
(* its set() leaves no other key (KeyValueStore's blind operations).         *)
THEOREM FileIsTheMap == Spec => ImplementsMap
<1>1. Init => Undivided /\ Map!Init
  <2> SUFFICES ASSUME Init PROVE Undivided /\ Map!Init
    OBVIOUS
  <2>1. disk # Torn /\ \A t \in Tasks : pc[t] = "idle"
    BY DictFacts, TornAssumption DEF Init, Dict
  <2>2. Undivided
    BY <2>1 DEF Init, Undivided, Writing
  <2>3. op \in [Tasks -> Ops]
    BY InitTypes DEF DataOK
  <2>4. Map!Init
    <3>1. /\ [t \in Tasks |-> Stage(t)] = [t \in Tasks |-> "idle"]
          /\ [t \in Tasks |-> Result(t)] = [t \in Tasks |-> Nothing]
      BY <2>1 DEF Stage, Result
    <3>2. QED
      BY <2>1, <2>3, <3>1 DEF Init, Empty, Map!Init, Ops, Map!Ops
  <2>5. QED BY <2>2, <2>4
<1>2. (LockOK /\ DataOK /\ Undivided) /\ [Next]_vars => (LockOK /\ DataOK /\ Undivided)'
  BY LockPreserved, DataPreserved, UndividedPreserved
<1>3. (LockOK /\ DataOK /\ Undivided) /\ (LockOK /\ DataOK /\ Undivided)' /\ [Next]_vars
        => [Map!Next]_(Map!vars)
  BY StepIsMapStep
<1>4. QED
  BY <1>1, <1>2, <1>3, InitTypes, PTL DEF Spec, ImplementsMap, Map!Spec

================================================================================
