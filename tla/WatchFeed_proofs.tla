--------------------------- MODULE WatchFeed_proofs ---------------------------
(***************************************************************************)
(* Proofs about WatchFeed, for every finite set of watchers and items and  *)
(* every value of the bounds: type correctness; that an iteration which    *)
(* ends by itself has handed over every event; that the layer implements   *)
(* the abstract ChangeFeed; that no version is stored without its event.   *)
(***************************************************************************)
EXTENDS WatchFeed, TLAPS, FiniteSetTheorems, SequenceTheorems

EventsOf(w) == {e \in Entry : e.from = w /\ e.ver # 0}

(* An arrangement of the events of a set of items is a sequence of events.   *)
LEMMA ListedType ==
  ASSUME NEW w \in Watchers, NEW n \in Snapshot, NEW S \in SUBSET Items,
         \A i \in S : n[i] # 0, NEW b \in Listed(w, n, S)
  PROVE  b \in Seq(EventsOf(w))
<1> DEFINE T == {[from |-> w, ver |-> n[i]] : i \in S}
           f == [i \in S |-> [from |-> w, ver |-> n[i]]]
<1>1. IsFiniteSet(S)
  BY ItemsAssumption, FS_Subset
<1>2. f \in Surjection(S, T)
  BY DEF Surjection
<1>3. IsFiniteSet(T)
  <2> HIDE DEF T, f
  <2> QED BY <1>1, <1>2, FS_Surjection
<1>4. Cardinality(T) \in Nat
  BY <1>3, FS_CardinalityType
<1>5. b \in [1 .. Cardinality(T) -> T]
  BY DEF Listed, SetToSeqs
<1>6. T \subseteq EventsOf(w)
  BY DEF EventsOf, Entry, Snapshot
<1> HIDE DEF T
<1>7. QED
  BY <1>4, <1>5, <1>6, SeqDef

(* What to_events() yields for a delta are events of that watcher, never a   *)
(* sentinel.                                                                 *)
LEMMA AnnouncedType ==
  ASSUME NEW w \in Watchers, NEW o \in Snapshot, NEW n \in Snapshot,
         NEW b \in Announced(w, o, n)
  PROVE  b \in Seq(EventsOf(w))
<1>1. PICK a \in Listed(w, n, Added(o, n)),
           c \in IF ClassOf[w] \in ReportsChanges THEN Listed(w, n, Changed(o, n))
                                                  ELSE {<< >>} : b = a \o c
  BY DEF Announced
<1>2. a \in Seq(EventsOf(w))
  BY ListedType DEF Added
<1>3. c \in Seq(EventsOf(w))
  <2>1. CASE ClassOf[w] \in ReportsChanges
    BY <2>1, ListedType DEF Changed
  <2>2. CASE ClassOf[w] \notin ReportsChanges
    BY <2>2, <1>1
  <2>3. QED BY <2>1, <2>2
<1>4. QED
  BY <1>1, <1>2, <1>3, ConcatProperties

(* An initial part of a sequence of events, with a sentinel behind it.       *)
LEMMA CutType ==
  ASSUME NEW w \in Watchers, NEW b \in Seq(EventsOf(w)), NEW n \in 0 .. Len(b)
  PROVE  /\ SubSeq(b, 1, n) \in Seq(EventsOf(w))
         /\ Append(SubSeq(b, 1, n), DoneOf(w)) \in Seq(Entry)
<1>1. \A i \in 1 .. n : b[i] \in EventsOf(w)
  BY ElementOfSeq
<1>2. SubSeq(b, 1, n) \in Seq(EventsOf(w))
  BY <1>1, SubSeqProperties
<1>3. SubSeq(b, 1, n) \in Seq(Entry)
  BY <1>2, SeqMonotonic DEF EventsOf
<1>4. DoneOf(w) \in Entry
  BY DEF DoneOf, Entry
<1>5. QED BY <1>2, <1>3, <1>4

-------------------------------------------------------------------------------
(* Type correctness. *)

LEMMA BlankType == Blank \in Snapshot
BY DEF Blank, Snapshot

LEMMA NSType == TypeOK => \A w \in Watchers : NS(w) \in NameSpaces
BY ClassAssumption DEF TypeOK, NS, NameSpaces

LEMMA ConcatType ==
  ASSUME NEW q \in Seq(Entry), NEW w \in Watchers, NEW b \in Seq(EventsOf(w))
  PROVE  /\ b \in Seq(Entry)
         /\ q \o b \in Seq(Entry)
<1>1. b \in Seq(Entry)
  BY SeqMonotonic DEF EventsOf
<1>2. QED BY <1>1, ConcatProperties

LEMMA EndPumpType ==
  ASSUME TypeOK, NEW w \in Watchers, NEW es \in Seq(Entry), EndPump(w, es)
  PROVE  TypeOK'
<1>1. queue' \in Seq(Entry)
  BY ConcatProperties DEF TypeOK, EndPump
<1>2. QED
  BY <1>1, BlankType DEF TypeOK, EndPump, Goto, States, portalVars, lifeVars, consumerVars

LEMMA PumpType ==
  ASSUME TypeOK, NEW w \in Watchers, Pump(w)
  PROVE  TypeOK'
<1> USE DEF Goto, Running, portalVars, lifeVars, consumerVars
<1>0. NS(w) \in NameSpaces
  BY NSType
<1>1. CASE PollOk(w)
  BY <1>1 DEF PollOk, TypeOK, States
<1>2. CASE Load(w)
  BY <1>0, <1>2 DEF Load, TypeOK, States
<1>3. CASE Persist(w)
  BY <1>0, <1>3 DEF Persist, TypeOK, States
<1>4. CASE Emit(w)
  <2>1. PICK b \in Announced(w, old[w], items[w]) : queue' = queue \o b
    BY <1>4 DEF Emit
  <2>2. b \in Seq(EventsOf(w))
    BY <2>1, AnnouncedType DEF TypeOK
  <2>3. queue' \in Seq(Entry)
    BY <2>1, <2>2, ConcatType DEF TypeOK
  <2>4. QED
    BY <1>4, <2>3, BlankType DEF Emit, TypeOK, States
<1>5. CASE Fail(w)
  BY <1>5, BlankType DEF Fail, TypeOK, States
<1>6. CASE Wake(w)
  BY <1>6 DEF Wake, TypeOK, States
<1>7. CASE DropWatcher(w)
  <2>1. PICK b \in Announced(w, old[w], items[w]) : \E n \in 0 .. Len(b) :
               EndPump(w, Append(SubSeq(b, 1, n), DoneOf(w)))
    BY <1>7 DEF DropWatcher
  <2>2. b \in Seq(EventsOf(w))
    BY <2>1, AnnouncedType DEF TypeOK
  <2>3. QED
    BY <2>1, <2>2, CutType, EndPumpType
<1>8. CASE DeliverCancel(w)
  <2>1. <<DoneOf(w)>> \in Seq(Entry) /\ << >> \in Seq(Entry)
    BY DEF DoneOf, Entry
  <2>2. QED
    BY <1>8, <2>1, EndPumpType DEF DeliverCancel
<1>9. QED
  BY <1>1, <1>2, <1>3, <1>4, <1>5, <1>6, <1>7, <1>8 DEF Pump

LEMMA ConsumerType ==
  ASSUME TypeOK, Consumer
  PROVE  TypeOK'
<1> USE DEF portalVars, lifeVars, pumpVars
<1>1. CASE Start
  <2>1. Cardinality(Watchers) \in Nat
    BY WatchersAssumption, FS_CardinalityType
  <2>2. QED
    BY <1>1, <2>1 DEF Start, TypeOK, States
<1>2. CASE GetEvent
  <2>1. Head(queue) \in Entry /\ Tail(queue) \in Seq(Entry)
    BY <1>2, HeadTailProperties DEF GetEvent, TypeOK
  <2> DEFINE w == Head(queue).from
             v == Head(queue).ver
             i == history[v][2]
             x(e) == IF v > e THEN v ELSE e
  <2>2. w \in Watchers /\ v \in Nat
    BY <2>1 DEF Entry
  <2>3. /\ seen' = [seen EXCEPT ![w][i] = v]
        /\ everSeen' = [everSeen EXCEPT ![w][i] = IF v > @ THEN v ELSE @]
    BY <1>2 DEF GetEvent
  <2> HIDE DEF w, v, i
  <2>4. seen' \in [Watchers -> Snapshot] /\ everSeen' \in [Watchers -> Snapshot]
    <3>1. \A f \in [Watchers -> [Items -> Nat]] :
            /\ [f EXCEPT ![w][i] = v] \in [Watchers -> [Items -> Nat]]
            /\ [f EXCEPT ![w][i] = IF v > @ THEN v ELSE @] \in [Watchers -> [Items -> Nat]]
      BY <2>2
    <3>2. seen \in [Watchers -> Snapshot] /\ everSeen \in [Watchers -> Snapshot]
      BY DEF TypeOK
    <3>3. QED
      BY <2>3, <3>1, <3>2 DEF Snapshot
  <2>5. /\ UNCHANGED <<server, history, stored, addr, pc, items, old, cancelled>>
        /\ UNCHANGED <<active, consumer, starts, lives, inherited>>
        /\ queue' = Tail(queue) /\ told' = told + 1
    BY <1>2 DEF GetEvent, portalVars, lifeVars, pumpVars
  <2>6. QED
    BY <2>1, <2>4, <2>5 DEF TypeOK
<1>3. CASE GetDone
  <2>1. Tail(queue) \in Seq(Entry)
    BY <1>3, HeadTailProperties DEF GetDone, TypeOK
  <2>2. QED
    BY <1>3, <2>1 DEF GetDone, TypeOK
<1>4. CASE Stop
  BY <1>4 DEF Stop, TypeOK
<1>5. CASE Gathered
  BY <1>5 DEF Gathered, TypeOK
<1>6. QED
  BY <1>1, <1>2, <1>3, <1>4, <1>5 DEF Consumer

LEMMA PortalType ==
  ASSUME TypeOK, Portal
  PROVE  TypeOK'
<1>1. PICK w \in Watchers, i \in Items : Publish(w, i) \/ Withdraw(w, i)
  BY DEF Portal
<1>2. CASE Publish(w, i)
  <2>1. Len(history) \in Nat
    BY LenProperties DEF TypeOK
  <2>2. history' \in Seq(Watchers \X Items)
    BY <1>2 DEF Publish, TypeOK
  <2>3. server' \in [Watchers -> Snapshot]
    BY <1>2, <2>1 DEF Publish, TypeOK, Snapshot
  <2>4. QED
    BY <1>2, <2>2, <2>3 DEF Publish, TypeOK
<1>3. CASE Withdraw(w, i)
  BY <1>3 DEF Withdraw, TypeOK, Snapshot
<1>4. QED BY <1>1, <1>2, <1>3

LEMMA RestartType ==
  ASSUME TypeOK, Restart
  PROVE  TypeOK'
<1>1. addr' \in [Watchers -> Addrs]
  BY DEF Restart, Injection
<1>2. queue' \in Seq(Entry)
  BY DEF Restart
<1>3. QED
  BY <1>1, <1>2, BlankType DEF Restart, TypeOK, States, portalVars

(* Every variable keeps its type in every behaviour of the reactive layer.   *)
THEOREM TypeCorrect == Spec => []TypeOK
<1>1. Init => TypeOK
  BY AddrAssumption, BlankType DEF Init, TypeOK, States, Injection
<1>2. TypeOK /\ [Next]_vars => TypeOK'
  <2> SUFFICES ASSUME TypeOK, [Next]_vars PROVE TypeOK'
    OBVIOUS
  <2>1. CASE \E w \in Watchers : Pump(w)
    BY <2>1, PumpType
  <2>2. CASE Consumer
    BY <2>2, ConsumerType
  <2>3. CASE Portal
    BY <2>3, PortalType
  <2>4. CASE Restart
    BY <2>4, RestartType
  <2>5. CASE UNCHANGED vars
    BY <2>5 DEF vars, TypeOK
  <2>6. QED
    BY <2>1, <2>2, <2>3, <2>4, <2>5 DEF Next
<1>3. QED
  BY <1>1, <1>2, PTL DEF Spec

-------------------------------------------------------------------------------
(* How the queue's contents change.                                          *)

(* Entries of one pump join the queue at the end: what is queued of the      *)
(* others, and their sentinels, stay as they are.                            *)
LEMMA JoinQueue ==
  ASSUME queue \in Seq(Entry), NEW b \in Seq(Entry), NEW w \in Watchers,
         \A n \in 1 .. Len(b) : b[n].from = w,
         queue' = queue \o b
  PROVE  /\ \A u \in Watchers : u # w => /\ Queued(u)' <=> Queued(u)
                                         /\ HasDone(u)' <=> HasDone(u)
         /\ HasDone(w)' <=> HasDone(w) \/ \E n \in 1 .. Len(b) : IsDone(b[n])
<1>1. /\ Len(queue) \in Nat /\ Len(b) \in Nat
      /\ Len(queue') = Len(queue) + Len(b)
      /\ \A n \in 1 .. Len(queue') :
           queue'[n] = IF n <= Len(queue) THEN queue[n] ELSE b[n - Len(queue)]
  BY ConcatProperties, LenProperties
<1>2. \A n \in 1 .. Len(queue) : n \in 1 .. Len(queue') /\ queue'[n] = queue[n]
  BY <1>1
<1>3. \A n \in 1 .. Len(b) : /\ Len(queue) + n \in 1 .. Len(queue')
                             /\ queue'[Len(queue) + n] = b[n]
  BY <1>1
<1>4. \A n \in 1 .. Len(queue') :
        \/ n \in 1 .. Len(queue) /\ queue'[n] = queue[n]
        \/ n - Len(queue) \in 1 .. Len(b) /\ queue'[n] = b[n - Len(queue)]
  BY <1>1
<1>5. ASSUME NEW u \in Watchers, u # w
      PROVE  (Queued(u)' <=> Queued(u)) /\ (HasDone(u)' <=> HasDone(u))
  <2>1. \A n \in 1 .. Len(queue') :
          queue'[n].from = u => n \in 1 .. Len(queue) /\ queue'[n] = queue[n]
    BY <1>4, <1>5
  <2>2. QED
    BY <1>2, <2>1 DEF Queued, HasDone, IsDone
<1>6. ASSUME HasDone(w)'
      PROVE  HasDone(w) \/ \E n \in 1 .. Len(b) : IsDone(b[n])
  BY <1>4, <1>6 DEF HasDone, IsDone
<1>7. HasDone(w) => HasDone(w)'
  BY <1>2 DEF HasDone, IsDone
<1>8. (\E n \in 1 .. Len(b) : IsDone(b[n])) => HasDone(w)'
  BY <1>3 DEF HasDone, IsDone
<1>9. QED
  BY <1>5, <1>6, <1>7, <1>8

(* ... and if the pump had put no sentinel, and puts one only as its last    *)
(* entry, every sentinel is still behind all entries of its pump.            *)
LEMMA JoinOrder ==
  ASSUME queue \in Seq(Entry), NEW b \in Seq(Entry), NEW w \in Watchers,
         \A n \in 1 .. Len(b) : b[n].from = w,
         \A n \in 1 .. Len(b) : IsDone(b[n]) => n = Len(b),
         queue' = queue \o b, NothingAfterDone, ~HasDone(w)
  PROVE  NothingAfterDone'
<1>1. /\ Len(queue) \in Nat /\ Len(b) \in Nat
      /\ Len(queue') = Len(queue) + Len(b)
      /\ \A n \in 1 .. Len(queue') :
           queue'[n] = IF n <= Len(queue) THEN queue[n] ELSE b[n - Len(queue)]
  BY ConcatProperties, LenProperties
<1>2. SUFFICES ASSUME NEW m \in 1 .. Len(queue'), NEW n \in 1 .. Len(queue'),
                      m < n, IsDone(queue'[m])
               PROVE  queue'[n].from # queue'[m].from
  BY DEF NothingAfterDone, IsDone
<1>3. CASE n <= Len(queue)
  BY <1>1, <1>2, <1>3 DEF NothingAfterDone, IsDone
<1>4. CASE m <= Len(queue) /\ n > Len(queue)
  <2>1. queue'[n].from = w
    BY <1>1, <1>4
  <2>2. queue'[m].from # w
    BY <1>1, <1>2, <1>4 DEF HasDone, IsDone
  <2>3. QED BY <2>1, <2>2
<1>5. CASE m > Len(queue)
  <2>1. m - Len(queue) \in 1 .. Len(b) /\ queue'[m] = b[m - Len(queue)]
    BY <1>1, <1>5
  <2>2. m - Len(queue) = Len(b)
    BY <1>2, <2>1
  <2>3. QED
    BY <1>1, <1>2, <2>2
<1>6. QED
  BY <1>1, <1>3, <1>4, <1>5

(* The consumer takes the first entry.                                       *)
LEMMA LeaveQueue ==
  ASSUME queue \in Seq(Entry), queue # << >>, queue' = Tail(queue), NothingAfterDone
  PROVE  /\ NothingAfterDone'
         /\ \A u \in Watchers : /\ Queued(u)' => Queued(u)
                                /\ HasDone(u)' => HasDone(u)
         /\ ~IsDone(Head(queue)) => \A u \in Watchers : HasDone(u)' <=> HasDone(u)
         /\ IsDone(Head(queue)) =>
              \A u \in Watchers :
                IF u = Head(queue).from THEN ~Queued(u)' /\ ~HasDone(u)'
                                        ELSE HasDone(u)' <=> HasDone(u)
<1>1. /\ Len(queue) \in Nat /\ Len(queue) >= 1
      /\ Len(queue') = Len(queue) - 1
      /\ \A n \in 1 .. Len(queue') : queue'[n] = queue[n + 1]
      /\ Head(queue) = queue[1]
  BY HeadTailProperties, LenProperties, EmptySeq
<1>2. \A n \in 1 .. Len(queue') : n + 1 \in 1 .. Len(queue) /\ queue'[n] = queue[n + 1]
  BY <1>1
<1>3. \A n \in 1 .. Len(queue) :
        n = 1 \/ (n - 1 \in 1 .. Len(queue') /\ queue[n] = queue'[n - 1])
  BY <1>1
<1>4. NothingAfterDone'
  BY <1>1, <1>2 DEF NothingAfterDone, IsDone
<1>5. \A u \in Watchers : /\ Queued(u)' => Queued(u)
                          /\ HasDone(u)' => HasDone(u)
  BY <1>2 DEF Queued, HasDone, IsDone
<1>6. ASSUME ~IsDone(Head(queue))
      PROVE  \A u \in Watchers : HasDone(u)' <=> HasDone(u)
  BY <1>1, <1>3, <1>5, <1>6 DEF HasDone, IsDone
<1>7. ASSUME IsDone(Head(queue)), NEW u \in Watchers
      PROVE  IF u = Head(queue).from THEN ~Queued(u)' /\ ~HasDone(u)'
                                     ELSE HasDone(u)' <=> HasDone(u)
  <2>1. \A n \in 1 .. Len(queue') : queue'[n].from # queue[1].from
    <3> TAKE n \in 1 .. Len(queue')
    <3>1. 1 \in 1 .. Len(queue) /\ 1 < n + 1
      BY <1>1
    <3>2. QED
      BY <1>1, <1>2, <1>7, <3>1 DEF NothingAfterDone
  <2>2. CASE u = Head(queue).from
    BY <1>1, <2>1, <2>2 DEF Queued, HasDone
  <2>3. CASE u # Head(queue).from
    <3>1. ASSUME HasDone(u) PROVE HasDone(u)'
      <4>1. PICK n \in 1 .. Len(queue) : queue[n].from = u /\ IsDone(queue[n])
        BY <3>1 DEF HasDone
      <4>2. n # 1
        BY <1>1, <2>3, <4>1
      <4>3. QED
        BY <1>3, <4>1, <4>2 DEF HasDone, IsDone
    <3>2. QED BY <1>5, <2>3, <3>1
  <2>4. QED BY <2>2, <2>3
<1>8. QED
  BY <1>4, <1>5, <1>6, <1>7

-------------------------------------------------------------------------------
(* The accounting of pumps and sentinels. *)

\* What a pump may put into the queue while it runs, and when it ends.
Batch(w, b) == /\ b \in Seq(Entry)
               /\ \A n \in 1 .. Len(b) : b[n].from = w
               /\ \A n \in 1 .. Len(b) : IsDone(b[n]) => n = Len(b)

LEMMA EventBatch ==
  ASSUME NEW w \in Watchers, NEW b \in Seq(EventsOf(w))
  PROVE  /\ Batch(w, b)
         /\ \A n \in 1 .. Len(b) : ~IsDone(b[n])
<1>1. \A n \in 1 .. Len(b) : b[n] \in EventsOf(w)
  BY ElementOfSeq
<1>2. b \in Seq(Entry)
  BY SeqMonotonic DEF EventsOf
<1>3. QED
  BY <1>1, <1>2 DEF Batch, EventsOf, IsDone

LEMMA ClosedBatch ==
  ASSUME NEW w \in Watchers, NEW b \in Seq(EventsOf(w))
  PROVE  /\ Batch(w, Append(b, DoneOf(w)))
         /\ \E n \in 1 .. Len(Append(b, DoneOf(w))) : IsDone(Append(b, DoneOf(w))[n])
<1>1. b \in Seq(Entry) /\ DoneOf(w) \in Entry
  <2>1. b \in Seq(Entry)
    BY SeqMonotonic DEF EventsOf
  <2>2. QED BY <2>1 DEF DoneOf, Entry
<1>2. \A n \in 1 .. Len(b) : b[n] \in EventsOf(w)
  BY ElementOfSeq
<1> DEFINE c == Append(b, DoneOf(w))
<1>3. /\ c \in Seq(Entry) /\ Len(b) \in Nat /\ Len(c) = Len(b) + 1
      /\ \A n \in 1 .. Len(b) : c[n] = b[n]
      /\ c[Len(b) + 1] = DoneOf(w)
  BY <1>1, LenProperties
<1>4. \A n \in 1 .. Len(c) : n \in 1 .. Len(b) \/ n = Len(c)
  BY <1>3
<1>5. Len(c) \in 1 .. Len(c)
  BY <1>3
<1> HIDE DEF c
<1>6. Batch(w, c)
  BY <1>2, <1>3, <1>4 DEF Batch, EventsOf, IsDone, DoneOf
<1>7. \E n \in 1 .. Len(c) : IsDone(c[n])
  BY <1>3, <1>5 DEF IsDone, DoneOf
<1>8. QED BY <1>6, <1>7 DEF c

(* A step of a pump that leaves it running and queues only events.           *)
LEMMA PumpGoesOn ==
  ASSUME TypeOK, Accounting, NEW w \in Watchers, NEW b \in Seq(EventsOf(w)),
         pc[w] # "ended", queue' = queue \o b,
         NEW to \in States \ {"ended"}, Goto(w, to),
         UNCHANGED <<cancelled, active, consumer>>
  PROVE  Accounting'
<1>1. \A u \in Watchers : pc'[u] # "ended" <=> pc[u] # "ended"
  BY DEF Goto, TypeOK
<1>2. /\ \A u \in Watchers : u # w => /\ Queued(u)' <=> Queued(u)
                                      /\ HasDone(u)' <=> HasDone(u)
      /\ HasDone(w)' <=> HasDone(w)
  BY EventBatch, JoinQueue DEF TypeOK, Batch
<1>3. ASSUME consumer' = "run"
      PROVE  /\ active' = Cardinality(Awaited') /\ active' > 0
             /\ NothingAfterDone'
             /\ \A u \in Watchers : /\ pc'[u] # "ended" => ~HasDone(u)'
                                    /\ Queued(u)' => u \in Awaited'
  <2>1. Awaited' = Awaited
    BY <1>1, <1>2 DEF Awaited
  <2>2. ~HasDone(w)
    BY <1>3 DEF Accounting
  <2>3. NothingAfterDone'
    BY <1>3, <2>2, EventBatch, JoinOrder DEF Accounting, TypeOK, Batch
  <2>4. w \in Awaited'
    BY <1>1 DEF Awaited
  <2>5. QED
    BY <1>1, <1>2, <1>3, <2>1, <2>3, <2>4 DEF Accounting
<1>4. FinishedIsDrained'
  BY DEF Accounting, FinishedIsDrained
<1>5. consumer' = "off" => \A u \in Watchers : pc'[u] = "ended"
  BY DEF Accounting
<1>6. \A u \in Watchers : cancelled'[u] => consumer' = "closing" /\ pc'[u] # "ended"
  BY <1>1 DEF Accounting
<1>7. QED BY <1>3, <1>4, <1>5, <1>6 DEF Accounting

(* A pump ends and leaves its sentinel; while the consumer iterates it       *)
(* always does.                                                              *)
LEMMA PumpEnds ==
  ASSUME TypeOK, Accounting, NEW w \in Watchers, NEW b, Batch(w, b),
         consumer = "run" => \E n \in 1 .. Len(b) : IsDone(b[n]),
         pc[w] # "ended", EndPump(w, b)
  PROVE  Accounting'
<1> USE DEF EndPump, Goto, consumerVars
<1>1. \A u \in Watchers : pc'[u] = IF u = w THEN "ended" ELSE pc[u]
  BY DEF TypeOK
<1>2. /\ \A u \in Watchers : u # w => /\ Queued(u)' <=> Queued(u)
                                      /\ HasDone(u)' <=> HasDone(u)
      /\ HasDone(w)' <=> HasDone(w) \/ \E n \in 1 .. Len(b) : IsDone(b[n])
  BY JoinQueue DEF TypeOK, Batch
<1>3. ASSUME consumer' = "run"
      PROVE  /\ active' = Cardinality(Awaited') /\ active' > 0
             /\ NothingAfterDone'
             /\ \A u \in Watchers : /\ pc'[u] # "ended" => ~HasDone(u)'
                                    /\ Queued(u)' => u \in Awaited'
  <2>1. HasDone(w)'
    BY <1>2, <1>3
  <2>2. Awaited' = Awaited
    BY <1>1, <1>2, <2>1 DEF Awaited
  <2>3. ~HasDone(w)
    BY <1>3 DEF Accounting
  <2>4. NothingAfterDone'
    BY <1>3, <2>3, JoinOrder DEF Accounting, TypeOK, Batch
  <2>5. w \in Awaited'
    BY <2>1 DEF Awaited
  <2>6. QED
    BY <1>1, <1>2, <1>3, <2>2, <2>4, <2>5 DEF Accounting, TypeOK
<1>4. FinishedIsDrained'
  BY DEF Accounting, FinishedIsDrained
<1>5. consumer' = "off" => \A u \in Watchers : pc'[u] = "ended"
  BY <1>1 DEF Accounting
<1>6. \A u \in Watchers : cancelled'[u] => consumer' = "closing" /\ pc'[u] # "ended"
  BY <1>1 DEF Accounting, TypeOK
<1>7. QED BY <1>3, <1>4, <1>5, <1>6 DEF Accounting

LEMMA PumpAccounting ==
  ASSUME TypeOK, Accounting, NEW w \in Watchers, Pump(w)
  PROVE  Accounting'
<1> USE DEF Running, consumerVars, States
<1>1. << >> \in Seq(EventsOf(w)) /\ queue = queue \o << >>
  BY ConcatEmptySeq DEF TypeOK
<1>2. CASE PollOk(w)
  BY <1>1, <1>2, PumpGoesOn DEF PollOk
<1>3. CASE Load(w)
  BY <1>1, <1>3, PumpGoesOn DEF Load
<1>4. CASE Persist(w)
  BY <1>1, <1>4, PumpGoesOn DEF Persist
<1>5. CASE Emit(w)
  <2>1. PICK b \in Announced(w, old[w], items[w]) : queue' = queue \o b
    BY <1>5 DEF Emit
  <2>2. b \in Seq(EventsOf(w))
    BY <2>1, AnnouncedType DEF TypeOK
  <2>3. QED
    BY <1>5, <2>1, <2>2, PumpGoesOn DEF Emit
<1>6. CASE Fail(w)
  BY <1>1, <1>6, PumpGoesOn DEF Fail
<1>7. CASE Wake(w)
  BY <1>1, <1>7, PumpGoesOn DEF Wake
<1>8. CASE DropWatcher(w)
  <2>1. PICK b \in Announced(w, old[w], items[w]) : \E n \in 0 .. Len(b) :
               EndPump(w, Append(SubSeq(b, 1, n), DoneOf(w)))
    BY <1>8 DEF DropWatcher
  <2>2. PICK n \in 0 .. Len(b) : EndPump(w, Append(SubSeq(b, 1, n), DoneOf(w)))
    BY <2>1
  <2>3. SubSeq(b, 1, n) \in Seq(EventsOf(w))
    BY <2>1, AnnouncedType, CutType DEF TypeOK
  <2>4. QED
    BY <1>8, <2>2, <2>3, ClosedBatch, PumpEnds DEF DropWatcher
<1>9. CASE DeliverCancel(w)
  <2>1. consumer # "run" /\ pc[w] # "ended"
    BY <1>9 DEF DeliverCancel, Accounting
  <2>2. PICK b \in {<< >>, <<DoneOf(w)>>} : EndPump(w, b)
    BY <1>9 DEF DeliverCancel
  <2>3. << >> \in Seq(EventsOf(w)) /\ Append(<< >>, DoneOf(w)) = <<DoneOf(w)>>
    OBVIOUS
  <2>4. Batch(w, << >>) /\ Batch(w, <<DoneOf(w)>>)
    BY <2>3, EventBatch, ClosedBatch
  <2>5. QED
    BY <2>1, <2>2, <2>4, PumpEnds
<1>10. QED
  BY <1>2, <1>3, <1>4, <1>5, <1>6, <1>7, <1>8, <1>9 DEF Pump

LEMMA ConsumerAccounting ==
  ASSUME TypeOK, TypeOK', Accounting, Consumer
  PROVE  Accounting'
<1> USE DEF pumpVars
<1>1. CASE Start
  <2> USE DEF Start
  <2>1. \A u \in Watchers : pc'[u] = "new" /\ ~Queued(u)' /\ ~HasDone(u)'
    BY <1>1 DEF Queued, HasDone
  <2>2. Awaited' = Watchers
    BY <2>1 DEF Awaited
  <2>3. Cardinality(Watchers) \in Nat /\ Cardinality(Watchers) # 0
    BY <1>1, WatchersAssumption, FS_CardinalityType, FS_EmptySet
  <2>4. NothingAfterDone'
    BY <1>1 DEF NothingAfterDone
  <2>5. \A u \in Watchers : ~cancelled'[u]
    BY <1>1 DEF Accounting
  <2>6. QED
    BY <1>1, <2>1, <2>2, <2>3, <2>4, <2>5 DEF Accounting, FinishedIsDrained
<1>2. CASE GetEvent
  <2> USE DEF GetEvent
  <2>1. /\ NothingAfterDone'
        /\ \A u \in Watchers : (Queued(u)' => Queued(u)) /\ (HasDone(u)' <=> HasDone(u))
    BY <1>2, LeaveQueue DEF Accounting, TypeOK
  <2>2. Awaited' = Awaited
    BY <1>2, <2>1 DEF Awaited
  <2>3. QED
    BY <1>2, <2>1, <2>2 DEF Accounting, FinishedIsDrained
<1>3. CASE GetDone
  <2> USE DEF GetDone
  <2>0. /\ Head(queue) \in Entry /\ Head(queue) = queue[1]
        /\ 1 \in 1 .. Len(queue)
    BY <1>3, HeadTailProperties, LenProperties, EmptySeq DEF TypeOK
  <2>1. PICK w \in Watchers : w = Head(queue).from
    BY <2>0 DEF Entry
  <2>2. /\ NothingAfterDone'
        /\ ~Queued(w)' /\ ~HasDone(w)'
        /\ \A u \in Watchers : /\ Queued(u)' => Queued(u)
                               /\ u # w => (HasDone(u)' <=> HasDone(u))
    BY <1>3, <2>1, LeaveQueue DEF Accounting, TypeOK
  <2>3. HasDone(w)
    BY <1>3, <2>0, <2>1 DEF HasDone
  <2>4. pc[w] = "ended"
    BY <1>3, <2>3 DEF Accounting
  <2>5. w \in Awaited
    BY <2>3 DEF Awaited
  <2>6. Awaited' = Awaited \ {w}
    BY <1>3, <2>2, <2>4 DEF Awaited
  <2>7. IsFiniteSet(Awaited)
    BY WatchersAssumption, FS_Subset DEF Awaited
  <2>8. /\ IsFiniteSet(Awaited')
        /\ active' = Cardinality(Awaited')
    BY <1>3, <2>5, <2>6, <2>7, FS_RemoveElement DEF Accounting
  <2>9. \A u \in Watchers : Queued(u)' => u \in Awaited'
    BY <1>3, <2>2, <2>6 DEF Accounting
  <2>10. \A u \in Watchers : pc'[u] # "ended" => ~HasDone(u)'
    BY <1>3, <2>2 DEF Accounting
  <2>11. \A u \in Watchers : ~cancelled'[u]
    BY <1>3 DEF Accounting
  <2>12. CASE active = 1
    <3>1. Awaited' = {}
      BY <1>3, <2>8, <2>12, FS_EmptySet
    <3>2. \A u \in Watchers : pc'[u] = "ended" /\ ~Queued(u)'
      BY <2>9, <3>1 DEF Awaited
    <3>3. queue' = << >>
      <4>1. SUFFICES ASSUME queue' # << >> PROVE FALSE
        OBVIOUS
      <4>2. Len(queue') \in Nat \ {0}
        BY <4>1, EmptySeq DEF TypeOK
      <4>3. 1 \in 1 .. Len(queue') /\ queue'[1] \in Entry
        BY <4>2, ElementOfSeq DEF TypeOK
      <4>4. PICK u \in Watchers : u = queue'[1].from
        BY <4>3 DEF Entry
      <4>5. Queued(u)'
        BY <4>3, <4>4 DEF Queued
      <4>6. QED BY <3>2, <4>5
    <3>4. QED
      BY <1>3, <2>11, <2>12, <3>2, <3>3 DEF Accounting, FinishedIsDrained
  <2>13. CASE active # 1
    <3>1. active' > 0 /\ consumer' = "run"
      BY <1>3, <2>13 DEF TypeOK
    <3>2. QED
      BY <2>2, <2>8, <2>9, <2>10, <2>11, <3>1 DEF Accounting, FinishedIsDrained
  <2>14. QED BY <2>12, <2>13
<1>4. CASE Stop
  <2>1. consumer' = "closing" /\ active' > 0 /\ active' \in Nat
    BY <1>4 DEF Stop, Accounting, TypeOK
  <2>2. \A u \in Watchers : cancelled'[u] => pc'[u] # "ended"
    BY <1>4 DEF Stop
  <2>3. QED
    BY <2>1, <2>2 DEF Accounting, FinishedIsDrained
<1>5. CASE Gathered
  <2>1. \A u \in Watchers : ~cancelled'[u]
    BY <1>5 DEF Gathered, Accounting
  <2>2. QED
    BY <1>5, <2>1 DEF Gathered, Accounting, FinishedIsDrained
<1>6. QED
  BY <1>1, <1>2, <1>3, <1>4, <1>5 DEF Consumer

LEMMA OtherAccounting ==
  ASSUME TypeOK, Accounting, Portal \/ Restart \/ UNCHANGED vars
  PROVE  Accounting'
<1>1. CASE UNCHANGED <<pc, cancelled, queue, active, consumer>>
  <2>1. /\ Awaited' = Awaited
        /\ NothingAfterDone' <=> NothingAfterDone
        /\ \A u \in Watchers : (Queued(u)' <=> Queued(u)) /\ (HasDone(u)' <=> HasDone(u))
    BY <1>1 DEF Awaited, NothingAfterDone, Queued, HasDone
  <2>2. QED
    BY <1>1, <2>1 DEF Accounting, FinishedIsDrained
<1>2. CASE Restart
  BY <1>2 DEF Restart, Accounting, FinishedIsDrained
<1>3. QED
  BY <1>1, <1>2 DEF Portal, Publish, Withdraw, vars

(* The consumer always waits for exactly the pumps that still run or whose   *)
(* sentinel is queued, and a sentinel is behind all entries of its pump.     *)
THEOREM AccountingHolds == Spec => []Accounting
<1>1. Init => Accounting
  BY DEF Init, Accounting, FinishedIsDrained
<1>2. TypeOK /\ TypeOK' /\ Accounting /\ [Next]_vars => Accounting'
  BY PumpAccounting, ConsumerAccounting, OtherAccounting DEF Next
<1>3. QED
  BY <1>1, <1>2, TypeCorrect, PTL DEF Spec

(* An iteration that ends by itself has handed over every event of every     *)
(* pump, for any number of watchers.                                         *)
THEOREM IterationDrains == Spec => []FinishedIsDrained
<1>1. Accounting => FinishedIsDrained
  BY DEF Accounting
<1>2. QED
  BY <1>1, AccountingHolds, PTL

-------------------------------------------------------------------------------
(* The order in which versions reach the consumer. *)

\* The version is none, or one that the portal published for the item.
IsOf(w, i, v) == v # 0 => v \in 1 .. Len(history) /\ history[v] = <<w, i>>

\* The consumer was given the version last of the item, or it waits in the queue.
Said(w, i, a) ==
  /\ history[a] = <<w, i>>
  /\ seen[w][i] = a \/ \E n \in 1 .. Len(queue) : queue[n] = [from |-> w, ver |-> a]

\* Version x, compared with version base of a snapshot, is newer than all that was said,
\* unless the comparison finds that it did not change.
Newer(w, i, x, base) ==
  x # 0 => \A a \in 1 .. Len(history) : Said(w, i, a) => a < x \/ (a = x /\ base = a)

Published ==
  /\ \A w \in Watchers, i \in Items :
       /\ IsOf(w, i, server[w][i]) /\ IsOf(w, i, items[w][i]) /\ IsOf(w, i, seen[w][i])
       /\ ~inherited[w] => IsOf(w, i, stored[NS(w)][i]) /\ IsOf(w, i, old[w][i])
  /\ \A n \in 1 .. Len(queue) :
       ~IsDone(queue[n]) => /\ queue[n].ver \in 1 .. Len(history)
                            /\ history[queue[n].ver][1] = queue[n].from

\* The queue holds ever newer versions of an item, newer than the one seen.
Ascending ==
  \A n \in 1 .. Len(queue) : ~IsDone(queue[n]) =>
    /\ queue[n].ver > seen[queue[n].from][history[queue[n].ver][2]]
    /\ \A m \in 1 .. n - 1 :
         ~IsDone(queue[m]) /\ history[queue[m].ver] = history[queue[n].ver]
           => queue[m].ver < queue[n].ver

\* What the portal shows, what a poll returned and what the storage holds follow one
\* another, so that a delta names only versions that were not said yet.
FreshAt(w, i) ==
  /\ Newer(w, i, server[w][i], stored[NS(w)][i])
  /\ pc[w] = "load" => Newer(w, i, items[w][i], stored[NS(w)][i])
  /\ pc[w] \in {"save", "saved"} => Newer(w, i, items[w][i], old[w][i])
  /\ pc[w] = "save" => old[w][i] = stored[NS(w)][i]
  /\ pc[w] = "saved" => items[w][i] = stored[NS(w)][i]
  /\ items[w][i] # 0 /\ server[w][i] # 0 => items[w][i] <= server[w][i]
  /\ pc[w] \in {"load", "save"} /\ items[w][i] = 0 => Newer(w, i, server[w][i], 0)

Fresh == \A w \in Watchers, i \in Items : FreshAt(w, i)

Order == addr \in Injection(Watchers, Addrs) /\ Published /\ Ascending /\ Fresh

LEMMA OwnNameSpace ==
  ASSUME TypeOK, Order, NEW u \in Watchers, NEW w \in Watchers, u # w
  PROVE  NS(u) # NS(w)
BY DEF Order, Injection, IsInjective, NS

(* A step of pump w that leaves the queue alone and writes at most its own   *)
(* snapshot.                                                                 *)
LEMMA QuietStep ==
  ASSUME TypeOK, Order, NEW w \in Watchers,
         UNCHANGED <<server, history, seen, queue, addr, inherited>>,
         \A u \in Watchers \ {w} : /\ pc'[u] = pc[u] /\ items'[u] = items[u]
                                   /\ old'[u] = old[u]
                                   /\ stored'[NS(u)] = stored[NS(u)],
         \A i \in Items : IsOf(w, i, items'[w][i]),
         \A i \in Items : ~inherited[w] => 
           IsOf(w, i, stored'[NS(w)][i]) /\ IsOf(w, i, old'[w][i]),
         \A i \in Items : FreshAt(w, i)'
  PROVE  Order'
<1>1. \A u, i, a : Said(u, i, a)' <=> Said(u, i, a)
  BY DEF Said
<1>2. \A u : NS(u)' = NS(u)
  BY DEF NS
<1>3. \A u, i, x, b : Newer(u, i, x, b)' <=> Newer(u, i, x, b)
  BY <1>1 DEF Newer
<1>4. \A u, i, x : IsOf(u, i, x)' <=> IsOf(u, i, x)
  BY DEF IsOf
<1>5. Published'
  BY <1>2, <1>4 DEF Order, Published, IsDone
<1>6. Ascending'
  BY DEF Order, Ascending, IsDone
<1>7. ASSUME NEW u \in Watchers \ {w}, NEW i \in Items PROVE FreshAt(u, i)'
  <2>1. FreshAt(u, i)
    BY DEF Order, Fresh
  <2>2. QED
    BY <1>2, <1>3, <2>1 DEF FreshAt
<1>8. QED
  BY <1>5, <1>6, <1>7 DEF Order, Fresh

LEMMA PollOrder ==
  ASSUME TypeOK, Order, NEW w \in Watchers, PollOk(w)
  PROVE  Order'
<1> USE DEF PollOk, Goto, portalVars, lifeVars, consumerVars
<1>1. \A i \in Items : items'[w][i] = server[w][i]
  BY DEF TypeOK
<1>2. pc'[w] = "load"
  BY DEF TypeOK
<1>3. \A i, x, b : Newer(w, i, x, b)' <=> Newer(w, i, x, b)
  BY DEF Newer, Said
<1>4. ASSUME NEW i \in Items PROVE FreshAt(w, i)' /\ IsOf(w, i, items'[w][i])
  <2>1. FreshAt(w, i) /\ IsOf(w, i, server[w][i])
    BY DEF Order, Fresh, Published
  <2>2. NS(w)' = NS(w) /\ UNCHANGED <<server, stored>>
    BY DEF NS
  <2>3. server[w][i] \in Nat
    BY DEF TypeOK, Snapshot
  <2>4. Newer(w, i, server[w][i], 0) \/ server[w][i] # 0
    BY DEF Newer
  <2>5. QED
    BY <1>1, <1>2, <1>3, <2>1, <2>2, <2>3, <2>4 DEF FreshAt
<1>5. QED
  BY <1>4, QuietStep DEF TypeOK, Order, Published

LEMMA LoadOrder ==
  ASSUME TypeOK, Order, NEW w \in Watchers, Load(w)
  PROVE  Order'
<1> USE DEF Load, Running, Goto, portalVars, lifeVars, consumerVars
<1>1. \A i \in Items : old'[w][i] = stored[NS(w)][i]
  BY DEF TypeOK
<1>2. pc[w] = "load" /\ pc'[w] = "save"
  BY DEF TypeOK
<1>3. \A i, x, b : Newer(w, i, x, b)' <=> Newer(w, i, x, b)
  BY DEF Newer, Said
<1>4. ASSUME NEW i \in Items PROVE FreshAt(w, i)'
  <2>1. FreshAt(w, i)
    BY DEF Order, Fresh
  <2>2. NS(w)' = NS(w) /\ UNCHANGED <<server, stored, items>>
    BY DEF NS
  <2>3. QED
    BY <1>1, <1>2, <1>3, <2>1, <2>2 DEF FreshAt
<1>5. QED
  BY <1>4, QuietStep DEF TypeOK, Order, Published

LEMMA PersistOrder ==
  ASSUME TypeOK, Order, NEW w \in Watchers, Persist(w)
  PROVE  Order'
<1> USE DEF Persist, Goto, portalVars, lifeVars, consumerVars
<1>1. \A i \in Items : stored'[NS(w)][i] = items[w][i]
  BY NSType DEF TypeOK
<1>2. pc[w] = "save" /\ pc'[w] = "saved"
  BY DEF TypeOK
<1>3. \A i, x, b : Newer(w, i, x, b)' <=> Newer(w, i, x, b)
  BY DEF Newer, Said
<1>4. ASSUME NEW i \in Items PROVE FreshAt(w, i)'
  <2>1. FreshAt(w, i)
    BY DEF Order, Fresh
  <2>2. NS(w)' = NS(w) /\ UNCHANGED <<server, old, items>>
    BY DEF NS
  <2>3. server[w][i] \in Nat /\ items[w][i] \in Nat
    BY DEF TypeOK, Snapshot
  <2>4. Newer(w, i, server[w][i], items[w][i])
    <3>1. CASE items[w][i] = 0
      BY <1>2, <2>1, <3>1 DEF FreshAt
    <3>2. CASE items[w][i] # 0
      <4>1. SUFFICES ASSUME server[w][i] # 0, NEW a \in 1 .. Len(history), Said(w, i, a)
                     PROVE  a < server[w][i] \/ (a = server[w][i] /\ items[w][i] = a)
        BY DEF Newer
      <4>2. items[w][i] <= server[w][i]
        BY <2>1, <3>2, <4>1 DEF FreshAt
      <4>3. a <= items[w][i]
        BY <1>2, <2>1, <2>3, <3>2, <4>1 DEF FreshAt, Newer
      <4>4. QED BY <2>3, <4>2, <4>3
    <3>3. QED BY <3>1, <3>2
  <2>5. QED
    BY <1>1, <1>2, <1>3, <2>1, <2>2, <2>4 DEF FreshAt
<1>5. \A u \in Watchers \ {w} : stored'[NS(u)] = stored[NS(u)]
  BY OwnNameSpace, NSType DEF TypeOK
<1>6. QED
  BY <1>1, <1>4, <1>5, QuietStep DEF TypeOK, Order, Published

LEMMA IdleOrder ==
  ASSUME TypeOK, Order, NEW w \in Watchers, Fail(w) \/ Wake(w)
  PROVE  Order'
<1> USE DEF Fail, Wake, Goto, portalVars, lifeVars, consumerVars
<1>1. pc'[w] \notin {"load", "save", "saved"}
  BY DEF TypeOK
<1>2. \A i \in Items : items'[w][i] \in {items[w][i], 0}
  BY DEF TypeOK, Blank
<1>3. \A i, x, b : Newer(w, i, x, b)' <=> Newer(w, i, x, b)
  BY DEF Newer, Said
<1>4. ASSUME NEW i \in Items PROVE FreshAt(w, i)' /\ IsOf(w, i, items'[w][i])
  <2>1. FreshAt(w, i) /\ IsOf(w, i, items[w][i])
    BY DEF Order, Fresh, Published
  <2>2. NS(w)' = NS(w) /\ UNCHANGED <<server, stored>>
    BY DEF NS
  <2>3. QED
    BY <1>1, <1>2, <1>3, <2>1, <2>2 DEF FreshAt, IsOf
<1>5. \A u \in Watchers \ {w} : pc'[u] = pc[u] /\ items'[u] = items[u] /\ old'[u] = old[u]
  BY DEF TypeOK
<1>6. \A i \in Items : ~inherited[w] => IsOf(w, i, stored[NS(w)][i]) /\ IsOf(w, i, old'[w][i])
  <2>1. \A i \in Items : old'[w][i] \in {old[w][i], 0}
    BY DEF TypeOK, Blank
  <2>2. QED
    BY <2>1 DEF Order, Published, IsOf
<1>7. QED
  BY <1>4, <1>5, <1>6, QuietStep

(* An arrangement of the events of a set of items has each of them once.     *)
LEMMA ListedFacts ==
  ASSUME NEW w \in Watchers, NEW n \in Snapshot, NEW S \in SUBSET Items,
         \A i \in S : n[i] # 0, NEW b \in Listed(w, n, S)
  PROVE  /\ b \in Seq(EventsOf(w))
         /\ \A k \in 1 .. Len(b) : \E i \in S : b[k] = [from |-> w, ver |-> n[i]]
         /\ \A i \in S : \E k \in 1 .. Len(b) : b[k] = [from |-> w, ver |-> n[i]]
         /\ \A j, k \in 1 .. Len(b) : j # k => b[j] # b[k]
<1> DEFINE T == {[from |-> w, ver |-> n[i]] : i \in S}
           f == [i \in S |-> [from |-> w, ver |-> n[i]]]
<1>1. IsFiniteSet(S)
  BY ItemsAssumption, FS_Subset
<1>2. f \in Surjection(S, T)
  BY DEF Surjection
<1>3. IsFiniteSet(T)
  <2> HIDE DEF T, f
  <2> QED BY <1>1, <1>2, FS_Surjection
<1>4. Cardinality(T) \in Nat
  BY <1>3, FS_CardinalityType
<1>5. /\ b \in [1 .. Cardinality(T) -> T]
      /\ \A j, k \in 1 .. Cardinality(T) : j # k => b[j] # b[k]
  BY DEF Listed, SetToSeqs
<1>6. b \in Seq(EventsOf(w)) /\ Len(b) = Cardinality(T)
  <2>1. b \in Seq(EventsOf(w))
    BY ListedType
  <2> HIDE DEF T
  <2>2. DOMAIN b = 1 .. Cardinality(T)
    BY <1>5
  <2>3. QED
    BY <1>4, <2>1, <2>2, LenProperties
<1>7. \A k \in 1 .. Len(b) : \E i \in S : b[k] = [from |-> w, ver |-> n[i]]
  BY <1>5, <1>6
<1>8. b \in Surjection(1 .. Cardinality(T), T)
  <2> HIDE DEF T
  <2>1. b \in Injection(1 .. Cardinality(T), T)
    BY <1>5 DEF Injection, IsInjective
  <2>2. Cardinality(1 .. Cardinality(T)) = Cardinality(T)
    BY <1>4, FS_Interval
  <2>3. QED
    BY <1>3, <2>1, <2>2, FS_Injection
<1>9. \A i \in S : \E k \in 1 .. Len(b) : b[k] = [from |-> w, ver |-> n[i]]
  <2> TAKE i \in S
  <2>1. [from |-> w, ver |-> n[i]] \in T
    OBVIOUS
  <2> HIDE DEF T
  <2>2. QED
    BY <1>6, <1>8, <2>1 DEF Surjection
<1>10. QED
  BY <1>5, <1>6, <1>7, <1>9

\* The items that a delta may name.
News(o, n) == Added(o, n) \cup Changed(o, n)

LEMMA AnnouncedFacts ==
  ASSUME NEW w \in Watchers, NEW o \in Snapshot, NEW n \in Snapshot,
         NEW b \in Announced(w, o, n),
         \A i, j \in Items : n[i] # 0 /\ n[i] = n[j] => i = j
  PROVE  /\ b \in Seq(EventsOf(w))
         /\ \A k \in 1 .. Len(b) :
              \E i \in News(o, n) : b[k] = [from |-> w, ver |-> n[i]]
         /\ \A j, k \in 1 .. Len(b) : j # k => b[j] # b[k]
         /\ ClassOf[w] \in ReportsChanges =>
              \A i \in News(o, n) : \E k \in 1 .. Len(b) : b[k] = [from |-> w, ver |-> n[i]]
<1>1. PICK a \in Listed(w, n, Added(o, n)),
           c \in IF ClassOf[w] \in ReportsChanges THEN Listed(w, n, Changed(o, n))
                                                  ELSE {<< >>} : b = a \o c
  BY DEF Announced
<1>2. /\ a \in Seq(EventsOf(w))
      /\ \A k \in 1 .. Len(a) : \E i \in Added(o, n) : a[k] = [from |-> w, ver |-> n[i]]
      /\ \A i \in Added(o, n) : \E k \in 1 .. Len(a) : a[k] = [from |-> w, ver |-> n[i]]
      /\ \A j, k \in 1 .. Len(a) : j # k => a[j] # a[k]
  <2>1. Added(o, n) \in SUBSET Items /\ \A i \in Added(o, n) : n[i] # 0
    BY DEF Added
  <2>2. QED BY <2>1, ListedFacts
<1>3. /\ c \in Seq(EventsOf(w))
      /\ \A k \in 1 .. Len(c) : \E i \in Changed(o, n) : c[k] = [from |-> w, ver |-> n[i]]
      /\ ClassOf[w] \in ReportsChanges =>
           \A i \in Changed(o, n) : \E k \in 1 .. Len(c) : c[k] = [from |-> w, ver |-> n[i]]
      /\ \A j, k \in 1 .. Len(c) : j # k => c[j] # c[k]
  <2>1. CASE ClassOf[w] \in ReportsChanges
    <3>1. Changed(o, n) \in SUBSET Items /\ \A i \in Changed(o, n) : n[i] # 0
      BY DEF Changed
    <3>2. c \in Listed(w, n, Changed(o, n))
      BY <1>1, <2>1
    <3>3. QED BY <3>1, <3>2, ListedFacts
  <2>2. CASE ClassOf[w] \notin ReportsChanges
    BY <1>1, <2>2
  <2>3. QED BY <2>1, <2>2
<1>4. /\ b \in Seq(EventsOf(w))
      /\ Len(a) \in Nat /\ Len(c) \in Nat /\ Len(b) = Len(a) + Len(c)
      /\ \A k \in 1 .. Len(b) : b[k] = IF k <= Len(a) THEN a[k] ELSE c[k - Len(a)]
  BY <1>1, <1>2, <1>3, ConcatProperties, LenProperties
<1>5. \A k \in 1 .. Len(b) : \/ k \in 1 .. Len(a) /\ b[k] = a[k]
                             \/ k - Len(a) \in 1 .. Len(c) /\ b[k] = c[k - Len(a)]
  BY <1>4
<1>6. ASSUME NEW k \in 1 .. Len(b)
      PROVE  \E i \in News(o, n) : b[k] = [from |-> w, ver |-> n[i]]
  <2>1. CASE k \in 1 .. Len(a) /\ b[k] = a[k]
    BY <1>2, <2>1 DEF News
  <2>2. CASE k - Len(a) \in 1 .. Len(c) /\ b[k] = c[k - Len(a)]
    <3>1. PICK i \in Changed(o, n) : c[k - Len(a)] = [from |-> w, ver |-> n[i]]
      BY <1>3, <2>2
    <3>2. QED
      BY <2>2, <3>1 DEF News
  <2>3. QED BY <1>5, <2>1, <2>2
<1>7. \A j \in 1 .. Len(a), k \in 1 .. Len(c) : a[j] # c[k]
  <2> TAKE j \in 1 .. Len(a), k \in 1 .. Len(c)
  <2>1. PICK x \in Added(o, n) : a[j] = [from |-> w, ver |-> n[x]]
    BY <1>2
  <2>2. PICK y \in Changed(o, n) : c[k] = [from |-> w, ver |-> n[y]]
    BY <1>3
  <2>3. n[x] # n[y]
    BY DEF Added, Changed
  <2>4. QED BY <2>1, <2>2, <2>3
<1>8. ASSUME NEW j \in 1 .. Len(b), NEW k \in 1 .. Len(b), j # k
      PROVE  b[j] # b[k]
  <2>1. CASE j <= Len(a) /\ k <= Len(a)
    BY <1>2, <1>4, <1>8, <2>1
  <2>2. CASE j <= Len(a) /\ ~ (k <= Len(a))
    BY <1>4, <1>7, <2>2
  <2>3. CASE ~ (j <= Len(a)) /\ k <= Len(a)
    BY <1>4, <1>7, <2>3
  <2>4. CASE ~ (j <= Len(a)) /\ ~ (k <= Len(a))
    <3>1. /\ j - Len(a) \in 1 .. Len(c) /\ k - Len(a) \in 1 .. Len(c)
          /\ j - Len(a) # k - Len(a)
      BY <1>4, <1>8, <2>4
    <3>2. b[j] = c[j - Len(a)] /\ b[k] = c[k - Len(a)]
      <4>1. /\ ~ (j <= Len(a)) => b[j] = c[j - Len(a)]
            /\ ~ (k <= Len(a)) => b[k] = c[k - Len(a)]
        BY <1>4
      <4>2. QED BY <2>4, <4>1
    <3>3. c[j - Len(a)] # c[k - Len(a)]
      BY <1>3, <3>1
    <3>4. QED
      BY <3>2, <3>3
  <2>5. QED BY <2>1, <2>2, <2>3, <2>4
<1>9. ASSUME ClassOf[w] \in ReportsChanges, NEW i \in News(o, n)
      PROVE  \E k \in 1 .. Len(b) : b[k] = [from |-> w, ver |-> n[i]]
  <2>1. \A k \in 1 .. Len(a) : k \in 1 .. Len(b) /\ b[k] = a[k]
    BY <1>4
  <2>2. \A k \in 1 .. Len(c) : Len(a) + k \in 1 .. Len(b) /\ b[Len(a) + k] = c[k]
    BY <1>4
  <2>3. CASE i \in Added(o, n)
    <3>1. PICK k \in 1 .. Len(a) : a[k] = [from |-> w, ver |-> n[i]]
      BY <1>2, <2>3
    <3>2. QED BY <2>1, <3>1
  <2>4. CASE i \in Changed(o, n)
    <3>1. \A x \in Changed(o, n) : \E k \in 1 .. Len(c) : c[k] = [from |-> w, ver |-> n[x]]
      BY <1>3, <1>9
    <3>2. PICK k \in 1 .. Len(c) : c[k] = [from |-> w, ver |-> n[i]]
      BY <2>4, <3>1
    <3>3. Len(a) + k \in 1 .. Len(b) /\ b[Len(a) + k] = [from |-> w, ver |-> n[i]]
      BY <2>2, <3>2
    <3>4. QED BY <3>3
  <2>5. QED BY <1>9, <2>3, <2>4 DEF News
<1>10. QED
  BY <1>4, <1>6, <1>8, <1>9

\* What pump w puts into the queue: its own entries, and of these the events tell, each
\* once, the versions of its delta.
NewsOf(w, c) ==
  /\ c \in Seq(Entry)
  /\ \A k \in 1 .. Len(c) :
       /\ c[k].from = w
       /\ ~IsDone(c[k]) => \E i \in News(old[w], items[w]) : c[k].ver = items[w][i]
       /\ \A j \in 1 .. k - 1 : ~IsDone(c[k]) => c[j].ver # c[k].ver

(* The news of pump w join the queue, and the pump forgets its delta.        *)
LEMMA NewsJoin ==
  ASSUME TypeOK, TypeOK', Order, NEW w \in Watchers, NEW c, NewsOf(w, c),
         pc[w] = "saved" \/ \A k \in 1 .. Len(c) : IsDone(c[k]),
         queue' = queue \o c,
         items' = [items EXCEPT ![w] = Blank], NEW to \in {"sleep", "ended"}, Goto(w, to),
         old' = [old EXCEPT ![w] = Blank],
         UNCHANGED <<server, history, stored, addr, inherited, seen>>
  PROVE  Order'
<1>1. /\ Len(queue) \in Nat /\ Len(c) \in Nat
      /\ Len(queue') = Len(queue) + Len(c)
      /\ \A n \in 1 .. Len(queue') :
           queue'[n] = IF n <= Len(queue) THEN queue[n] ELSE c[n - Len(queue)]
  BY ConcatProperties, LenProperties DEF TypeOK, NewsOf
<1>2. \A n \in 1 .. Len(queue') :
        \/ n \in 1 .. Len(queue) /\ queue'[n] = queue[n]
        \/ n - Len(queue) \in 1 .. Len(c) /\ queue'[n] = c[n - Len(queue)]
  BY <1>1
<1>3. \A n \in 1 .. Len(queue) : queue[n] \in Entry
  BY ElementOfSeq DEF TypeOK
<1>4. \A k \in 1 .. Len(c) : c[k] \in Entry
  BY ElementOfSeq DEF NewsOf
<1>5. \A i \in Items : items[w][i] \in Nat /\ server[w][i] \in Nat
  BY DEF TypeOK, Snapshot
<1>6. ASSUME NEW k \in 1 .. Len(c), ~IsDone(c[k])
      PROVE  \E i \in Items : /\ c[k] = [from |-> w, ver |-> items[w][i]]
                              /\ items[w][i] # 0 /\ items[w][i] \in 1 .. Len(history)
                              /\ history[items[w][i]] = <<w, i>>
                              /\ pc[w] = "saved"
                              /\ \A a \in 1 .. Len(history) : Said(w, i, a) => a < items[w][i]
  <2>1. PICK i \in News(old[w], items[w]) : c[k].ver = items[w][i]
    BY <1>6 DEF NewsOf
  <2>2. /\ i \in Items /\ items[w][i] # 0
        /\ items[w][i] # old[w][i] /\ pc[w] = "saved"
    BY <1>6, <2>1 DEF News, Added, Changed
  <2>3. IsOf(w, i, items[w][i]) /\ Newer(w, i, items[w][i], old[w][i])
    BY <2>2 DEF Order, Published, Fresh, FreshAt
  <2>4. c[k] = [from |-> w, ver |-> items[w][i]]
    BY <1>4, <2>1 DEF NewsOf, Entry
  <2>5. QED
    BY <2>2, <2>3, <2>4 DEF IsOf, Newer
<1>7. \A n \in 1 .. Len(queue) : ~IsDone(queue[n]) =>
        /\ queue[n].ver \in 1 .. Len(history)
        /\ history[queue[n].ver] = <<queue[n].from, history[queue[n].ver][2]>>
        /\ queue[n].from \in Watchers /\ history[queue[n].ver][2] \in Items
        /\ Said(queue[n].from, history[queue[n].ver][2], queue[n].ver)
  <2> TAKE n \in 1 .. Len(queue)
  <2> HAVE ~IsDone(queue[n])
  <2>1. /\ queue[n].ver \in 1 .. Len(history)
        /\ history[queue[n].ver][1] = queue[n].from
    BY DEF Order, Published
  <2>2. history[queue[n].ver] \in Watchers \X Items
    BY <2>1, ElementOfSeq DEF TypeOK
  <2>3. queue[n] = [from |-> queue[n].from, ver |-> queue[n].ver]
    BY <1>3 DEF Entry
  <2>4. QED
    BY <2>1, <2>2, <2>3 DEF Said
<1>8. Published'
  <2>1. \A u \in Watchers, i \in Items :
          /\ IsOf(u, i, server[u][i])' /\ IsOf(u, i, items[u][i])' /\ IsOf(u, i, seen[u][i])'
          /\ ~inherited'[u] => IsOf(u, i, stored[NS(u)][i])' /\ IsOf(u, i, old[u][i])'
    <3> TAKE u \in Watchers, i \in Items
    <3>1. /\ items'[u][i] \in {items[u][i], 0} /\ old'[u][i] \in {old[u][i], 0}
          /\ NS(u)' = NS(u)
      BY DEF TypeOK, Blank, NS
    <3>2. /\ IsOf(u, i, server[u][i])' /\ IsOf(u, i, items[u][i])' /\ IsOf(u, i, seen[u][i])'
      BY <3>1 DEF Order, Published, IsOf
    <3>3. ~inherited'[u] => IsOf(u, i, stored[NS(u)][i])' /\ IsOf(u, i, old[u][i])'
      BY <3>1 DEF Order, Published, IsOf
    <3>4. QED BY <3>2, <3>3
  <2>2. \A n \in 1 .. Len(queue') :
          ~IsDone(queue'[n]) => /\ queue'[n].ver \in 1 .. Len(history')
                                /\ history'[queue'[n].ver][1] = queue'[n].from
    <3> TAKE n \in 1 .. Len(queue')
    <3> HAVE ~IsDone(queue'[n])
    <3>1. CASE n \in 1 .. Len(queue) /\ queue'[n] = queue[n]
      BY <3>1 DEF Order, Published
    <3>2. CASE n - Len(queue) \in 1 .. Len(c) /\ queue'[n] = c[n - Len(queue)]
      <4>1. ~IsDone(c[n - Len(queue)])
        BY <3>2
      <4>2. PICK i \in Items : /\ queue'[n] = [from |-> w, ver |-> items[w][i]]
                               /\ items[w][i] \in 1 .. Len(history)
                               /\ history[items[w][i]] = <<w, i>>
        BY <1>6, <3>2, <4>1
      <4>3. QED BY <4>2
    <3>3. QED BY <1>2, <3>1, <3>2
  <2>3. QED
    BY <2>1, <2>2 DEF Published, IsDone
<1>9. Ascending'
  <2>1. SUFFICES ASSUME NEW n \in 1 .. Len(queue'), ~IsDone(queue'[n])
                 PROVE  /\ queue'[n].ver > seen[queue'[n].from][history[queue'[n].ver][2]]
                        /\ \A m \in 1 .. n - 1 :
                             ~IsDone(queue'[m]) /\ history[queue'[m].ver] = history[queue'[n].ver]
                               => queue'[m].ver < queue'[n].ver
    BY DEF Ascending, IsDone
  <2>2. CASE n <= Len(queue)
    <3>1. n \in 1 .. Len(queue) /\ queue'[n] = queue[n]
      BY <1>1, <2>2
    <3>2. \A m \in 1 .. n - 1 : queue'[m] = queue[m]
      BY <1>1, <2>2
    <3>3. QED
      BY <2>1, <3>1, <3>2 DEF Order, Ascending
  <2>3. CASE ~ (n <= Len(queue))
    <3>1. n - Len(queue) \in 1 .. Len(c) /\ queue'[n] = c[n - Len(queue)]
      BY <1>1, <2>3
    <3>2. PICK i \in Items : /\ queue'[n] = [from |-> w, ver |-> items[w][i]]
                             /\ items[w][i] # 0 /\ items[w][i] \in 1 .. Len(history)
                             /\ history[items[w][i]] = <<w, i>>
                             /\ \A a \in 1 .. Len(history) : Said(w, i, a) => a < items[w][i]
      BY <1>6, <2>1, <3>1
    <3>3. items[w][i] > seen[w][i]
      <4>1. IsOf(w, i, seen[w][i]) /\ seen[w][i] \in Nat
        BY DEF Order, Published, TypeOK, Snapshot
      <4>2. CASE seen[w][i] = 0
        BY <1>5, <3>2, <4>2
      <4>3. CASE seen[w][i] # 0
        BY <3>2, <4>1, <4>3 DEF IsOf, Said
      <4>4. QED BY <4>2, <4>3
    <3>4. ASSUME NEW m \in 1 .. n - 1, ~IsDone(queue'[m]),
                 history[queue'[m].ver] = <<w, i>>
          PROVE  queue'[m].ver < items[w][i]
      <4>1. m \in 1 .. Len(queue')
        BY <1>1
      <4>2. CASE m <= Len(queue)
        <5>1. m \in 1 .. Len(queue) /\ queue'[m] = queue[m]
          BY <1>1, <4>1, <4>2
        <5>2. QED
          BY <1>7, <3>2, <3>4, <5>1
      <4>3. CASE ~ (m <= Len(queue))
        <5>1. /\ m - Len(queue) \in 1 .. Len(c) /\ queue'[m] = c[m - Len(queue)]
              /\ m - Len(queue) \in 1 .. (n - Len(queue)) - 1
          BY <1>1, <4>1, <4>3
        <5>0. ~IsDone(c[m - Len(queue)])
          BY <3>4, <5>1
        <5>2. PICK j \in Items : /\ queue'[m] = [from |-> w, ver |-> items[w][j]]
                                 /\ history[items[w][j]] = <<w, j>>
          BY <1>6, <5>0, <5>1
        <5>3. j = i
          BY <3>4, <5>2
        <5>4. c[m - Len(queue)].ver # c[n - Len(queue)].ver
          BY <2>1, <3>1, <5>1 DEF NewsOf
        <5>5. QED
          BY <3>1, <3>2, <5>1, <5>2, <5>3, <5>4
      <4>4. QED BY <4>2, <4>3
    <3>5. /\ queue'[n].ver = items[w][i] /\ queue'[n].from = w
          /\ history[queue'[n].ver] = <<w, i>> /\ history[queue'[n].ver][2] = i
      BY <3>2
    <3>6. \A m \in 1 .. n - 1 :
            ~IsDone(queue'[m]) /\ history[queue'[m].ver] = history[queue'[n].ver]
              => queue'[m].ver < queue'[n].ver
      BY <3>4, <3>5
    <3>7. QED
      BY <3>3, <3>5, <3>6
  <2>4. QED BY <2>2, <2>3
<1>10. ASSUME NEW u \in Watchers, NEW i \in Items, NEW a \in 1 .. Len(history), Said(u, i, a)'
       PROVE  Said(u, i, a) \/ (u = w /\ a = items[w][i] /\ a # 0 /\ pc[w] = "saved")
  <2>1. history[a] = <<u, i>>
    BY <1>10 DEF Said
  <2>2. CASE seen'[u][i] = a
    BY <2>1, <2>2 DEF Said
  <2>3. CASE \E n \in 1 .. Len(queue') : queue'[n] = [from |-> u, ver |-> a]
    <3>1. PICK n \in 1 .. Len(queue') : queue'[n] = [from |-> u, ver |-> a]
      BY <2>3
    <3>2. CASE n \in 1 .. Len(queue) /\ queue'[n] = queue[n]
      BY <2>1, <3>1, <3>2 DEF Said
    <3>3. CASE n - Len(queue) \in 1 .. Len(c) /\ queue'[n] = c[n - Len(queue)]
      <4>1. ~IsDone(c[n - Len(queue)])
        BY <3>1, <3>3 DEF IsDone
      <4>2. PICK j \in Items : /\ queue'[n] = [from |-> w, ver |-> items[w][j]]
                               /\ items[w][j] # 0
                               /\ history[items[w][j]] = <<w, j>>
                               /\ pc[w] = "saved"
        BY <1>6, <3>3, <4>1
      <4>3. u = w /\ a = items[w][j] /\ j = i
        BY <2>1, <3>1, <4>2
      <4>4. QED BY <4>2, <4>3
    <3>4. QED BY <1>2, <3>2, <3>3
  <2>4. QED BY <1>10, <2>2, <2>3 DEF Said
<1>11. ASSUME NEW u \in Watchers, NEW i \in Items PROVE FreshAt(u, i)'
  <2>1. FreshAt(u, i)
    BY DEF Order, Fresh
  <2>2. NS(u)' = NS(u) /\ UNCHANGED <<server, stored, history>>
    BY DEF NS
  <2>3. CASE u # w
    <3>1. \A x, b : Newer(u, i, x, b) => Newer(u, i, x, b)'
      BY <1>10, <2>3 DEF Newer
    <3>2. pc'[u] = pc[u] /\ items'[u] = items[u] /\ old'[u] = old[u]
      BY <2>3 DEF Goto, TypeOK
    <3>3. QED
      BY <2>1, <2>2, <3>1, <3>2 DEF FreshAt
  <2>4. CASE u = w
    <3>1. pc'[w] = to /\ items'[w][i] = 0
      BY DEF Goto, TypeOK, Blank
    <3>2. Newer(w, i, server[w][i], stored[NS(w)][i])'
      <4>1. SUFFICES ASSUME server[w][i] # 0, NEW a \in 1 .. Len(history), Said(w, i, a)'
                     PROVE  a < server[w][i] \/ (a = server[w][i] /\ stored[NS(w)][i] = a)
        BY <2>2, <2>4 DEF Newer
      <4>2. CASE Said(w, i, a)
        BY <2>1, <2>4, <4>1, <4>2 DEF FreshAt, Newer
      <4>3. CASE a = items[w][i] /\ a # 0 /\ pc[w] = "saved"
        <5>1. stored[NS(w)][i] = a /\ a <= server[w][i]
          BY <2>1, <2>4, <4>1, <4>3 DEF FreshAt
        <5>2. QED BY <1>5, <4>3, <5>1
      <4>4. QED BY <1>10, <4>1, <4>2, <4>3
    <3>3. QED
      BY <2>4, <3>1, <3>2 DEF FreshAt
  <2>5. QED BY <2>3, <2>4
<1>12. QED
  BY <1>8, <1>9, <1>11 DEF Order, Fresh

(* What to_events() yields is news, the sentinel behind it is none.          *)
LEMMA AnnouncedNews ==
  ASSUME TypeOK, Order, NEW w \in Watchers, NEW b \in Announced(w, old[w], items[w])
  PROVE  /\ NewsOf(w, b)
         /\ \A n \in 0 .. Len(b) : NewsOf(w, Append(SubSeq(b, 1, n), DoneOf(w)))
<1>1. old[w] \in Snapshot /\ items[w] \in Snapshot
  BY DEF TypeOK
<1>2. \A i, j \in Items : items[w][i] # 0 /\ items[w][i] = items[w][j] => i = j
  <2> TAKE i, j \in Items
  <2>1. IsOf(w, i, items[w][i]) /\ IsOf(w, j, items[w][j])
    BY DEF Order, Published
  <2>2. QED BY <2>1 DEF IsOf
<1>3. /\ b \in Seq(EventsOf(w))
      /\ \A k \in 1 .. Len(b) :
           \E i \in News(old[w], items[w]) : b[k] = [from |-> w, ver |-> items[w][i]]
      /\ \A j, k \in 1 .. Len(b) : j # k => b[j] # b[k]
  BY <1>1, <1>2, AnnouncedFacts
<1>4. b \in Seq(Entry) /\ Len(b) \in Nat
  BY <1>3, SeqMonotonic, LenProperties DEF EventsOf
<1>5. \A k \in 1 .. Len(b) :
        /\ b[k].from = w
        /\ \E i \in News(old[w], items[w]) : b[k].ver = items[w][i]
        /\ b[k] = [from |-> w, ver |-> b[k].ver]
  <2> TAKE k \in 1 .. Len(b)
  <2>1. PICK i \in News(old[w], items[w]) : b[k] = [from |-> w, ver |-> items[w][i]]
    BY <1>3
  <2>2. QED BY <2>1
<1>6. \A j, k \in 1 .. Len(b) : j # k => b[j].ver # b[k].ver
  <2> TAKE j, k \in 1 .. Len(b)
  <2> HAVE j # k
  <2>1. /\ b[j] = [from |-> w, ver |-> b[j].ver]
        /\ b[k] = [from |-> w, ver |-> b[k].ver]
    BY <1>5
  <2>2. QED BY <1>3, <2>1
<1>7. NewsOf(w, b)
  <2>1. \A k \in 1 .. Len(b) : \A j \in 1 .. k - 1 : b[j].ver # b[k].ver
    <3>1. \A k \in 1 .. Len(b) : \A j \in 1 .. k - 1 : j \in 1 .. Len(b) /\ j # k
      BY <1>4
    <3>2. QED BY <1>6, <3>1
  <2>2. QED
    BY <1>4, <1>5, <2>1 DEF NewsOf
<1>8. ASSUME NEW n \in 0 .. Len(b)
      PROVE  NewsOf(w, Append(SubSeq(b, 1, n), DoneOf(w)))
  <2> DEFINE c == Append(SubSeq(b, 1, n), DoneOf(w))
  <2>1. /\ SubSeq(b, 1, n) \in Seq(Entry) /\ Len(SubSeq(b, 1, n)) = n
        /\ \A k \in 1 .. n : SubSeq(b, 1, n)[k] = b[k]
    <3>1. \A k \in 1 .. n : b[k] \in Entry
      BY <1>4, ElementOfSeq
    <3>2. QED BY <1>4, <3>1, SubSeqProperties
  <2>2. DoneOf(w) \in Entry /\ DoneOf(w).from = w /\ IsDone(DoneOf(w))
    BY DEF DoneOf, Entry, IsDone
  <2>3. /\ c \in Seq(Entry) /\ Len(c) = n + 1 /\ c[n + 1] = DoneOf(w)
        /\ \A k \in 1 .. n : c[k] = b[k]
    BY <2>1, <2>2, AppendProperties
  <2> HIDE DEF c
  <2>4. ASSUME NEW k \in 1 .. Len(c)
        PROVE  /\ c[k].from = w
               /\ ~IsDone(c[k]) => \E i \in News(old[w], items[w]) : c[k].ver = items[w][i]
               /\ \A j \in 1 .. k - 1 : ~IsDone(c[k]) => c[j].ver # c[k].ver
    <3>1. CASE k = n + 1
      BY <2>2, <2>3, <3>1
    <3>2. CASE k # n + 1
      <4>1. k \in 1 .. n /\ k \in 1 .. Len(b) /\ \A j \in 1 .. k - 1 : j \in 1 .. n /\ j \in 1 .. Len(b) /\ j # k
        BY <1>4, <2>3, <3>2
      <4>2. c[k] = b[k] /\ \A j \in 1 .. k - 1 : c[j] = b[j]
        BY <2>3, <4>1
      <4>3. c[k].from = w /\ \E i \in News(old[w], items[w]) : c[k].ver = items[w][i]
        BY <1>5, <4>1, <4>2
      <4>4. \A j \in 1 .. k - 1 : c[j].ver # c[k].ver
        BY <1>6, <4>1, <4>2
      <4>5. QED BY <4>3, <4>4
    <3>3. QED BY <3>1, <3>2
  <2>5. QED
    BY <2>3, <2>4 DEF NewsOf, c
<1>9. QED BY <1>7, <1>8

LEMMA PumpOrder ==
  ASSUME TypeOK, TypeOK', Order, NEW w \in Watchers, Pump(w)
  PROVE  Order'
<1> USE DEF portalVars, lifeVars, consumerVars
<1>1. CASE PollOk(w) \/ Load(w) \/ Persist(w) \/ Fail(w) \/ Wake(w)
  BY <1>1, PollOrder, LoadOrder, PersistOrder, IdleOrder
<1>2. CASE Emit(w)
  <2>1. PICK b \in Announced(w, old[w], items[w]) : queue' = queue \o b
    BY <1>2 DEF Emit
  <2>2. NewsOf(w, b)
    BY <2>1, AnnouncedNews
  <2>3. QED
    BY <1>2, <2>1, <2>2, NewsJoin DEF Emit, Running
<1>3. CASE DropWatcher(w)
  <2>1. PICK b \in Announced(w, old[w], items[w]) : \E n \in 0 .. Len(b) :
               EndPump(w, Append(SubSeq(b, 1, n), DoneOf(w)))
    BY <1>3 DEF DropWatcher
  <2>2. PICK c : NewsOf(w, c) /\ EndPump(w, c)
    BY <2>1, AnnouncedNews
  <2>3. QED
    BY <1>3, <2>2, NewsJoin DEF DropWatcher, EndPump, Running
<1>4. CASE DeliverCancel(w)
  <2>1. PICK c \in {<< >>, <<DoneOf(w)>>} : EndPump(w, c)
    BY <1>4 DEF DeliverCancel
  <2>2. c \in Seq(Entry) /\ \A k \in 1 .. Len(c) : IsDone(c[k]) /\ c[k].from = w
    <3>1. DoneOf(w) \in Entry /\ IsDone(DoneOf(w)) /\ DoneOf(w).from = w
      BY DEF DoneOf, Entry, IsDone
    <3>2. \A k \in 1 .. Len(c) : c[k] = DoneOf(w)
      BY <2>1
    <3>3. c \in Seq(Entry)
      <4>1. << >> \in Seq(Entry) /\ <<DoneOf(w)>> \in Seq(Entry)
        BY <3>1
      <4>2. QED BY <2>1, <4>1
    <3>4. QED BY <3>1, <3>2, <3>3
  <2>3. NewsOf(w, c)
    BY <2>2 DEF NewsOf
  <2>4. QED
    BY <2>1, <2>2, <2>3, NewsJoin DEF EndPump
<1>5. QED
  BY <1>1, <1>2, <1>3, <1>4 DEF Pump

(* The portal publishes a version: it is newer than everything.              *)
LEMMA PublishOrder ==
  ASSUME TypeOK, Order, NEW w \in Watchers, NEW i \in Items, Publish(w, i)
  PROVE  Order'
<1> USE DEF Publish
<1>1. /\ Len(history) \in Nat /\ history' = Append(history, <<w, i>>)
      /\ Len(history') = Len(history) + 1
      /\ \A a \in 1 .. Len(history) : history'[a] = history[a]
      /\ history'[Len(history) + 1] = <<w, i>>
  BY LenProperties DEF TypeOK
<1>2. \A u \in Watchers, j \in Items : IsOf(u, j, seen[u][j]) /\ seen[u][j] \in Nat
  BY DEF Order, Published, TypeOK, Snapshot
<1>3. \A n \in 1 .. Len(queue) : ~IsDone(queue[n]) => queue[n].ver \in 1 .. Len(history)
  BY DEF Order, Published
<1>4. ASSUME NEW u \in Watchers, NEW j \in Items, NEW a \in 1 .. Len(history'), Said(u, j, a)'
      PROVE  a \in 1 .. Len(history) /\ Said(u, j, a)
  <2>1. a # 0 /\ a \in Nat
    BY <1>1
  <2>2. a \in 1 .. Len(history)
    <3>1. CASE seen[u][j] = a
      BY <1>2, <2>1, <3>1 DEF IsOf
    <3>2. CASE \E n \in 1 .. Len(queue) : queue[n] = [from |-> u, ver |-> a]
      BY <1>3, <2>1, <3>2 DEF IsDone
    <3>3. QED BY <1>4, <3>1, <3>2 DEF Said
  <2>3. QED
    BY <1>1, <1>4, <2>2 DEF Said
<1>5. \A u \in Watchers, j \in Items : \A x, b : Newer(u, j, x, b) => Newer(u, j, x, b)'
  BY <1>4 DEF Newer
<1>6. \A u, j, x : IsOf(u, j, x) => IsOf(u, j, x)'
  BY <1>1 DEF IsOf
<1>7. \A u \in Watchers, j \in Items :
        server'[u][j] = IF u = w /\ j = i THEN Len(history) + 1 ELSE server[u][j]
  BY DEF TypeOK, Snapshot
<1>8. PICK v \in Nat : v = Len(history) + 1
  BY <1>1
<1>8b. \A b : Newer(w, i, v, b)'
  BY <1>1, <1>4, <1>8 DEF Newer
<1>9. \A u : NS(u)' = NS(u)
  BY DEF NS
<1>10. Published'
  <2>1. \A u \in Watchers, j \in Items :
          /\ IsOf(u, j, server[u][j])' /\ IsOf(u, j, items[u][j])' /\ IsOf(u, j, seen[u][j])'
          /\ ~inherited'[u] => IsOf(u, j, stored[NS(u)][j])' /\ IsOf(u, j, old[u][j])'
    <3> TAKE u \in Watchers, j \in Items
    <3>1. /\ IsOf(u, j, server[u][j]) /\ IsOf(u, j, items[u][j]) /\ IsOf(u, j, seen[u][j])
          /\ ~inherited[u] => IsOf(u, j, stored[NS(u)][j]) /\ IsOf(u, j, old[u][j])
      BY DEF Order, Published
    <3>2. IsOf(u, j, server[u][j])'
      <4>1. server'[u][j] \in {server[u][j], Len(history) + 1}
        BY <1>7
      <4>2. IsOf(u, j, server[u][j])' <=> (server'[u][j] # 0 => server'[u][j] \in 1 .. Len(history') /\ history'[server'[u][j]] = <<u, j>>)
        BY DEF IsOf
      <4>3. CASE u = w /\ j = i
        BY <1>1, <1>7, <4>2, <4>3
      <4>4. CASE ~ (u = w /\ j = i)
        BY <1>1, <1>7, <3>1, <4>2, <4>4 DEF IsOf
      <4>5. QED BY <4>3, <4>4
    <3>3. IsOf(u, j, items[u][j])' /\ IsOf(u, j, seen[u][j])'
      BY <1>1, <3>1 DEF IsOf
    <3>4. ~inherited'[u] => IsOf(u, j, stored[NS(u)][j])' /\ IsOf(u, j, old[u][j])'
      BY <1>1, <1>9, <3>1 DEF IsOf
    <3>5. QED BY <3>2, <3>3, <3>4
  <2>2. \A n \in 1 .. Len(queue') :
          ~IsDone(queue'[n]) => /\ queue'[n].ver \in 1 .. Len(history')
                                /\ history'[queue'[n].ver][1] = queue'[n].from
    BY <1>1 DEF Order, Published
  <2>3. QED
    BY <2>1, <2>2 DEF Published, IsDone
<1>11. Ascending'
  <2>1. \A n \in 1 .. Len(queue) : ~IsDone(queue[n]) =>
          history'[queue[n].ver] = history[queue[n].ver]
    BY <1>1, <1>3
  <2>2. \A n \in 1 .. Len(queue) : \A m \in 1 .. n - 1 : m \in 1 .. Len(queue)
    BY LenProperties DEF TypeOK
  <2>3. Ascending /\ queue' = queue /\ seen' = seen
    BY DEF Order
  <2>4. QED
    BY <2>1, <2>2, <2>3 DEF Ascending, IsDone
<1>12. ASSUME NEW u \in Watchers, NEW j \in Items PROVE FreshAt(u, j)'
  <2>1. FreshAt(u, j)
    BY DEF Order, Fresh
  <2>2. items[u][j] # 0 => items[u][j] <= Len(history)
    BY DEF Order, Published, IsOf
  <2>3. Newer(u, j, server[u][j], stored[NS(u)][j])'
    <3>1. CASE u = w /\ j = i
      BY <1>7, <1>8, <1>8b, <3>1 DEF Newer
    <3>2. CASE ~ (u = w /\ j = i)
      <4>1. PICK x, b : x = server[u][j] /\ b = stored[NS(u)][j]
        OBVIOUS
      <4>2. Newer(u, j, x, b)'
        BY <1>5, <2>1, <4>1 DEF FreshAt
      <4>3. server'[u][j] = x /\ stored'[NS(u)'][j] = b
        BY <1>7, <1>9, <3>2, <4>1
      <4>4. QED BY <4>2, <4>3 DEF Newer
    <3>3. QED BY <3>1, <3>2
  <2>4. pc[u] \in {"load", "save"} /\ items[u][j] = 0 => Newer(u, j, server[u][j], 0)'
    <3>0. SUFFICES ASSUME pc[u] \in {"load", "save"}, items[u][j] = 0
                   PROVE  Newer(u, j, server[u][j], 0)'
      OBVIOUS
    <3>1. CASE u = w /\ j = i
      BY <1>7, <1>8, <1>8b, <3>1 DEF Newer
    <3>2. CASE ~ (u = w /\ j = i)
      <4>1. PICK x : x = server[u][j]
        OBVIOUS
      <4>2. Newer(u, j, x, 0)'
        BY <1>5, <2>1, <3>0, <4>1 DEF FreshAt
      <4>3. server'[u][j] = x
        BY <1>7, <3>2, <4>1
      <4>4. QED BY <4>2, <4>3 DEF Newer
    <3>3. QED BY <3>1, <3>2
  <2>5. items[u][j] # 0 /\ server'[u][j] # 0 => items[u][j] <= server'[u][j]
    <3>1. items[u][j] \in Nat /\ server[u][j] \in Nat
      BY DEF TypeOK, Snapshot
    <3>2. CASE u = w /\ j = i
      BY <1>1, <1>7, <2>2, <3>1, <3>2
    <3>3. CASE ~ (u = w /\ j = i)
      BY <1>7, <2>1, <3>3 DEF FreshAt
    <3>4. QED BY <3>2, <3>3
  <2>6. /\ pc[u] = "load" => Newer(u, j, items[u][j], stored[NS(u)][j])'
        /\ pc[u] \in {"save", "saved"} => Newer(u, j, items[u][j], old[u][j])'
    BY <1>5, <1>9, <2>1 DEF Newer, FreshAt
  <2>7. QED
    BY <1>9, <2>1, <2>3, <2>4, <2>5, <2>6 DEF FreshAt
<1>13. QED
  BY <1>10, <1>11, <1>12 DEF Order, Fresh

(* A step after which no more is said than before, and nothing else changed  *)
(* but the places of the pumps and what the portal withdrew.                 *)
LEMMA SaysNoMore ==
  ASSUME TypeOK, Order, Published', Ascending',
         UNCHANGED <<history, stored, addr, items, old>>,
         \A u \in Watchers, j \in Items : server'[u][j] \in {server[u][j], 0},
         \A u \in Watchers : pc'[u] = pc[u] \/ pc'[u] = "new",
         \A u \in Watchers, j \in Items : \A a \in 1 .. Len(history) :
           Said(u, j, a)' => Said(u, j, a)
  PROVE  Order'
<1>1. ASSUME NEW u \in Watchers, NEW j \in Items PROVE FreshAt(u, j)'
  <2>1. FreshAt(u, j)
    BY DEF Order, Fresh
  <2>2. NS(u)' = NS(u)
    BY DEF NS
  <2>3. \A x, b : Newer(u, j, x, b) => Newer(u, j, x, b)'
    BY DEF Newer
  <2>4. \A b : (Newer(u, j, 0, b))'
    BY DEF Newer
  <2>5. CASE server'[u][j] = server[u][j]
    BY <2>1, <2>2, <2>3, <2>5 DEF FreshAt
  <2>6. CASE server'[u][j] = 0
    BY <2>1, <2>2, <2>3, <2>4, <2>6 DEF FreshAt
  <2>7. QED BY <2>5, <2>6
<1>2. QED
  BY <1>1 DEF Order, Fresh

(* The consumer takes the first entry of the queue.                          *)
LEMMA TakeFacts ==
  ASSUME TypeOK, Order, queue # << >>
  PROVE  /\ Head(queue) = queue[1] /\ 1 \in 1 .. Len(queue)
         /\ Tail(queue) \in Seq(Entry) /\ Len(Tail(queue)) = Len(queue) - 1
         /\ Len(queue) \in Nat
         /\ \A n \in 1 .. Len(Tail(queue)) : /\ n + 1 \in 1 .. Len(queue)
                                             /\ Tail(queue)[n] = queue[n + 1]
         /\ ~IsDone(Head(queue)) =>
              \E w \in Watchers, i \in Items, v \in 1 .. Len(history) :
                /\ Head(queue) = [from |-> w, ver |-> v]
                /\ history[v] = <<w, i>> /\ v > seen[w][i] /\ v # 0
                /\ Said(w, i, v)
<1>1. /\ Len(queue) \in Nat /\ Len(queue) >= 1
      /\ Tail(queue) \in Seq(Entry)
      /\ Len(Tail(queue)) = Len(queue) - 1
      /\ \A n \in 1 .. Len(Tail(queue)) : Tail(queue)[n] = queue[n + 1]
      /\ Head(queue) = queue[1]
  BY HeadTailProperties, LenProperties, EmptySeq DEF TypeOK
<1>2. 1 \in 1 .. Len(queue) /\ queue[1] \in Entry
  BY <1>1, ElementOfSeq DEF TypeOK
<1>3. ASSUME ~IsDone(queue[1])
      PROVE  \E w \in Watchers, i \in Items, v \in 1 .. Len(history) :
               /\ queue[1] = [from |-> w, ver |-> v]
               /\ history[v] = <<w, i>> /\ v > seen[w][i] /\ v # 0
               /\ Said(w, i, v)
  <2>1. PICK w \in Watchers, v \in Nat : queue[1] = [from |-> w, ver |-> v]
    BY <1>2 DEF Entry
  <2>2. v # 0 /\ queue[1].from = w /\ queue[1].ver = v
    BY <1>3, <2>1 DEF IsDone
  <2>3. v \in 1 .. Len(history) /\ history[v][1] = w /\ v > seen[w][history[v][2]]
    BY <1>2, <1>3, <2>2 DEF Order, Published, Ascending
  <2>4. history[v] \in Watchers \X Items
    BY <2>3, ElementOfSeq DEF TypeOK
  <2>5. PICK i \in Items : history[v] = <<w, i>>
    BY <2>3, <2>4
  <2>6. Said(w, i, v)
    BY <1>2, <2>1, <2>5 DEF Said
  <2>7. QED
    BY <2>1, <2>2, <2>3, <2>5, <2>6
<1>4. QED
  BY <1>1, <1>2, <1>3

LEMMA GetEventOrder ==
  ASSUME TypeOK, TypeOK', Order, GetEvent
  PROVE  Order'
<1>0. /\ queue # << >> /\ ~IsDone(Head(queue)) /\ queue' = Tail(queue)
      /\ seen' = [seen EXCEPT ![Head(queue).from][history[Head(queue).ver][2]] = Head(queue).ver]
      /\ server' = server /\ history' = history /\ stored' = stored /\ addr' = addr
      /\ inherited' = inherited /\ pc' = pc /\ items' = items /\ old' = old
  BY DEF GetEvent, portalVars, lifeVars, pumpVars
<1> USE <1>0
<1>1. PICK w \in Watchers, i \in Items, v \in 1 .. Len(history) :
        /\ Head(queue) = [from |-> w, ver |-> v]
        /\ history[v] = <<w, i>> /\ v > seen[w][i] /\ v # 0 /\ Said(w, i, v)
  BY TakeFacts
<1>2. \A u \in Watchers, j \in Items :
        seen'[u][j] = IF u = w /\ j = i THEN v ELSE seen[u][j]
  <2>0. Head(queue).from = w /\ Head(queue).ver = v /\ history[v][2] = i
    BY <1>1
  <2>1. seen' = [seen EXCEPT ![w][i] = v]
    BY <2>0
  <2>2. \A u \in Watchers, j \in Items :
          [seen EXCEPT ![w][i] = v][u][j] = IF u = w /\ j = i THEN v ELSE seen[u][j]
    <3>1. seen \in [Watchers -> Snapshot]
      BY DEF TypeOK
    <3>2. QED BY <3>1 DEF Snapshot
  <2>3. QED BY <2>1, <2>2
<1>3. /\ \A n \in 1 .. Len(queue') : n + 1 \in 1 .. Len(queue) /\ queue'[n] = queue[n + 1]
      /\ Len(queue') \in Nat /\ queue[1] = [from |-> w, ver |-> v] /\ 1 \in 1 .. Len(queue)
  <2>1. queue[1] = [from |-> w, ver |-> v] /\ 1 \in 1 .. Len(queue)
    BY <1>1, TakeFacts
  <2>2. /\ \A n \in 1 .. Len(queue') : n + 1 \in 1 .. Len(queue) /\ queue'[n] = queue[n + 1]
        /\ Len(queue') \in Nat
    BY TakeFacts
  <2>3. QED BY <2>1, <2>2
<1>4. \A u \in Watchers, j \in Items : \A a \in 1 .. Len(history) :
        Said(u, j, a)' => Said(u, j, a)
  <2> TAKE u \in Watchers, j \in Items
  <2> TAKE a \in 1 .. Len(history)
  <2> HAVE Said(u, j, a)'
  <2>1. history[a] = <<u, j>>
    BY DEF Said
  <2>2. CASE seen'[u][j] = a
    BY <1>1, <1>2, <2>1, <2>2 DEF Said
  <2>3. CASE \E n \in 1 .. Len(queue') : queue'[n] = [from |-> u, ver |-> a]
    BY <1>3, <2>1, <2>3 DEF Said
  <2>4. QED BY <2>2, <2>3 DEF Said
<1>5. Published'
  <2>1. ASSUME NEW u \in Watchers, NEW j \in Items
        PROVE  /\ IsOf(u, j, server[u][j])' /\ IsOf(u, j, items[u][j])'
               /\ IsOf(u, j, seen[u][j])'
               /\ ~inherited'[u] => IsOf(u, j, stored[NS(u)][j])' /\ IsOf(u, j, old[u][j])'
    <3>1. NS(u)' = NS(u)
      BY DEF NS
    <3>2. IsOf(u, j, seen[u][j])'
      <4>1. CASE u = w /\ j = i
        BY <1>1, <1>2, <4>1 DEF IsOf
      <4>2. CASE ~ (u = w /\ j = i)
        <5>1. IsOf(u, j, seen[u][j]) /\ seen'[u][j] = seen[u][j]
          BY <1>2, <4>2 DEF Order, Published
        <5>2. QED BY <5>1 DEF IsOf
      <4>3. QED BY <4>1, <4>2
    <3>3. QED
      BY <3>1, <3>2 DEF IsOf, Order, Published
  <2>2. \A n \in 1 .. Len(queue') :
          ~IsDone(queue'[n]) => /\ queue'[n].ver \in 1 .. Len(history')
                                /\ history'[queue'[n].ver][1] = queue'[n].from
    BY <1>3 DEF Order, Published
  <2>3. QED
    BY <2>1, <2>2 DEF Published, IsDone
<1>6. Ascending'
  <2>1. SUFFICES ASSUME NEW n \in 1 .. Len(queue'), ~IsDone(queue'[n])
                 PROVE  /\ queue'[n].ver > seen'[queue'[n].from][history[queue'[n].ver][2]]
                        /\ \A m \in 1 .. n - 1 :
                             ~IsDone(queue'[m]) /\ history[queue'[m].ver] = history[queue'[n].ver]
                               => queue'[m].ver < queue'[n].ver
    BY DEF Ascending, IsDone
  <2>2. /\ n + 1 \in 1 .. Len(queue) /\ queue'[n] = queue[n + 1] /\ ~IsDone(queue[n + 1])
        /\ 1 \in 1 .. (n + 1) - 1
    BY <1>3, <2>1
  <2>3. /\ queue[n + 1].ver \in 1 .. Len(history)
        /\ history[queue[n + 1].ver][1] = queue[n + 1].from
        /\ queue[n + 1] \in Entry
    BY <2>2, ElementOfSeq DEF Order, Published, TypeOK
  <2>4. history[queue[n + 1].ver] \in Watchers \X Items
    BY <2>3, ElementOfSeq DEF TypeOK
  <2>5. PICK u \in Watchers, j \in Items, x \in 1 .. Len(history) :
          queue[n + 1].from = u /\ queue[n + 1].ver = x /\ history[x] = <<u, j>>
    <3>1. PICK u \in Watchers, j \in Items : history[queue[n + 1].ver] = <<u, j>>
      BY <2>4
    <3>2. u = queue[n + 1].from
      BY <2>3, <3>1
    <3>3. QED BY <2>3, <3>1, <3>2
  <2>6. /\ x > seen[u][j]
        /\ \A m \in 1 .. (n + 1) - 1 :
             ~IsDone(queue[m]) /\ history[queue[m].ver] = history[x] => queue[m].ver < x
    <3>1. /\ queue[n + 1].ver > seen[queue[n + 1].from][history[queue[n + 1].ver][2]]
          /\ \A m \in 1 .. (n + 1) - 1 :
               ~IsDone(queue[m]) /\ history[queue[m].ver] = history[queue[n + 1].ver]
                 => queue[m].ver < queue[n + 1].ver
      BY <2>2 DEF Order, Ascending
    <3>2. history[queue[n + 1].ver][2] = j
      BY <2>5
    <3>3. QED BY <2>5, <3>1, <3>2
  <2>7. x > seen'[u][j]
    <3>1. CASE u = w /\ j = i
      <4>1. queue[1].ver = v /\ ~IsDone(queue[1])
        BY <1>1, <1>3 DEF IsDone
      <4>2. v < x
        BY <1>1, <2>2, <2>5, <2>6, <3>1, <4>1
      <4>3. QED BY <1>2, <3>1, <4>2
    <3>2. CASE ~ (u = w /\ j = i)
      BY <1>2, <2>6, <3>2
    <3>3. QED BY <3>1, <3>2
  <2>8. ASSUME NEW m \in 1 .. n - 1, ~IsDone(queue'[m]), history[queue'[m].ver] = history[x]
        PROVE  queue'[m].ver < x
    <3>1. m + 1 \in 1 .. (n + 1) - 1 /\ m \in 1 .. Len(queue')
      BY <1>3
    <3>2. QED
      BY <1>3, <2>6, <2>8, <3>1
  <2>9. queue'[n].ver = x /\ queue'[n].from = u /\ history[queue'[n].ver][2] = j
    BY <2>2, <2>5
  <2>10. \A m \in 1 .. n - 1 :
           ~IsDone(queue'[m]) /\ history[queue'[m].ver] = history[queue'[n].ver]
             => queue'[m].ver < queue'[n].ver
    BY <2>8, <2>9
  <2>11. QED
    BY <2>7, <2>9, <2>10
<1>7. QED
  BY <1>4, <1>5, <1>6, SaysNoMore

(* The other steps of the consumer and of the portal, and a restart.         *)
LEMMA GetDoneOrder ==
  ASSUME TypeOK, TypeOK', Order, GetDone
  PROVE  Order'
<1>0. /\ queue # << >> /\ queue' = Tail(queue) /\ seen' = seen
      /\ server' = server /\ history' = history /\ stored' = stored /\ addr' = addr
      /\ inherited' = inherited /\ pc' = pc /\ items' = items /\ old' = old
  BY DEF GetDone, portalVars, lifeVars, pumpVars
<1> USE <1>0
<1>1. /\ \A n \in 1 .. Len(queue') : n + 1 \in 1 .. Len(queue) /\ queue'[n] = queue[n + 1]
      /\ Len(queue') \in Nat
  BY TakeFacts
<1>2. \A u \in Watchers, j \in Items : \A a \in 1 .. Len(history) :
        Said(u, j, a)' => Said(u, j, a)
  BY <1>1 DEF Said
<1>3. Published'
  <2>1. \A u : NS(u)' = NS(u)
    BY DEF NS
  <2>2. QED
    BY <1>1, <2>1 DEF Order, Published, IsOf, IsDone
<1>4. Ascending'
  <2>1. SUFFICES ASSUME NEW n \in 1 .. Len(queue'), ~IsDone(queue'[n])
                 PROVE  /\ queue'[n].ver > seen[queue'[n].from][history[queue'[n].ver][2]]
                        /\ \A m \in 1 .. n - 1 :
                             ~IsDone(queue'[m]) /\ history[queue'[m].ver] = history[queue'[n].ver]
                               => queue'[m].ver < queue'[n].ver
    BY DEF Ascending, IsDone
  <2>2. n + 1 \in 1 .. Len(queue) /\ queue'[n] = queue[n + 1]
    BY <1>1
  <2>3. \A m \in 1 .. n - 1 : m + 1 \in 1 .. (n + 1) - 1 /\ queue'[m] = queue[m + 1]
    BY <1>1
  <2>4. QED
    BY <2>1, <2>2, <2>3 DEF Order, Ascending
<1>5. QED
  BY <1>2, <1>3, <1>4, SaysNoMore

LEMMA OtherOrder ==
  ASSUME TypeOK, TypeOK', Order,
         \/ Start \/ Stop \/ Gathered \/ Restart \/ UNCHANGED vars
         \/ \E w \in Watchers, i \in Items : Withdraw(w, i)
  PROVE  Order'
<1>1. CASE Start
  <2> USE DEF Start, portalVars, lifeVars
  <2>1. Published' /\ Ascending'
    <3>1. \A u : NS(u)' = NS(u)
      BY <1>1 DEF NS
    <3>2. QED
      BY <1>1, <3>1 DEF Order, Published, Ascending, IsOf
  <2>2. \A u \in Watchers, j \in Items : \A a \in 1 .. Len(history) :
          Said(u, j, a)' => Said(u, j, a)
    BY <1>1 DEF Said
  <2>3. QED
    BY <1>1, <2>1, <2>2, SaysNoMore
<1>2. CASE UNCHANGED <<server, history, stored, addr, pc, items, old, queue, seen, inherited>>
  <2>1. /\ \A u : NS(u)' = NS(u)
        /\ \A u, j, a : Said(u, j, a)' <=> Said(u, j, a)
    BY <1>2 DEF NS, Said
  <2>2. Published' /\ Ascending'
    <3>1. Published'
      BY <1>2, <2>1 DEF Order, Published, IsOf, IsDone
    <3>2. Ascending'
      BY <1>2 DEF Order, Ascending, IsDone
    <3>3. QED BY <3>1, <3>2
  <2>3. QED
    BY <1>2, <2>1, <2>2, SaysNoMore
<1>3. CASE \E w \in Watchers, i \in Items : Withdraw(w, i)
  <2>1. PICK w \in Watchers, i \in Items : Withdraw(w, i)
    BY <1>3
  <2> USE DEF Withdraw
  <2>2. \A u \in Watchers, j \in Items : server'[u][j] \in {server[u][j], 0}
    BY <2>1 DEF TypeOK, Snapshot
  <2>3. /\ \A u : NS(u)' = NS(u)
        /\ \A u, j, a : Said(u, j, a)' <=> Said(u, j, a)
    BY <2>1 DEF NS, Said
  <2>4. Published' /\ Ascending'
    <3>1. Published'
      BY <2>1, <2>2, <2>3 DEF Order, Published, IsOf, IsDone
    <3>2. Ascending'
      BY <2>1 DEF Order, Ascending, IsDone
    <3>3. QED BY <3>1, <3>2
  <2>5. QED
    BY <2>1, <2>2, <2>3, <2>4, SaysNoMore
<1>4. CASE Restart
  <2> USE DEF Restart, portalVars
  <2>1. /\ addr' \in Injection(Watchers, Addrs)
        /\ queue' = << >> /\ UNCHANGED <<server, history, stored>>
        /\ \A u \in Watchers : /\ pc'[u] = "ended"
                               /\ \A j \in Items : /\ items'[u][j] = 0 /\ seen'[u][j] = 0
                                                   /\ old'[u][j] = 0
    BY <1>4 DEF Blank
  <2>2. ASSUME NEW u \in Watchers, NEW j \in Items
        PROVE  ~inherited'[u] => stored[NS(u)'][j] = 0
    BY <1>4 DEF NS, Blank
  <2>3. Published'
    BY <2>1, <2>2 DEF Order, Published, IsOf
  <2>4. Ascending'
    BY <2>1 DEF Ascending
  <2>5. \A u \in Watchers, j \in Items : \A a \in 1 .. Len(history) : ~Said(u, j, a)'
    BY <2>1 DEF Said
  <2>6. Fresh'
    BY <2>1, <2>5 DEF Fresh, FreshAt, Newer
  <2>7. QED
    BY <2>1, <2>3, <2>4, <2>6 DEF Order
<1>5. QED
  BY <1>1, <1>2, <1>3, <1>4 DEF Stop, Gathered, vars, portalVars, lifeVars, pumpVars

(* Whatever is cancelled, dropped, restarted or fails: what is queued, polled *)
(* and stored follow one another in the order of publication.                *)
THEOREM OrderHolds == Spec => []Order
<1>1. Init => Order
  <2> SUFFICES ASSUME Init PROVE Order
    OBVIOUS
  <2>0. /\ queue = << >> /\ history = << >>
        /\ \A w \in Watchers : /\ pc[w] = "ended" /\ NS(w) \in NameSpaces
                               /\ \A i \in Items : /\ server[w][i] = 0 /\ items[w][i] = 0
                                                   /\ seen[w][i] = 0 /\ old[w][i] = 0
    BY AddrAssumption, ClassAssumption DEF Init, Blank, NS, NameSpaces, Injection
  <2>1. Published /\ Ascending
    <3>1. \A w \in Watchers, i \in Items : stored[NS(w)][i] = 0
      BY <2>0 DEF Init, Blank
    <3>2. QED
      BY <2>0, <3>1 DEF Published, Ascending, IsOf
  <2>2. Fresh
    BY <2>0 DEF Fresh, FreshAt, Newer
  <2>3. QED
    BY <2>1, <2>2, AddrAssumption DEF Init, Order
<1>2. TypeOK /\ TypeOK' /\ Order /\ [Next]_vars => Order'
  <2> SUFFICES ASSUME TypeOK, TypeOK', Order, [Next]_vars PROVE Order'
    OBVIOUS
  <2>1. CASE \E w \in Watchers : Pump(w)
    BY <2>1, PumpOrder
  <2>2. CASE Consumer
    BY <2>2, GetEventOrder, GetDoneOrder, OtherOrder DEF Consumer
  <2>3. CASE Portal
    BY <2>3, PublishOrder, OtherOrder DEF Portal
  <2>4. CASE Restart \/ UNCHANGED vars
    BY <2>4, OtherOrder
  <2>5. QED
    BY <2>1, <2>2, <2>3, <2>4 DEF Next
<1>3. QED
  BY <1>1, <1>2, TypeCorrect, PTL DEF Spec

-------------------------------------------------------------------------------
(* The layer implements the abstract feed.                                   *)

LEMMA StepIsFeedStep ==
  ASSUME TypeOK, Order, Accounting, [Next]_vars
  PROVE  [Feed!Next]_Feed!vars
<1> USE DEF Feed!vars, portalVars, lifeVars, consumerVars, pumpVars
<1>1. CASE UNCHANGED <<history, seen, told, consumer>>
  BY <1>1
<1>2. CASE \E w \in Watchers : Pump(w)
  BY <1>1, <1>2 DEF Pump, PollOk, Load, Persist, Emit, Fail, Wake, DropWatcher,
                    DeliverCancel, EndPump
<1>3. CASE Start
  BY <1>3 DEF Start, Feed!Next, Feed!Open
<1>4. CASE GetEvent
  <2>1. PICK w \in Watchers, i \in Items, v \in 1 .. Len(history) :
          /\ Head(queue) = [from |-> w, ver |-> v]
          /\ history[v] = <<w, i>> /\ v > seen[w][i]
    BY <1>4, TakeFacts DEF GetEvent
  <2>2. Head(queue).from = w /\ Head(queue).ver = v
    BY <2>1
  <2>3. history[v][1] = w /\ history[v][2] = i
    BY <2>1
  <2>4. /\ seen' = [seen EXCEPT ![w][i] = v]
        /\ told' = told + 1 /\ UNCHANGED <<history, consumer>> /\ consumer = "run"
    BY <1>4, <2>2, <2>3 DEF GetEvent
  <2>5. Feed!Tell(v)
    BY <2>1, <2>3, <2>4 DEF Feed!Tell
  <2>6. QED
    BY <2>5 DEF Feed!Next
<1>5. CASE GetDone
  BY <1>1, <1>5 DEF GetDone, Feed!Next, Feed!Close
<1>6. CASE Stop
  BY <1>6 DEF Stop, Feed!Next, Feed!Close
<1>7. CASE Gathered
  BY <1>7 DEF Gathered
<1>8. CASE Portal
  <2>1. PICK w \in Watchers, i \in Items : Publish(w, i) \/ Withdraw(w, i)
    BY <1>8 DEF Portal
  <2>2. CASE Publish(w, i)
    BY <2>2 DEF Publish, Feed!Next, Feed!Publish
  <2>3. CASE Withdraw(w, i)
    BY <1>1, <2>3 DEF Withdraw
  <2>4. QED BY <2>1, <2>2, <2>3
<1>9. CASE Restart
  BY <1>9 DEF Restart, Feed!Next, Feed!NewLife, Feed!Nothing, Blank
<1>10. CASE UNCHANGED vars
  BY <1>1, <1>10 DEF vars
<1>11. QED
  BY <1>2, <1>3, <1>4, <1>5, <1>6, <1>7, <1>8, <1>9, <1>10 DEF Next, Consumer

(* Within one life the consumer is only told of versions that were published *)
(* for that very item, and per item of ever newer ones.                      *)
THEOREM FeedIsImplemented == Spec => ImplementsFeed
<1>1. Init => Feed!Init
  BY DEF Init, Feed!Init, Feed!Nothing, Blank
<1>2. QED
  BY <1>1, StepIsFeedStep, TypeCorrect, OrderHolds, AccountingHolds, PTL
     DEF Spec, ImplementsFeed, Feed!Spec

-------------------------------------------------------------------------------
(* A snapshot is stored before its events are queued, and no version is lost *)
(* between the two.                                                          *)

\* Of the versions of a snapshot, those the consumer was not given wait in the queue.
Known(w, snap) ==
  \A i \in Items : snap[i] > seen[w][i] =>
    \E n \in 1 .. Len(queue) : queue[n] = [from |-> w, ver |-> snap[i]]

FirstRun(w) == starts = 1 /\ ~inherited[w] /\ pc[w] # "ended" /\ ClassOf[w] \in ReportsChanges

\* The inductive strengthening of PersistedIsAnnounced: between the write and the events
\* it is the snapshot loaded before that is known.
Snapshots ==
  /\ starts = 0 => /\ consumer = "off"
                   /\ \A w \in Watchers : ~inherited[w] => stored[NS(w)] = Blank
  /\ \A w \in Watchers : FirstRun(w) =>
       Known(w, IF pc[w] = "saved" THEN old[w] ELSE stored[NS(w)])

(* Known snapshots stay known when the queue only grows.                     *)
LEMMA KnownGrows ==
  ASSUME TypeOK, NEW c \in Seq(Entry), queue' = queue \o c, UNCHANGED seen,
         NEW w \in Watchers, NEW snap, Known(w, snap)
  PROVE  Known(w, snap)'
<1>1. \A n \in 1 .. Len(queue) : n \in 1 .. Len(queue') /\ queue'[n] = queue[n]
  BY ConcatProperties, LenProperties DEF TypeOK
<1>2. QED
  BY <1>1 DEF Known

LEMMA PumpSnapshots ==
  ASSUME TypeOK, Order, Accounting, Snapshots, NEW w \in Watchers, Pump(w)
  PROVE  Snapshots'
<1> USE DEF portalVars, lifeVars, consumerVars, Goto, Running
<1>1. starts # 0 /\ UNCHANGED <<starts, inherited, addr, seen>> /\ starts \in Nat
  <2>1. pc[w] # "ended"
    BY DEF Pump, PollOk, Load, Persist, Emit, Fail, Wake, DropWatcher, DeliverCancel,
           Accounting
  <2>2. starts # 0
    BY <2>1 DEF Snapshots, Accounting
  <2>3. QED
    BY <2>2 DEF Pump, PollOk, Load, Persist, Emit, Fail, Wake, DropWatcher, DeliverCancel,
                EndPump, TypeOK
<1>2. PICK c \in Seq(Entry) : queue' = queue \o c
  <2>1. \A b \in Announced(w, old[w], items[w]) :
          /\ b \in Seq(Entry)
          /\ \A n \in 0 .. Len(b) : Append(SubSeq(b, 1, n), DoneOf(w)) \in Seq(Entry)
    BY AnnouncedNews DEF NewsOf
  <2>2. << >> \in Seq(Entry) /\ <<DoneOf(w)>> \in Seq(Entry) /\ queue = queue \o << >>
    BY ConcatEmptySeq DEF DoneOf, Entry, TypeOK
  <2>3. CASE UNCHANGED queue
    BY <2>2, <2>3
  <2>4. CASE Emit(w)
    BY <2>1, <2>4 DEF Emit
  <2>5. CASE DropWatcher(w)
    BY <2>1, <2>5 DEF DropWatcher, EndPump
  <2>6. CASE DeliverCancel(w)
    BY <2>2, <2>6 DEF DeliverCancel, EndPump
  <2>7. QED
    BY <2>3, <2>4, <2>5, <2>6 DEF Pump, PollOk, Load, Persist, Fail, Wake
<1>3. \A u, snap : u \in Watchers /\ Known(u, snap) => Known(u, snap)'
  BY <1>1, <1>2, KnownGrows
<1>4. ASSUME NEW u \in Watchers, FirstRun(u)'
      PROVE  Known(u, IF pc[u] = "saved" THEN old[u] ELSE stored[NS(u)])'
  <2>1. NS(u)' = NS(u)
    BY <1>1 DEF NS
  <2>2. CASE u # w
    <3>1. pc'[u] = pc[u] /\ old'[u] = old[u] /\ FirstRun(u)
      BY <1>1, <1>4, <2>2 DEF FirstRun, TypeOK, Pump, PollOk, Load, Persist, Emit, Fail, Wake,
              DropWatcher, DeliverCancel, EndPump
    <3>2. stored'[NS(u)] = stored[NS(u)]
      <4>1. NS(u) # NS(w) /\ NS(u) \in NameSpaces
        BY <2>2, OwnNameSpace, NSType
      <4>2. QED
        BY <4>1 DEF TypeOK, Pump, PollOk, Load, Persist, Emit, Fail, Wake,
                    DropWatcher, DeliverCancel, EndPump
    <3>3. PICK snap : snap = IF pc[u] = "saved" THEN old[u] ELSE stored[NS(u)]
      OBVIOUS
    <3>4. Known(u, snap)'
      BY <1>3, <3>1, <3>3 DEF Snapshots
    <3>5. snap = IF pc'[u] = "saved" THEN old'[u] ELSE stored'[NS(u)']
      BY <2>1, <3>1, <3>2, <3>3
    <3>6. QED
      BY <3>4, <3>5 DEF Known
  <2>3. CASE u = w /\ (PollOk(w) \/ Load(w) \/ Fail(w) \/ Wake(w))
    <3>1. /\ pc[w] \notin {"saved", "ended"} /\ pc'[w] # "saved"
          /\ stored' = stored
      BY <2>3 DEF TypeOK, PollOk, Load, Fail, Wake
    <3>2. FirstRun(w)
      BY <1>1, <1>4, <2>3, <3>1 DEF FirstRun
    <3>3. PICK snap : snap = stored[NS(w)]
      OBVIOUS
    <3>4. Known(w, snap)'
      BY <1>3, <3>1, <3>2, <3>3 DEF Snapshots
    <3>5. QED
      BY <2>1, <2>3, <3>1, <3>3, <3>4 DEF Known
  <2>4. CASE u = w /\ Persist(w)
    <3>1. pc[w] = "save" /\ pc'[w] = "saved" /\ old' = old
      BY <2>4 DEF TypeOK, Persist
    <3>2. FirstRun(w)
      BY <1>1, <1>4, <2>4, <3>1 DEF FirstRun
    <3>3. PICK snap : snap = stored[NS(w)]
      OBVIOUS
    <3>4. Known(w, snap)'
      BY <1>3, <3>1, <3>2, <3>3 DEF Snapshots
    <3>5. \A i \in Items : old'[w][i] = snap[i]
      BY <3>1, <3>3 DEF Order, Fresh, FreshAt
    <3>6. QED
      BY <2>4, <3>1, <3>4, <3>5 DEF Known
  <2>5. CASE u = w /\ Emit(w)
    <3>1. pc[w] = "saved" /\ pc'[w] = "sleep" /\ stored' = stored
      BY <2>5 DEF TypeOK, Emit
    <3>2. FirstRun(w)
      BY <1>1, <1>4, <2>5, <3>1 DEF FirstRun
    <3>3. PICK o, n : o = old[w] /\ n = items[w]
      OBVIOUS
    <3>4. PICK b \in Announced(w, o, n) : queue' = queue \o b
      BY <2>5, <3>3 DEF Emit
    <3>5. o \in Snapshot /\ n \in Snapshot
      BY <3>3 DEF TypeOK
    <3>6. \A i, j \in Items : n[i] # 0 /\ n[i] = n[j] => i = j
      <4> TAKE i, j \in Items
      <4>1. IsOf(w, i, n[i]) /\ IsOf(w, j, n[j])
        BY <3>3 DEF Order, Published
      <4>2. QED BY <4>1 DEF IsOf
    <3>7. /\ b \in Seq(Entry)
          /\ \A i \in News(o, n) : \E k \in 1 .. Len(b) : b[k] = [from |-> w, ver |-> n[i]]
      <4>1. ClassOf[w] \in ReportsChanges
        BY <3>2 DEF FirstRun
      <4>2. b \in Seq(EventsOf(w))
        BY <3>4, <3>5, AnnouncedType
      <4>3. b \in Seq(Entry)
        BY <4>2, SeqMonotonic DEF EventsOf
      <4>4. ClassOf[w] \in ReportsChanges =>
              \A i \in News(o, n) : \E k \in 1 .. Len(b) : b[k] = [from |-> w, ver |-> n[i]]
        <5> HIDE DEF Goto, Running
        <5>1. QED BY ONLY <3>4, <3>5, <3>6, w \in Watchers, AnnouncedFacts
      <4>5. QED BY <4>1, <4>3, <4>4
    <3>8. Known(w, o)'
      BY <1>3, <3>1, <3>2, <3>3 DEF Snapshots
    <3>9. \A i \in Items : stored[NS(w)][i] = n[i]
      BY <3>1, <3>3 DEF Order, Fresh, FreshAt
    <3>10. \A k \in 1 .. Len(b) : \E m \in 1 .. Len(queue') : queue'[m] = b[k]
      <4> TAKE k \in 1 .. Len(b)
      <4>1. Len(queue) + k \in 1 .. Len(queue') /\ queue'[Len(queue) + k] = b[k]
        BY <3>4, <3>7, ConcatProperties, LenProperties DEF TypeOK
      <4>2. QED BY <4>1
    <3>11. ASSUME NEW i \in Items, n[i] > seen'[w][i]
           PROVE  \E m \in 1 .. Len(queue') : queue'[m] = [from |-> w, ver |-> n[i]]
      <4>1. n[i] # 0
        BY <1>1, <3>5, <3>11 DEF TypeOK, Snapshot
      <4>2. CASE o[i] = n[i]
        BY <3>8, <3>11, <4>2 DEF Known
      <4>3. CASE o[i] # n[i]
        <5>1. i \in News(o, n)
          BY <4>1, <4>3 DEF News, Added, Changed
        <5>2. PICK k \in 1 .. Len(b) : b[k] = [from |-> w, ver |-> n[i]]
          BY <3>7, <5>1
        <5>3. PICK m \in 1 .. Len(queue') : queue'[m] = b[k]
          BY <3>10
        <5>4. QED BY <5>2, <5>3
      <4>4. QED BY <4>2, <4>3
    <3>12. QED
      BY <2>1, <2>5, <3>1, <3>9, <3>11 DEF Known
  <2>6. CASE u = w /\ (DropWatcher(w) \/ DeliverCancel(w))
    BY <1>4, <2>6 DEF DropWatcher, DeliverCancel, EndPump, TypeOK, FirstRun
  <2>7. QED
    BY <2>2, <2>3, <2>4, <2>5, <2>6 DEF Pump
<1>5. QED
  BY <1>1, <1>4 DEF Snapshots

LEMMA OtherSnapshots ==
  ASSUME TypeOK, TypeOK', Order, Accounting, Snapshots,
         Consumer \/ Portal \/ Restart \/ UNCHANGED vars
  PROVE  Snapshots'
<1> USE DEF portalVars, lifeVars, pumpVars
<1>1. CASE UNCHANGED <<starts, stored, addr, pc, old, queue, seen, inherited>>
           /\ (consumer' = consumer \/ starts # 0 \/ consumer' = "off")
  <2>1. \A u : NS(u)' = NS(u)
    BY <1>1 DEF NS
  <2>2. \A u : FirstRun(u)' <=> FirstRun(u)
    BY <1>1 DEF FirstRun
  <2>3. \A u, snap : Known(u, snap) => Known(u, snap)'
    BY <1>1 DEF Known
  <2>4. ASSUME NEW u \in Watchers, FirstRun(u)
        PROVE  Known(u, IF pc[u] = "saved" THEN old[u] ELSE stored[NS(u)])'
    <3>1. PICK snap : snap = IF pc[u] = "saved" THEN old[u] ELSE stored[NS(u)]
      OBVIOUS
    <3>2. Known(u, snap)'
      BY <2>3, <2>4, <3>1 DEF Snapshots
    <3>3. snap = IF pc'[u] = "saved" THEN old'[u] ELSE stored'[NS(u)']
      BY <1>1, <2>1, <3>1
    <3>4. QED BY <3>2, <3>3 DEF Known
  <2>5. QED
    BY <1>1, <2>1, <2>2, <2>4 DEF Snapshots
<1>2. CASE Start
  <2> USE DEF Start
  <2>1. \A u \in Watchers : NS(u)' = NS(u) /\ NS(u) \in NameSpaces
    BY <1>2, NSType DEF NS
  <2>2. starts' = starts + 1 /\ starts' # 0
    BY <1>2 DEF TypeOK
  <2>3. ASSUME NEW u \in Watchers, FirstRun(u)'
        PROVE  Known(u, IF pc[u] = "saved" THEN old[u] ELSE stored[NS(u)])'
    <3>1. starts = 0 /\ ~inherited[u] /\ pc'[u] = "new"
      BY <1>2, <2>2, <2>3 DEF FirstRun, TypeOK
    <3>2. stored[NS(u)] = Blank
      BY <3>1 DEF Snapshots
    <3>3. \A i \in Items : stored[NS(u)][i] = 0 /\ seen[u][i] \in Nat
      BY <3>2 DEF Blank, TypeOK, Snapshot
    <3>4. QED
      BY <1>2, <2>1, <3>1, <3>3 DEF Known
  <2>4. QED
    BY <2>2, <2>3 DEF Snapshots
<1>3. ASSUME queue # << >>, queue' = Tail(queue), consumer = "run",
             UNCHANGED <<starts, stored, addr, pc, old, inherited>>,
             \/ IsDone(Head(queue)) /\ seen' = seen
             \/ GetEvent
      PROVE  Snapshots'
  <2>1. starts # 0
    BY <1>3 DEF Snapshots
  <2>2. \A u : NS(u)' = NS(u)
    BY <1>3 DEF NS
  <2>3. \A m \in 2 .. Len(queue) : m - 1 \in 1 .. Len(queue') /\ queue'[m - 1] = queue[m]
    <3>1. /\ Len(queue) \in Nat /\ Len(queue') = Len(queue) - 1
          /\ \A n \in 1 .. Len(queue') : queue'[n] = queue[n + 1]
      BY <1>3, TakeFacts
    <3>2. QED BY <3>1
  <2>4. ASSUME NEW u \in Watchers, FirstRun(u), NEW snap \in Snapshot, Known(u, snap),
               \A i \in Items : IsOf(u, i, snap[i])
        PROVE  Known(u, snap)'
    <3>1. SUFFICES ASSUME NEW i \in Items, snap[i] > seen'[u][i]
                   PROVE  \E n \in 1 .. Len(queue') : queue'[n] = [from |-> u, ver |-> snap[i]]
      BY DEF Known
    <3>2. snap[i] > seen[u][i] /\ Head(queue) # [from |-> u, ver |-> snap[i]]
      <4>0. snap[i] \in Nat /\ seen[u][i] \in Nat /\ seen'[u][i] \in Nat
        BY DEF Snapshot, TypeOK
      <4>1. CASE IsDone(Head(queue)) /\ seen' = seen
        BY <3>1, <4>0, <4>1 DEF IsDone
      <4>2. CASE GetEvent
        <5>1. PICK w \in Watchers, j \in Items, v \in 1 .. Len(history) :
                /\ Head(queue) = [from |-> w, ver |-> v]
                /\ history[v] = <<w, j>> /\ v > seen[w][j]
          BY <4>2, TakeFacts DEF GetEvent
        <5>2. Head(queue).from = w /\ Head(queue).ver = v /\ history[v][2] = j
          BY <5>1
        <5>3. seen' = [seen EXCEPT ![w][j] = v]
          BY <4>2, <5>2 DEF GetEvent
        <5>4. seen'[u][i] = IF u = w /\ i = j THEN v ELSE seen[u][i]
          <6>1. seen \in [Watchers -> [Items -> Nat]]
            BY DEF TypeOK, Snapshot
          <6>2. QED BY ONLY <5>3, <6>1, u \in Watchers, i \in Items, w \in Watchers, j \in Items
        <5>5. CASE u = w /\ i = j
          BY <3>1, <4>0, <5>1, <5>2, <5>4, <5>5
        <5>6. CASE ~ (u = w /\ i = j)
          <6>1. snap[i] # 0 /\ history[snap[i]] = <<u, i>>
            BY <2>4, <3>1, <4>0 DEF IsOf
          <6>2. ~ (u = w /\ snap[i] = v)
            BY <5>1, <5>6, <6>1
          <6>3. QED
            BY <3>1, <5>2, <5>4, <5>6, <6>2
        <5>7. QED BY <5>5, <5>6
      <4>3. QED BY <1>3, <4>1, <4>2
    <3>3. PICK m \in 1 .. Len(queue) : queue[m] = [from |-> u, ver |-> snap[i]]
      BY <2>4, <3>2 DEF Known
    <3>4. m # 1
      BY <1>3, <3>2, <3>3, TakeFacts
    <3>5. m \in 2 .. Len(queue)
      BY <3>4
    <3>6. QED
      BY <2>3, <3>3, <3>5
  <2>5. ASSUME NEW u \in Watchers, FirstRun(u)'
        PROVE  Known(u, IF pc[u] = "saved" THEN old[u] ELSE stored[NS(u)])'
    <3>1. FirstRun(u)
      BY <1>3, <2>5 DEF FirstRun
    <3>2. PICK snap : snap = IF pc[u] = "saved" THEN old[u] ELSE stored[NS(u)]
      OBVIOUS
    <3>3. Known(u, snap)
      BY <3>1, <3>2 DEF Snapshots
    <3>4. snap \in Snapshot
      BY <3>2, NSType DEF TypeOK
    <3>5. \A i \in Items : IsOf(u, i, snap[i])
      BY <3>1, <3>2 DEF FirstRun, Order, Published
    <3>6. Known(u, snap)'
      BY <2>4, <3>1, <3>3, <3>4, <3>5
    <3>7. snap = IF pc'[u] = "saved" THEN old'[u] ELSE stored'[NS(u)']
      BY <1>3, <2>2, <3>2
    <3>8. QED BY <3>6, <3>7 DEF Known
  <2>6. QED
    BY <1>3, <2>1, <2>5 DEF Snapshots
<1>4. CASE Restart
  <2>1. \A u \in Watchers : ~inherited'[u] => stored'[NS(u)'] = Blank
    BY <1>4 DEF Restart, NS
  <2>2. QED
    BY <1>4, <2>1 DEF Restart, Snapshots, FirstRun
<1>5. starts # 0 \/ consumer = "off"
  BY DEF Snapshots
<1>6. CASE GetEvent \/ GetDone
  BY <1>3, <1>6 DEF GetEvent, GetDone
<1>7. CASE Stop \/ Gathered \/ Portal \/ UNCHANGED vars
  BY <1>1, <1>5, <1>7 DEF Stop, Gathered, Portal, Publish, Withdraw, vars
<1>8. QED
  BY <1>2, <1>4, <1>6, <1>7 DEF Consumer

LEMMA InitSnapshots == Init => Snapshots
BY AddrAssumption, ClassAssumption DEF Init, Snapshots, FirstRun, NS, NameSpaces, Injection

(* In the first iteration over a storage that held nothing for a watcher, no *)
(* version gets into the storage without an event, except in the instant     *)
(* between the write and the event.                                          *)
THEOREM NothingPersistedSilently == Spec => []PersistedIsAnnounced
<1>1. TypeOK /\ TypeOK' /\ Order /\ Accounting /\ Snapshots /\ [Next]_vars => Snapshots'
  BY PumpSnapshots, OtherSnapshots DEF Next
<1>2. TypeOK /\ Snapshots => PersistedIsAnnounced
  <2> SUFFICES ASSUME TypeOK, Snapshots, NEW w \in Watchers, NEW i \in Items,
                      starts = 1, ~inherited[w], pc[w] \notin {"saved", "ended"},
                      ClassOf[w] \in ReportsChanges, stored[NS(w)][i] > seen[w][i]
               PROVE  [from |-> w, ver |-> stored[NS(w)][i]] \in ToSet(queue)
    BY DEF PersistedIsAnnounced
  <2>1. Known(w, stored[NS(w)])
    BY DEF Snapshots, FirstRun
  <2>2. PICK n \in 1 .. Len(queue) : queue[n] = [from |-> w, ver |-> stored[NS(w)][i]]
    BY <2>1 DEF Known
  <2>3. DOMAIN queue = 1 .. Len(queue)
    BY LenProperties DEF TypeOK
  <2>4. QED
    BY <2>2, <2>3 DEF ToSet
<1>3. QED
  BY <1>1, <1>2, InitSnapshots, TypeCorrect, OrderHolds, AccountingHolds, PTL DEF Spec

===============================================================================
