------------------------------- MODULE WatchFeed -------------------------------
(***************************************************************************)
(* The reactive layer: a Dispatcher that runs one pump task per Watcher,   *)
(* each pump driving Watcher.events() -> deltas() -> StateDiffer.compute() *)
(* over a snapshot kept in a storage, and all pumps feeding one queue that *)
(* a consumer drains.                                                      *)
(*                                                                         *)
(* A pump is modelled at its suspension points, which are the only places  *)
(* where asyncio can run another task or deliver a cancellation:           *)
(*   new     task created, coroutine not yet entered                       *)
(*   poll    awaiting Watcher.poll(), the request to the portal            *)
(*   load    awaiting storage.get() in _load_snapshot                      *)
(*   save    awaiting storage.set() in _save_snapshot, not yet effective   *)
(*   saved   the same await, the storage already holds the new snapshot    *)
(*   sleep   awaiting sleep(interval)                                      *)
(*   backoff awaiting sleep(min(backoff, backoff_max))                     *)
(*   ended   the task is done                                              *)
(* The queue is unbounded, so queue.put() never suspends, and to_events()  *)
(* is synchronous: the events of one delta enter the queue in one step.    *)
(*                                                                         *)
(* The portal numbers the versions of all its items; a version stands for  *)
(* the item's content, and hence for its hash.  Version 0 of an item means *)
(* that the item is not in the list, in the snapshot, or was never seen.   *)
(***************************************************************************)
EXTENDS Naturals, Sequences, FiniteSets, SequencesExt

CONSTANTS
  Watchers,        \* the watchers given to the Dispatcher
  Items,           \* the item keys of a portal list
  Classes,         \* the Watcher subclasses in use
  ClassOf,         \* the subclass of each watcher
  ReportsChanges,  \* subclasses whose to_events() maps delta.changed too
  Addrs,           \* values of id(self) a watcher object may have
  HomeOf,          \* the id(self) of each watcher in the first life
  MaxEdits,        \* bound: versions the portal publishes
  MaxStarts,       \* bound: iterations of Dispatcher.events() in one life
  MaxRestarts      \* bound: times the process is started again

ASSUME WatchersAssumption == IsFiniteSet(Watchers)
ASSUME ItemsAssumption == IsFiniteSet(Items)
ASSUME ClassAssumption ==
  /\ ClassOf \in [Watchers -> Classes]
  /\ ReportsChanges \subseteq Classes
ASSUME AddrAssumption == HomeOf \in Injection(Watchers, Addrs)
ASSUME BoundsAssumption ==
  /\ MaxEdits \in Nat
  /\ MaxStarts \in Nat
  /\ MaxRestarts \in Nat

VARIABLES
  server,     \* server[w][i]: the version now in the list that w polls
  history,    \* history[v] = <<w, i>>: what version v is a version of
  stored,     \* stored[ns]: the snapshot under "differ:<ns>" in the storage
  addr,       \* addr[w]: id(self) of the watcher object of this life
  pc,         \* pc[w]: where the pump of w is suspended
  items,      \* items[w]: the list the last poll returned
  old,        \* old[w]: the snapshot compute() loaded
  cancelled,  \* cancelled[w]: task.cancel() was called, not yet delivered
  queue,      \* the asyncio.Queue of Dispatcher.events()
  active,     \* the consumer's count of pumps it still waits for
  consumer,   \* "off", "run" (in the loop) or "closing" (in the finally)
  starts,     \* iterations begun in this life
  lives,      \* restarts so far
  \* history variables
  seen,       \* seen[w][i]: newest version the consumer was given in this life
  everSeen,   \* the same over all lives
  told,       \* how many events the consumer was given in this life
  inherited   \* inherited[w]: its namespace held a snapshot when w was created

pumpVars == <<pc, items, old, cancelled>>
lifeVars == <<addr, lives, inherited>>
portalVars == <<server, history>>
consumerVars == <<active, consumer, starts, seen, everSeen, told>>
vars == <<server, history, stored, addr, pc, items, old, cancelled, queue, active,
          consumer, starts, lives, seen, everSeen, told, inherited>>

States == {"new", "poll", "load", "save", "saved", "sleep", "backoff", "ended"}
Snapshot == [Items -> Nat]
Blank == [i \in Items |-> 0]
NameSpaces == Classes \X Addrs

\* namespace = f"{type(self).__name__}:{id(self)}"
NS(w) == <<ClassOf[w], addr[w]>>

-------------------------------------------------------------------------------
(* The queue holds events and one _DONE sentinel per finished pump.  An     *)
(* entry names the pump that put it; version 0 is the sentinel.             *)
Entry == [from : Watchers, ver : Nat]
DoneOf(w) == [from |-> w, ver |-> 0]
IsDone(e) == e.ver = 0

Added(o, n) == {i \in Items : n[i] # 0 /\ o[i] = 0}

\* Mutant of Changed: an item that was not in the snapshot counts as changed too.
ChangedOrAdded(o, n) == {i \in Items : n[i] # 0 /\ o[i] # n[i]}

Changed(o, n) == {i \in Items : n[i] # 0 /\ o[i] # 0 /\ o[i] # n[i]}

\* The event sequences for a set of items, in whatever order the portal lists them.
Listed(w, n, S) == SetToSeqs({[from |-> w, ver |-> n[i]] : i \in S})

\* Mutant of Announced: a subclass that forgot delta.changed.
AnnouncedAddedOnly(w, o, n) == Listed(w, n, Added(o, n))

\* to_events(): the added items first, then the changed ones where the subclass
\* reports them; delta.removed is always empty.
Announced(w, o, n) ==
  {a \o c : a \in Listed(w, n, Added(o, n)),
            c \in IF ClassOf[w] \in ReportsChanges THEN Listed(w, n, Changed(o, n))
                                                   ELSE {<< >>}}

(* The portal. *)

Publish(w, i) ==
  /\ Len(history) < MaxEdits
  /\ history' = Append(history, <<w, i>>)
  /\ server' = [server EXCEPT ![w][i] = Len(history) + 1]
  /\ UNCHANGED <<stored, addr, pc, items, old, cancelled, queue, active, consumer,
                 starts, lives, seen, everSeen, told, inherited>>

Withdraw(w, i) ==
  /\ server[w][i] # 0
  /\ server' = [server EXCEPT ![w][i] = 0]
  /\ UNCHANGED <<history, stored, addr, pc, items, old, cancelled, queue, active,
                 consumer, starts, lives, seen, everSeen, told, inherited>>

-------------------------------------------------------------------------------
(* One turn of the loop of deltas(), split at its suspension points. *)

Running(w, at) == pc[w] = at /\ ~cancelled[w]
Goto(w, to) == pc' = [pc EXCEPT ![w] = to]

\* poll() returned; compute() has started and awaits storage.get().
PollOk(w) ==
  /\ Running(w, "poll")
  /\ Goto(w, "load")
  /\ items' = [items EXCEPT ![w] = server[w]]
  /\ UNCHANGED <<portalVars, lifeVars, consumerVars, stored, old, cancelled, queue>>

\* Mutant of Load: a missing snapshot is handed on as it is, not as {}.
LoadRaw(w) ==
  /\ Running(w, "load")
  /\ Goto(w, "save")
  /\ old' = [old EXCEPT ![w] = IF stored[NS(w)] = Blank THEN << >> ELSE stored[NS(w)]]
  /\ UNCHANGED <<portalVars, lifeVars, consumerVars, stored, items, cancelled, queue>>

\* _load_snapshot() returned (an absent key is the empty snapshot), the items were
\* classified and the new snapshot handed to storage.set().
Load(w) ==
  /\ Running(w, "load")
  /\ Goto(w, "save")
  /\ old' = [old EXCEPT ![w] = stored[NS(w)]]
  /\ UNCHANGED <<portalVars, lifeVars, consumerVars, stored, items, cancelled, queue>>

\* storage.set() takes effect while compute() still awaits it.  A cancellation that
\* was requested but not delivered does not stop the write.
Persist(w) ==
  /\ pc[w] = "save"
  /\ Goto(w, "saved")
  /\ stored' = [stored EXCEPT ![NS(w)] = items[w]]
  /\ UNCHANGED <<portalVars, lifeVars, consumerVars, items, old, cancelled, queue>>

\* compute() returned: a non-empty delta is yielded, mapped and queued, then the
\* pump sleeps for the interval.
Emit(w) ==
  /\ Running(w, "saved")
  /\ Goto(w, "sleep")
  /\ \E batch \in Announced(w, old[w], items[w]) : queue' = queue \o batch
  /\ items' = [items EXCEPT ![w] = Blank]
  /\ old' = [old EXCEPT ![w] = Blank]
  /\ UNCHANGED <<portalVars, lifeVars, consumerVars, stored, cancelled>>

\* poll(), storage.get() or storage.set() raised: back off.
Fail(w) ==
  /\ pc[w] \in {"poll", "load", "save"} /\ ~cancelled[w]
  /\ Goto(w, "backoff")
  /\ items' = [items EXCEPT ![w] = Blank]
  /\ old' = [old EXCEPT ![w] = Blank]
  /\ UNCHANGED <<portalVars, lifeVars, consumerVars, stored, cancelled, queue>>

\* Mutant of Wake: an exception ends the polling for good.
WakeNotAfterFailure(w) ==
  /\ pc[w] \in {"new", "sleep"} /\ ~cancelled[w]
  /\ Goto(w, "poll")
  /\ UNCHANGED <<portalVars, lifeVars, consumerVars, stored, items, old, cancelled, queue>>

\* The task is entered, or the interval or the back-off is over.
Wake(w) ==
  /\ pc[w] \in {"new", "sleep", "backoff"} /\ ~cancelled[w]
  /\ Goto(w, "poll")
  /\ UNCHANGED <<portalVars, lifeVars, consumerVars, stored, items, old, cancelled, queue>>

\* The pump's task ends and leaves the given entries in the queue.
EndPump(w, entries) ==
  /\ Goto(w, "ended")
  /\ queue' = queue \o entries
  /\ items' = [items EXCEPT ![w] = Blank]
  /\ old' = [old EXCEPT ![w] = Blank]
  /\ cancelled' = [cancelled EXCEPT ![w] = FALSE]
  /\ UNCHANGED <<portalVars, lifeVars, consumerVars, stored>>

\* to_events() raised after some of its events: the error is logged, the finally of
\* _pump puts the sentinel, the watcher is dropped.
DropWatcher(w) ==
  /\ Running(w, "saved")
  /\ \E batch \in Announced(w, old[w], items[w]) : \E n \in 0 .. Len(batch) :
       EndPump(w, Append(SubSeq(batch, 1, n), DoneOf(w)))

\* CancelledError is thrown into the pump at the await it is suspended in.  A task
\* that was never entered runs no finally, hence puts no sentinel.
DeliverCancel(w) ==
  /\ cancelled[w]
  /\ EndPump(w, IF pc[w] = "new" THEN << >> ELSE <<DoneOf(w)>>)

-------------------------------------------------------------------------------
(* The consumer: the body of Dispatcher.events(). *)

\* Mutant of Start: the queue belongs to the Dispatcher object and is not new.
StartOnOldQueue ==
  /\ consumer = "off" /\ starts < MaxStarts /\ Watchers # {}
  /\ starts' = starts + 1
  /\ consumer' = "run"
  /\ active' = Cardinality(Watchers)
  /\ queue' = queue
  /\ pc' = [w \in Watchers |-> "new"]
  /\ UNCHANGED <<portalVars, lifeVars, stored, items, old, cancelled, seen, everSeen, told>>

Start ==
  /\ consumer = "off" /\ starts < MaxStarts /\ Watchers # {}
  /\ starts' = starts + 1
  /\ consumer' = "run"
  /\ active' = Cardinality(Watchers)
  /\ queue' = << >>
  /\ pc' = [w \in Watchers |-> "new"]
  /\ UNCHANGED <<portalVars, lifeVars, stored, items, old, cancelled, seen, everSeen, told>>

GetEvent ==
  /\ consumer = "run" /\ active > 0 /\ queue # << >>
  /\ ~IsDone(Head(queue))
  /\ queue' = Tail(queue)
  /\ told' = told + 1
  /\ LET w == Head(queue).from
         v == Head(queue).ver
         i == history[v][2]
     IN  /\ seen' = [seen EXCEPT ![w][i] = v]
         /\ everSeen' = [everSeen EXCEPT ![w][i] = IF v > @ THEN v ELSE @]
  /\ UNCHANGED <<portalVars, lifeVars, stored, pumpVars, active, consumer, starts>>

\* A sentinel: when it was the last one the loop is over and the finally runs, where
\* every task is done already.
GetDone ==
  /\ consumer = "run" /\ active > 0 /\ queue # << >>
  /\ IsDone(Head(queue))
  /\ queue' = Tail(queue)
  /\ active' = active - 1
  /\ consumer' = IF active = 1 THEN "closing" ELSE "run"
  /\ UNCHANGED <<portalVars, lifeVars, stored, pumpVars, starts, seen, everSeen, told>>

\* Mutant of Stop: the finally awaits the tasks without cancelling them.
StopWithoutCancel ==
  /\ consumer = "run" /\ active > 0
  /\ consumer' = "closing"
  /\ UNCHANGED <<portalVars, lifeVars, stored, pumpVars, queue, active, starts, seen,
                 everSeen, told>>

\* The generator is closed or its task cancelled: the finally cancels every task
\* that is not done.
Stop ==
  /\ consumer = "run" /\ active > 0
  /\ consumer' = "closing"
  /\ cancelled' = [w \in Watchers |-> pc[w] # "ended"]
  /\ UNCHANGED <<portalVars, lifeVars, stored, pc, items, old, queue, active, starts,
                 seen, everSeen, told>>

\* gather() over all tasks returned.
Gathered ==
  /\ consumer = "closing"
  /\ \A w \in Watchers : pc[w] = "ended"
  /\ consumer' = "off"
  /\ UNCHANGED <<portalVars, lifeVars, stored, pumpVars, queue, active, starts, seen,
                 everSeen, told>>

\* The process ends, at any point, and is started again: only the storage survives,
\* and the new watcher objects may have any addresses.
Restart ==
  /\ lives < MaxRestarts
  /\ lives' = lives + 1
  /\ addr' \in Injection(Watchers, Addrs)
  /\ inherited' = [w \in Watchers |-> stored[<<ClassOf[w], addr'[w]>>] # Blank]
  /\ pc' = [w \in Watchers |-> "ended"]
  /\ items' = [w \in Watchers |-> Blank]
  /\ old' = [w \in Watchers |-> Blank]
  /\ cancelled' = [w \in Watchers |-> FALSE]
  /\ queue' = << >>
  /\ active' = 0
  /\ consumer' = "off"
  /\ starts' = 0
  /\ seen' = [w \in Watchers |-> Blank]
  /\ told' = 0
  /\ UNCHANGED <<portalVars, stored, everSeen>>

-------------------------------------------------------------------------------
Init ==
  /\ server = [w \in Watchers |-> Blank]
  /\ history = << >>
  /\ stored = [ns \in NameSpaces |-> Blank]
  /\ addr = HomeOf
  /\ pc = [w \in Watchers |-> "ended"]
  /\ items = [w \in Watchers |-> Blank]
  /\ old = [w \in Watchers |-> Blank]
  /\ cancelled = [w \in Watchers |-> FALSE]
  /\ queue = << >>
  /\ active = 0
  /\ consumer = "off"
  /\ starts = 0
  /\ lives = 0
  /\ seen = [w \in Watchers |-> Blank]
  /\ everSeen = [w \in Watchers |-> Blank]
  /\ told = 0
  /\ inherited = [w \in Watchers |-> FALSE]

Pump(w) == \/ PollOk(w) \/ Load(w) \/ Persist(w) \/ Emit(w) \/ Fail(w) \/ Wake(w)
           \/ DropWatcher(w) \/ DeliverCancel(w)

Consumer == Start \/ GetEvent \/ GetDone \/ Stop \/ Gathered

Portal == \E w \in Watchers, i \in Items : Publish(w, i) \/ Withdraw(w, i)

Next == \/ \E w \in Watchers : Pump(w)
        \/ Consumer \/ Portal \/ Restart

Spec == Init /\ [][Next]_vars

\* asyncio runs every ready task, timers fire, a reader keeps reading, and a request
\* or a storage call repeated for ever does not fail for ever.  Nothing is assumed of
\* the portal's edits, of Stop, of Start, or of errors.
Fairness ==
  /\ \A w \in Watchers :
       /\ WF_vars(Wake(w)) /\ WF_vars(Emit(w)) /\ WF_vars(DeliverCancel(w))
       /\ SF_vars(PollOk(w)) /\ SF_vars(Load(w)) /\ SF_vars(Persist(w))
  /\ WF_vars(GetEvent) /\ WF_vars(GetDone) /\ WF_vars(Gathered)

FairSpec == Spec /\ Fairness

(* Properties. *)

\* Every variable has its type.
TypeOK ==
  /\ server \in [Watchers -> Snapshot]
  /\ history \in Seq(Watchers \X Items)
  /\ stored \in [NameSpaces -> Snapshot]
  /\ addr \in [Watchers -> Addrs]
  /\ pc \in [Watchers -> States]
  /\ items \in [Watchers -> Snapshot]
  /\ old \in [Watchers -> Snapshot]
  /\ cancelled \in [Watchers -> BOOLEAN]
  /\ queue \in Seq(Entry)
  /\ active \in Nat
  /\ consumer \in {"off", "run", "closing"}
  /\ starts \in Nat
  /\ lives \in Nat
  /\ seen \in [Watchers -> Snapshot]
  /\ everSeen \in [Watchers -> Snapshot]
  /\ told \in Nat
  /\ inherited \in [Watchers -> BOOLEAN]

\* The iteration ends by itself (the consumer leaves its loop with no pump left to
\* wait for) only when every pump has ended and every event has been handed over:
\* dispatcher.py:62 "stop when all are gone".  Rests on each pump putting exactly one
\* sentinel, behind all its events, into a queue of that iteration.
FinishedIsDrained ==
  consumer = "closing" /\ active = 0 =>
    queue = << >> /\ \A w \in Watchers : pc[w] = "ended"

\* The inductive strengthening of FinishedIsDrained.  While the consumer iterates, the
\* pumps it waits for are those that still run and those whose sentinel is queued; a
\* running pump has put no sentinel, and an ended pump that left anything in the queue
\* left its sentinel behind it.  A cancellation is only pending while the generator is
\* being closed, and for a task that is not done.
Queued(w) == \E n \in 1 .. Len(queue) : queue[n].from = w
HasDone(w) == \E n \in 1 .. Len(queue) : queue[n].from = w /\ IsDone(queue[n])
Awaited == {w \in Watchers : pc[w] # "ended" \/ HasDone(w)}
NothingAfterDone ==
  \A m, n \in 1 .. Len(queue) :
    m < n /\ IsDone(queue[m]) => queue[n].from # queue[m].from

Accounting ==
  /\ consumer = "run" =>
       /\ active = Cardinality(Awaited) /\ active > 0
       /\ NothingAfterDone
       /\ \A w \in Watchers : /\ pc[w] # "ended" => ~HasDone(w)
                              /\ Queued(w) => w \in Awaited
  /\ \A w \in Watchers : cancelled[w] => consumer = "closing" /\ pc[w] # "ended"
  /\ consumer = "off" => \A w \in Watchers : pc[w] = "ended"
  /\ FinishedIsDrained

\* Snapshot-before-event: in the first iteration of a watcher that started with an
\* empty snapshot, whatever version the storage holds has been given to the consumer
\* or waits in the queue, except in the instant between the save and the event.
PersistedIsAnnounced ==
  \A w \in Watchers :
    starts = 1 /\ ~inherited[w] /\ pc[w] \notin {"saved", "ended"}
      /\ ClassOf[w] \in ReportsChanges =>
        \A i \in Items :
          LET v == stored[NS(w)][i]
          IN  v > seen[w][i] => [from |-> w, ver |-> v] \in ToSet(queue)

Feed == INSTANCE ChangeFeed WITH open <- consumer = "run"

\* The layer implements the abstract feed: within one life the consumer is only told
\* of versions that were published for that very item, and per item of ever newer
\* ones, of none twice, whatever is cancelled, restarted, dropped or fails.
ImplementsFeed == Feed!Spec

Attached(w) ==
  consumer = "run" /\ starts = 1 /\ ~inherited[w] /\ pc[w] # "ended"

UpToDate(w) ==
  \A i \in Items :
    server[w][i] # 0 =>
      IF ClassOf[w] \in ReportsChanges THEN seen[w][i] = server[w][i] ELSE seen[w][i] # 0

\* As long as the iteration is neither closed nor the watcher dropped, the consumer
\* catches up with the portal, through any number of failed polls and whatever
\* happens to the other watchers.
CatchesUp == \A w \in Watchers : <>[]Attached(w) => <>[]UpToDate(w)

\* dispatcher.py:65 and :106: closing the generator ends every pump, so that the
\* gather() of the finally returns.
ClosingEnds == consumer = "closing" ~> consumer = "off"

\* reactive.md:94: "subsequent runs emit only genuine changes".  A version given to
\* the consumer is newer than those any run before gave it.
OnlyGenuineChanges ==
  [][\A w \in Watchers, i \in Items :
       seen'[w][i] > seen[w][i] => seen'[w][i] > everSeen[w][i]]_vars

===============================================================================
