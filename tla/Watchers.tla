-------------------------------- MODULE Watchers -------------------------------
(***************************************************************************)
(* The five watchers over the loop of Watcher.deltas(): what each polls,   *)
(* by which key it tells its items apart, the caches that poll() fills and *)
(* to_events() reads, and the event each change becomes.  The loop, its    *)
(* storage and the dispatcher on their own are in WatchFeed.               *)
(*                                                                         *)
(* An item is [id, a, b, c]: of a mark the subject, period and date, the   *)
(* mark, its weight; of a diary entry date and subject, the homework, the  *)
(* rest; of a lesson its GUID, subject, teacher and classroom; of a slot   *)
(* or a notification its GUID and content.                                 *)
(***************************************************************************)
EXTENDS Naturals, Sequences, SequencesExt, Orders

CONSTANTS
  Ids,       \* identities of items
  Values,    \* contents of a field
  Absent,    \* the value None
  MaxItems   \* bound on the length of a list

ASSUME WatchersAssumption == Absent \in Values /\ MaxItems \in Nat

VARIABLES
  watcher,   \* "mark", "homework", "schedule", "reception" or "notification"; "none"
  at,        \* "none", "poll", "compute", "announce", "backoff" or "sleep"
  items,     \* what poll() returned, until the differ has it
  snapshot,  \* key -> item, of which the differ has stored the hash
  todo,      \* the delta, in the order to_events() goes through it
  cache,     \* _cache: key -> item
  pending,   \* _pending_cache
  (* history *)
  old,       \* the snapshot that the delta was taken against
  listed,    \* the items of the list that the snapshot was taken of
  earlier,   \* those of the list before, while the delta between the two is told
  told,      \* the events of this delta, while it is told
  cut        \* a delta was left in the middle

watchVars == <<watcher, at, items, snapshot, todo, cache, pending, old, listed, earlier,
               told, cut>>

Kinds == {"mark", "homework", "schedule", "reception", "notification"}
Item == [id : Ids, a : Values, b : Values, c : Values]

\* The lists that can differ to a watcher: only the fields it looks at vary.
Lists(w) ==
  BoundedSeq({i \in Item : /\ w # "schedule" => i.c = Absent
                           /\ w \in {"reception", "notification"} => i.b = Absent},
             MaxItems)
NoItems == [k \in {} |-> Absent]

\* A mark's key holds the mark itself.
Key(i) == IF watcher = "mark" THEN <<i.id, i.a>> ELSE <<i.id>>

\* Of items with one key the last stays, in a snapshot as in a cache.
Latest(list, k) == Max({n \in 1 .. Len(list) : Key(list[n]) = k})
ByKey(list) == [k \in {Key(list[n]) : n \in 1 .. Len(list)} |-> list[Latest(list, k)]]

\* StateDiffer.compute(): the items of each class in the order of the list.
Added(list) == Selected(list, {n \in 1 .. Len(list) : Key(list[n]) \notin DOMAIN snapshot})
Changed(list) == Selected(list, {n \in 1 .. Len(list) :
                                   /\ Key(list[n]) \in DOMAIN snapshot
                                   /\ snapshot[Key(list[n])] # list[n]})

\* What poll() returns of a list: of the diary the entries with homework.
Polled(list) == IF watcher = "homework"
                THEN Selected(list, {n \in 1 .. Len(list) : list[n].a # Absent})
                ELSE list

-------------------------------------------------------------------------------
(* Events: what an item of the delta becomes, << >> for nothing. *)

Event(what, i) == <<[what |-> what, item |-> i]>>

Classify(before, after) ==
  IF after.a = Absent /\ before.a # Absent THEN "cancelled"
  ELSE IF after.b # before.b /\ before.b # Absent THEN "teacher"
  ELSE IF after.c # before.c /\ before.c # Absent THEN "room"
  ELSE "moved"

EventOf(i) ==
  LET new == Key(i) \notin DOMAIN old
      before == cache[Key(i)]
  IN  CASE watcher = "mark" ->
             Event(IF new \/ Key(i) \notin DOMAIN cache THEN "NewMark" ELSE "MarkChanged", i)
        [] watcher = "homework" -> Event("NewHomework", i)
        [] watcher = "schedule" ->
             Event(IF new THEN "added"
                   ELSE IF Key(i) \in DOMAIN cache THEN Classify(before, i) ELSE "moved", i)
        [] OTHER -> IF new THEN Event("New", i) ELSE << >>

-------------------------------------------------------------------------------
(* The loop. *)

WatchersInit ==
  /\ watcher = "none" /\ at = "none" /\ items = << >> /\ todo = << >> /\ told = << >> /\ cut = FALSE
  /\ snapshot = NoItems /\ cache = NoItems /\ pending = NoItems /\ old = NoItems
  /\ listed = {} /\ earlier = {}

\* client.watch_...(): a watcher of its own, whose namespace no snapshot has yet.
Watch(w) ==
  /\ watcher = "none"
  /\ watcher' = w /\ at' = "poll"
  /\ UNCHANGED <<items, snapshot, todo, cache, pending, old, listed, earlier, told, cut>>

\* Mutant of Poll: the schedule's cache is replaced by the poll, as the one of marks.
PollCommits(list) ==
  /\ at = "poll"
  /\ items' = Polled(list)
  /\ cache' = IF watcher \in {"mark", "schedule"} THEN ByKey(list) ELSE cache
  /\ at' = "compute"
  /\ UNCHANGED <<watcher, snapshot, todo, pending, old, listed, earlier, told, cut>>

\* The portal shows this list; poll() fills its caches before the differ runs.
Poll(list) ==
  /\ at = "poll"
  /\ items' = Polled(list)
  /\ cache' = IF watcher = "mark" THEN ByKey(list) ELSE cache
  /\ pending' = IF watcher = "schedule" THEN ByKey(list) ELSE pending
  /\ at' = "compute"
  /\ UNCHANGED <<watcher, snapshot, todo, old, listed, earlier, told, cut>>

\* The new snapshot is stored before the delta is yielded; an empty delta is not.
Compute ==
  /\ at = "compute"
  /\ old' = snapshot /\ snapshot' = ByKey(items) /\ items' = << >>
  /\ earlier' = listed /\ listed' = ToSet(items)
  /\ todo' = Added(items) \o Changed(items)
  /\ at' = IF todo' = << >> THEN "sleep" ELSE "announce"
  /\ UNCHANGED <<watcher, cache, pending, told, cut>>

\* to_events() goes on with the next item of the delta, when the consumer asks.
Announce ==
  /\ at = "announce" /\ todo # << >>
  /\ told' = told \o EventOf(Head(todo))
  /\ todo' = Tail(todo)
  /\ UNCHANGED <<watcher, at, items, snapshot, cache, pending, old, listed, earlier, cut>>

\* The generator is exhausted: the schedule's cache is committed.
Announced ==
  /\ at = "announce" /\ todo = << >>
  /\ cache' = IF watcher = "schedule" THEN pending ELSE cache
  /\ at' = "sleep" /\ old' = NoItems /\ earlier' = {} /\ told' = << >>
  /\ UNCHANGED <<watcher, items, snapshot, todo, pending, listed, cut>>

\* The poll fails, or the storage does, before the snapshot is stored.
Fails ==
  /\ at \in {"poll", "compute"}
  /\ at' = "backoff" /\ items' = << >>
  /\ UNCHANGED <<watcher, snapshot, todo, cache, pending, old, listed, earlier, told, cut>>

\* The interval or the backoff is over.
Wake ==
  /\ at \in {"sleep", "backoff"}
  /\ at' = "poll"
  /\ UNCHANGED <<watcher, items, snapshot, todo, cache, pending, old, listed, earlier, told, cut>>

\* The generator is cancelled, or closed by its consumer at an event, and events() called
\* again on the watcher: what was to be told or committed is not.
Restart ==
  /\ at # "none"
  /\ at' = "poll" /\ items' = << >> /\ todo' = << >>
  /\ cut' = (cut \/ at = "announce")
  /\ old' = NoItems /\ earlier' = {} /\ told' = << >>
  /\ UNCHANGED <<watcher, snapshot, cache, pending, listed>>

WatchersNext ==
  \/ \E w \in Kinds : Watch(w)
  \/ \E list \in Lists(watcher) : Poll(list)
  \/ Compute \/ Announce \/ Announced \/ Fails \/ Wake \/ Restart

WatchersSpec == WatchersInit /\ [][WatchersNext]_watchVars

-------------------------------------------------------------------------------
(* Properties. *)

\* Every variable has its type.
WatchersTypeOK ==
  /\ watcher \in Kinds \cup {"none"}
  /\ at \in {"none", "poll", "compute", "announce", "backoff", "sleep"}
  /\ items \in Seq(Item) /\ todo \in Seq(Item) /\ cut \in BOOLEAN
  /\ \A f \in {snapshot, cache, pending, old} : \A k \in DOMAIN f : f[k] \in Item
  /\ listed \subseteq Item /\ earlier \subseteq Item
  /\ told \in Seq([what : {"NewMark", "MarkChanged", "NewHomework", "added", "cancelled",
                           "teacher", "room", "moved", "New"}, item : Item])

\* Event e tells what has happened to its item since the list before: there was none
\* with its key; or there was one, unlike it, and the event names how they differ.
Tells(e) ==
  LET were == {i \in earlier : Key(i) = Key(e.item)}
  IN  \/ /\ were = {}
         /\ e.what \in {"NewMark", "NewHomework", "added", "New"}
      \/ \E was \in were :
           /\ was # e.item
           /\ e.what \in {"MarkChanged", "NewHomework", "cancelled", "teacher", "room",
                          "moved"}
           /\ e.what = "cancelled" <=> watcher = "schedule" /\ was.a # Absent
                                         /\ e.item.a = Absent
           /\ e.what = "teacher" => was.b # e.item.b
           /\ e.what = "room" => was.c # e.item.c

\* Item i has been told or waits to be; a slot or a notification that was there before
\* is not told (watchers.py:269, :301).
ToldOrTodo(i) ==
  \/ i \in ToSet(todo)
  \/ \E n \in 1 .. Len(told) : told[n].item = i
  \/ watcher \in {"reception", "notification"} /\ \E was \in earlier : Key(was) = Key(i)

\* Between one list and the next nothing is told wrongly and nothing goes untold, although
\* the watcher remembers the list before only by a hash per key, and in a cache of its own
\* that failed polls, empty deltas and vanished items leave behind: a lesson is cancelled
\* exactly when its subject went, a teacher or room event names what differs, a slot or a
\* notification is new exactly when no such was there (watchers.py:179), and an item not
\* in the list before gets an event.  Only a watcher whose consumer left a delta in the
\* middle and then went on loses the thread.
\* Where two items of one list share a key, the change told may be that from the other:
\* an item that was there, unchanged, is told too, at every poll (OnlyChangesAreTold).
EventsTellTheChange ==
  /\ ~cut => \A n \in 1 .. Len(told) : Tells(told[n])
  /\ at = "announce" => \A i \in listed \ earlier : ToldOrTodo(i)

\* docs/reactive.md:4-5 "diffs the result against a stored snapshot, and emits one event
\* per change", watchers.py:112-113 "a diary entry with homework text appeared that was
\* not seen before": no event for what was in the list before as it is now.
OnlyChangesAreTold == ~cut => \A n \in 1 .. Len(told) : told[n].item \notin earlier
===============================================================================
