--------------------------------- MODULE Paging --------------------------------
(***************************************************************************)
(* iter_diary() and iter_schedule(): a PageIterator asks the client for    *)
(* the page of _next, takes the page to follow from it and hands out its   *)
(* items.  Several tasks may draw on one iterator, for nothing prevents    *)
(* it, and the await in __anext__ lets them interleave; a fetch may fail   *)
(* or be cancelled and the task ask again.  Days are numbers, a diary      *)
(* page is the week that contains the day asked for, a schedule page the   *)
(* day; an item of a page is its <<day, index>>.                           *)
(***************************************************************************)
EXTENDS Integers, Sequences, FiniteSets

CONSTANTS
  Tasks,      \* the tasks that draw on the iterator
  WeekLength, \* days of a DiaryWeek's date_window
  LastDay,    \* bound of the calendar
  MaxEntries, \* bound on the entries of a week
  MaxDrawn    \* bound on the items drawn

ASSUME PagingAssumption == /\ WeekLength \in Nat \ {0} /\ LastDay \in Nat
                           /\ MaxEntries \in Nat /\ MaxDrawn \in Nat

VARIABLES
  kind,     \* "diary", "open" (a diary without end), "schedule"; "none" before the call
  start, end,
  entries,  \* how many entries the portal has for the week that begins on a day
  next,     \* _next: the day of the page to fetch, or Done
  buf, pos, \* _buf and _pos
  fetching, \* task -> the day it awaits the page of, or Idle
  stopped,  \* a task got StopAsyncIteration
  (* history *)
  drawn,    \* what the tasks got, in order
  overlap   \* two fetches were under way at one time

pageVars == <<kind, start, end, entries, next, buf, pos, fetching, stopped, drawn, overlap>>

Done == -1
Idle == -1
Days == 0 .. LastDay
Monday(d) == d - (d % WeekLength)
Weeks == {Monday(d) : d \in Days}

\* The page of a day: its first and last day, and its items.
WindowOf(d) == IF kind = "schedule" THEN [first |-> d, last |-> d]
                                    ELSE [first |-> Monday(d), last |-> Monday(d) + WeekLength - 1]
Items(d) == IF kind = "schedule" THEN <<<<d, 1>>>>
            ELSE [n \in 1 .. entries[Monday(d)] |-> <<Monday(d), n>>]

\* Mutant of Advance: the next page is asked for with the last day of this one.
AdvanceSameDay(d) ==
  LET nxt == WindowOf(d).last
  IN  IF kind = "open" THEN IF Items(d) = << >> THEN Done ELSE nxt
      ELSE IF nxt >= end THEN Done ELSE nxt

\* DiaryPages._advance and SchedulePages._advance, on the page of day d.
Advance(d) ==
  LET nxt == WindowOf(d).last + 1
  IN  IF kind = "open" THEN IF Items(d) = << >> THEN Done ELSE nxt
      ELSE IF nxt > end THEN Done ELSE nxt

-------------------------------------------------------------------------------
PagingInit ==
  /\ kind = "none" /\ start = 0 /\ end = 0 /\ entries = [w \in Weeks |-> 0]
  /\ next = Done /\ buf = << >> /\ pos = 0
  /\ fetching = [t \in Tasks |-> Idle] /\ stopped = FALSE
  /\ drawn = << >> /\ overlap = FALSE

\* The client's method returns the iterator of emit(); nothing is fetched yet.  After the
\* last week of the calendar an open diary has no entries.
Iterate(k, a, b, e) ==
  /\ kind = "none"
  /\ k = "open" => e[Monday(LastDay)] = 0
  /\ kind' = k /\ start' = a /\ end' = b /\ entries' = e
  /\ next' = a
  /\ UNCHANGED <<buf, pos, fetching, stopped, drawn, overlap>>

\* __anext__, up to its first await or its return.
Ask(t) ==
  /\ kind # "none" /\ fetching[t] = Idle /\ Len(drawn) < MaxDrawn
  /\ IF pos < Len(buf)
     THEN /\ drawn' = Append(drawn, buf[pos + 1]) /\ pos' = pos + 1
          /\ UNCHANGED <<fetching, stopped, overlap>>
     ELSE /\ IF next = Done
             THEN stopped' = TRUE /\ UNCHANGED <<fetching, overlap>>
             ELSE /\ fetching' = [fetching EXCEPT ![t] = next]
                  /\ overlap' = (overlap \/ \E u \in Tasks : fetching[u] # Idle)
                  /\ UNCHANGED stopped
          /\ UNCHANGED <<drawn, pos>>
  /\ UNCHANGED <<kind, start, end, entries, next, buf>>

\* Mutant of Fetched: _next is taken from where it is now, not from the page that came.
FetchedAhead(t) ==
  /\ fetching[t] # Idle
  /\ LET items == Items(fetching[t])
         after == IF next = Done THEN Done ELSE Advance(next)
     IN  /\ next' = after
         /\ buf' = items
         /\ IF items # << >>
            THEN /\ pos' = 1 /\ drawn' = Append(drawn, items[1])
                 /\ fetching' = [fetching EXCEPT ![t] = Idle] /\ UNCHANGED stopped
            ELSE /\ pos' = 0 /\ fetching' = [fetching EXCEPT ![t] = after]
                 /\ stopped' = (stopped \/ after = Done) /\ UNCHANGED drawn
  /\ UNCHANGED <<kind, start, end, entries, overlap>>

\* The page came: the loop takes its first item, or asks for the next page at once, or
\* stops.
Fetched(t) ==
  /\ fetching[t] # Idle
  /\ LET items == Items(fetching[t])
         after == Advance(fetching[t])
     IN  /\ next' = after
         /\ buf' = items
         /\ IF items # << >>
            THEN /\ pos' = 1 /\ drawn' = Append(drawn, items[1])
                 /\ fetching' = [fetching EXCEPT ![t] = Idle] /\ UNCHANGED stopped
            ELSE /\ pos' = 0 /\ fetching' = [fetching EXCEPT ![t] = after]
                 /\ stopped' = (stopped \/ after = Done) /\ UNCHANGED drawn
  /\ UNCHANGED <<kind, start, end, entries, overlap>>

\* The call raises, or the task is cancelled: __anext__ changed nothing yet.
FetchFails(t) ==
  /\ fetching[t] # Idle
  /\ fetching' = [fetching EXCEPT ![t] = Idle]
  /\ UNCHANGED <<kind, start, end, entries, next, buf, pos, stopped, drawn, overlap>>

PagingNext ==
  \/ \E k \in {"diary", "open", "schedule"}, a, b \in Days, e \in [Weeks -> 0 .. MaxEntries] :
       Iterate(k, a, b, e)
  \/ \E t \in Tasks : Ask(t) \/ Fetched(t) \/ FetchFails(t)

PagingSpec == PagingInit /\ [][PagingNext]_pageVars

-------------------------------------------------------------------------------
(* Properties. *)

PageItem == Nat \X (Nat \ {0})

\* Every variable has its type.
PagingTypeOK ==
  /\ kind \in {"none", "diary", "open", "schedule"}
  /\ start \in Days /\ end \in Days /\ entries \in [Weeks -> Nat]
  /\ next \in Nat \cup {Done} /\ fetching \in [Tasks -> Nat \cup {Idle}]
  /\ buf \in Seq(PageItem) /\ drawn \in Seq(PageItem) /\ pos \in 0 .. Len(buf)
  /\ {stopped, overlap} \subseteq BOOLEAN

\* The items of all pages from the start up to, not including, the page of a day.
Before(d) == UNION {{Items(c)[n] : n \in 1 .. Len(Items(c))} :
                      c \in {c \in Days : WindowOf(start).first <= c /\ WindowOf(c).last < d}}
Drawn == {drawn[n] : n \in 1 .. Len(drawn)}

\* Nothing is skipped: when a page is asked for, every item of the pages before it has been
\* drawn, also when tasks overlap, a late page puts the iterator back, or a fetch is
\* repeated after a failure; and whoever is told that there is no more leaves nothing of
\* the range behind (iterator.py:46).
NothingSkipped ==
  /\ \A t \in Tasks : fetching[t] # Idle => Before(fetching[t]) \subseteq Drawn
  /\ stopped /\ kind # "open" => Before(WindowOf(end).last + 1) \subseteq Drawn

\* As long as fetches do not overlap, what was drawn is what the pages hold, in their order
\* and each item once: days grow, and within a week the entries count up.
InOrderAlone ==
  ~overlap => \A m, n \in 1 .. Len(drawn) :
                m < n => \/ drawn[m][1] < drawn[n][1]
                         \/ drawn[m][1] = drawn[n][1] /\ drawn[m][2] < drawn[n][2]

===============================================================================
