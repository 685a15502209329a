---------------------------------- MODULE Bell ---------------------------------
(***************************************************************************)
(* LessonBell: the bells of one day planned from its lesson slots and rung *)
(* in real time, and what the bell answers about the lesson of the moment. *)
(* The consumer may be slow, a sleep may last longer than asked, and the   *)
(* wall clock may be set while the bell sleeps, which goes by the          *)
(* monotonic clock.  Time is in units of the wall clock on that day.       *)
(***************************************************************************)
EXTENDS Integers, Sequences, TLC, SequencesExt

CONSTANTS
  LastTime,  \* bound of the day
  MaxSlots,  \* bound on the lesson slots of a day
  MaxLead    \* bound on lead

ASSUME BellAssumption == LastTime \in Nat /\ MaxSlots \in Nat /\ MaxLead \in Nat

VARIABLES
  ring,      \* "idle", "check" before the delay is computed, "sleep", "yield" or "over"
  slots,     \* the lesson times of all shifts, in the order of the schedule
  lead,
  plan,      \* what planned() returned to events()
  now,       \* the wall clock
  left,      \* what is left of the sleep
  index,     \* of the planned event at hand
  setBack,   \* history: the clock was set back
  rung,      \* history: the events yielded
  early      \* history: one was yielded before its time

bellVars == <<ring, slots, lead, plan, now, left, index, setBack, rung, early>>

Nothing == 0   \* None: slot numbers and times to a bell are positive
Times == 0 .. LastTime
Slot == {s \in [begin : Times, end : Times] : s.begin < s.end}

-------------------------------------------------------------------------------
(* planned(): four events a slot, sorted by time and then by priority;     *)
(* the sort is stable, so that equal ones stay in the order of the slots.  *)

Phases == <<"starting", "begin", "end", "ended">>
EventAt(n, p) == [slot |-> n, what |-> Phases[p], pri |-> p,
                  when |-> CASE p = 1 -> slots[n].begin - lead
                             [] p = 2 -> slots[n].begin
                             [] OTHER -> slots[n].end]
Entries == {EventAt(n, p) : n \in 1 .. Len(slots), p \in 1 .. 4}

\* Mutant of Planned: the events stay slot by slot, as the schedule lists them.
PlannedBySlot ==
  [n \in 1 .. 4 * Len(slots) |-> EventAt(1 + ((n - 1) \div 4), 1 + ((n - 1) % 4))]

Precedes(d, e) ==
  \/ d.when < e.when
  \/ d.when = e.when /\ (d.pri < e.pri \/ (d.pri = e.pri /\ d.slot < e.slot))
Planned ==
  LET all == Entries
  IN  [r \in 1 .. Cardinality(all) |->
         CHOOSE e \in all : Cardinality({d \in all : d = e \/ Precedes(d, e)}) = r]

-------------------------------------------------------------------------------
(* The questions. *)

\* The first slot in the order of the schedule, both ends inclusive.
CurrentLesson ==
  LET active == {n \in 1 .. Len(slots) : slots[n].begin <= now /\ now <= slots[n].end}
  IN  IF active = {} THEN Nothing ELSE CHOOSE n \in active : \A m \in active : n <= m

\* Mutant of NextLesson: the slots to come are not sorted.
NextLessonUnsorted ==
  LET upcoming == {n \in 1 .. Len(slots) : slots[n].begin > now}
  IN  IF upcoming = {} THEN Nothing ELSE CHOOSE n \in upcoming : \A m \in upcoming : n <= m

\* Of the slots to come the one that begins first, of equal ones the first listed.
NextLesson ==
  LET upcoming == {n \in 1 .. Len(slots) : slots[n].begin > now}
  IN  IF upcoming = {} THEN Nothing
      ELSE CHOOSE n \in upcoming : \A m \in upcoming :
             \/ slots[n].begin < slots[m].begin
             \/ slots[n].begin = slots[m].begin /\ n <= m

TimeToBell ==
  LET all == Planned
      bells == {r \in DOMAIN all : all[r].what \in {"begin", "end"} /\ all[r].when > now}
  IN  IF bells = {} THEN Nothing ELSE all[Min(bells)].when - now

-------------------------------------------------------------------------------
(* events() *)

BellInit ==
  /\ ring = "idle" /\ slots = << >> /\ lead = 0 /\ plan = << >> /\ now = 0 /\ left = 0 /\ index = 1
  /\ setBack = FALSE /\ rung = << >> /\ early = FALSE

\* The consumer makes a bell and asks for its first event; planned() is called once.
BellStart(s, l, t) ==
  /\ ring = "idle"
  /\ slots' = s /\ lead' = l /\ plan' = Planned' /\ now' = t
  /\ ring' = "check"
  /\ UNCHANGED <<left, index, setBack, rung, early>>

\* Mutant of Delay: the sleep is a unit too short.
DelayShort ==
  /\ ring = "check" /\ index <= Len(plan)
  /\ left' = IF plan[index].when > now THEN plan[index].when - now - 1 ELSE 0
  /\ ring' = "sleep"
  /\ UNCHANGED <<slots, lead, plan, now, index, setBack, rung, early>>

\* Mutant of Delay: the delay of an event of the past is not cut off at 0.
DelayUnclamped ==
  /\ ring = "check" /\ index <= Len(plan)
  /\ left' = plan[index].when - now
  /\ ring' = "sleep"
  /\ UNCHANGED <<slots, lead, plan, now, index, setBack, rung, early>>

\* delay = max(0, when - now()); an event of the past does not wait.
Delay ==
  /\ ring = "check" /\ index <= Len(plan)
  /\ left' = IF plan[index].when > now THEN plan[index].when - now ELSE 0
  /\ ring' = "sleep"
  /\ UNCHANGED <<slots, lead, plan, now, index, setBack, rung, early>>

Yield ==
  /\ ring = "sleep" /\ left = 0
  /\ rung' = Append(rung, plan[index])
  /\ early' = (early \/ now < plan[index].when)
  /\ ring' = "yield"
  /\ UNCHANGED <<slots, lead, plan, now, left, index, setBack>>

\* The consumer asks for the next event.
AskNext ==
  /\ ring = "yield"
  /\ index' = index + 1 /\ ring' = "check"
  /\ UNCHANGED <<slots, lead, plan, now, left, setBack, rung, early>>

Exhausted ==
  /\ ring = "check" /\ index > Len(plan)
  /\ ring' = "over"
  /\ UNCHANGED <<slots, lead, plan, now, left, index, setBack, rung, early>>

\* Time passes wherever the bell is, also behind the end of its sleep.
Tick ==
  /\ ring \notin {"idle", "over"} /\ now < LastTime
  /\ now' = now + 1
  /\ left' = IF left > 0 THEN left - 1 ELSE 0
  /\ UNCHANGED <<ring, slots, lead, plan, index, setBack, rung, early>>

\* The wall clock is set, once.
SetClock(t) ==
  /\ ring = "sleep" /\ ~setBack /\ t < now
  /\ now' = t /\ setBack' = TRUE
  /\ UNCHANGED <<ring, slots, lead, plan, left, index, rung, early>>

BellNext ==
  \/ \E s \in BoundedSeq(Slot, MaxSlots), l \in 0 .. MaxLead, t \in Times : BellStart(s, l, t)
  \/ Delay \/ Yield \/ AskNext \/ Exhausted \/ Tick
  \/ \E t \in Times : SetClock(t)

BellSpec == BellInit /\ [][BellNext]_bellVars

-------------------------------------------------------------------------------
(* Properties. *)

BellEvent == [slot : Nat, what : {"starting", "begin", "end", "ended"}, pri : 1 .. 4,
              when : Int]

\* Every variable has its type.
BellTypeOK ==
  /\ ring \in {"idle", "check", "sleep", "yield", "over"}
  /\ slots \in Seq(Slot) /\ lead \in Nat /\ now \in Times /\ left \in Nat
  /\ index \in Nat \ {0} /\ setBack \in BOOLEAN
  /\ plan \in Seq(BellEvent) /\ rung \in Seq(BellEvent) /\ early \in BOOLEAN

\* However late the bell started and however its consumer dawdles, no event is left out,
\* rung twice, before one of an earlier time or, unless the clock was set back, before its
\* own; and a lesson is announced, begun and ended in this order.
BellsInOrder ==
  /\ \A m, n \in 1 .. Len(rung) : m < n =>
       /\ rung[m].when <= rung[n].when
       /\ rung[m].slot = rung[n].slot => rung[m].pri < rung[n].pri
  /\ ~setBack => ~early
  /\ ring = "over" => Entries \subseteq ToSet(rung)

\* The three answers, each computed in its own way, fit together and the bells to come: no
\* bell rings within TimeToBell, one does at its end; the next lesson is the first to begin,
\* and neither it nor the end of the current one is nearer than the next bell; and there is
\* neither a current nor a next lesson only when every lesson is over.
QueriesAgree ==
  LET bells == {e.when : e \in {f \in Entries : f.what \in {"begin", "end"}}}
      wait == TimeToBell
  IN  /\ wait = Nothing <=> \A b \in bells : b <= now
      /\ wait # Nothing =>
           /\ now + wait \in bells
           /\ \A b \in bells : b > now => b >= now + wait
      /\ NextLesson # Nothing =>
           \A n \in 1 .. Len(slots) : slots[n].begin > now =>
             slots[NextLesson].begin <= slots[n].begin
      /\ CurrentLesson = Nothing /\ NextLesson = Nothing <=>
           \A n \in 1 .. Len(slots) : slots[n].end < now

===============================================================================
