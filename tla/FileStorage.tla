------------------------------ MODULE FileStorage ------------------------------
(***************************************************************************)
(* FileStorage: a map kept in one JSON file.  Each operation reads the     *)
(* whole file and, when it changes something, writes the whole file, in    *)
(* worker threads (asyncio.to_thread) and under an asyncio.Lock.           *)
(*                                                                         *)
(* write_text() first truncates the file and then fills it: in between,    *)
(* and after a failure in between, the file is Torn.  Cancelling a task    *)
(* that awaits to_thread() releases the lock but cannot stop the thread:   *)
(* the write goes on as an orphan.  The process may crash at any time; the *)
(* file stays as it is then.  A read that meets an OSError yields {}, as   *)
(* if there were no file, however good the file is.                        *)
(*                                                                         *)
(* An operation is suspended at                                            *)
(*   lock    the lock (a FIFO of waiters, its head the holder)             *)
(*   read    to_thread(_read_sync); "loaded" once the thread is through    *)
(*   write   to_thread(_write_sync), the file not yet opened; "open" once  *)
(*           it is truncated, "stored" once the thread is through          *)
(***************************************************************************)
EXTENDS Naturals, Sequences, SequencesExt

CONSTANTS
  Tasks,       \* the tasks that use the storage
  Keys, Values,
  Nothing,     \* None: no value under a key
  Torn,        \* the file while, or because, it is not written completely
  MaxCalls,    \* bound: operations called
  MaxOrphans,  \* bound: writes that go on without their task
  Misreaders   \* bound: the tasks whose reads of a good file may meet an OSError

ASSUME NothingAssumption == Nothing \notin Values
ASSUME ContentAssumption == Keys # {} /\ Values # {}
ASSUME TornAssumption == Torn \notin [Keys -> Values \cup {Nothing}]
ASSUME StorageBounds == MaxCalls \in Nat /\ MaxOrphans \in Nat /\ Misreaders \subseteq Tasks

VARIABLES
  disk,     \* the content of the file (no file is the empty map), or Torn
  lock,     \* the waiters of the lock, its holder first
  pc, op,   \* where each task is, and its operation
  data,     \* data[t]: the dict the operation works on
  orphans,  \* writes whose task was cancelled
  clash,    \* two of the writes now open were open at the same time
  calls,    \* operations called so far
  \* history variables
  before,   \* the file before it was torn
  blind,    \* blind[t]: the operation's read of a good file met an OSError
  harm,     \* what happened to a write under way: "cancel", "fault"
  written   \* written[k]: the values k may have, judging by the calls that ended

fileVars == <<disk, before>>
taskVars == <<lock, pc, op, data, blind>>
threadVars == <<orphans, clash>>
vars == <<fileVars, taskVars, threadVars, calls, harm, written>>

Dict == [Keys -> Values \cup {Nothing}]
Empty == [k \in Keys |-> Nothing]
Ops == [kind : {"get", "set", "delete"}, key : Keys, val : Values]
Writing(t) == pc[t] \in {"write", "open"}
Opened == {t \in Tasks : pc[t] = "open"}

\* A write that was cancelled, and whether it truncated the file already.
Orphan == [data : Dict, open : BOOLEAN]
OpenOrphans == {i \in DOMAIN orphans : orphans[i].open}

-------------------------------------------------------------------------------
(* The lock. *)

Holds(t) == lock # << >> /\ Head(lock) = t

\* Mutant of Release: an operation that is cancelled while it waits for its
\* thread keeps the lock.
ReleaseNotOnCancel(t) ==
  lock' = IF pc[t] \in {"read", "write"} THEN lock ELSE RemoveFirst(lock, t)

\* The end of `async with self._lock', or of the wait for it.
Release(t) == lock' = RemoveFirst(lock, t)

Call(t) ==
  /\ pc[t] = "idle" /\ calls < MaxCalls
  /\ \E o \in Ops :
       /\ o.kind # "set" => o.val = CHOOSE v \in Values : TRUE
       /\ op' = [op EXCEPT ![t] = o]
  /\ blind' = [blind EXCEPT ![t] = FALSE]
  /\ pc' = [pc EXCEPT ![t] = "lock"]
  /\ lock' = Append(lock, t)
  /\ calls' = calls + 1
  /\ UNCHANGED <<fileVars, data, threadVars, harm, written>>

\* Mutant of Acquire: there is no lock.
AcquireAlways(t) ==
  /\ pc[t] = "lock"
  /\ pc' = [pc EXCEPT ![t] = "read"]
  /\ UNCHANGED <<fileVars, lock, op, data, blind, threadVars, calls, harm, written>>

Acquire(t) ==
  /\ pc[t] = "lock" /\ Holds(t)
  /\ pc' = [pc EXCEPT ![t] = "read"]
  /\ UNCHANGED <<fileVars, lock, op, data, blind, threadVars, calls, harm, written>>

-------------------------------------------------------------------------------
(* Reading. *)

\* _read_sync(): a file that is not valid JSON reads as {}.
Read(t) ==
  /\ pc[t] = "read"
  /\ data' = [data EXCEPT ![t] = IF disk = Torn THEN Empty ELSE disk]
  /\ pc' = [pc EXCEPT ![t] = "loaded"]
  /\ UNCHANGED <<fileVars, lock, op, blind, threadVars, calls, harm, written>>

\* So does a file that cannot be opened or read (an OSError: too many open files, a
\* network drive, a lock of another program), although it is there and is good.
ReadBlind(t) ==
  /\ pc[t] = "read" /\ disk # Torn
  /\ t \in Misreaders
  /\ data' = [data EXCEPT ![t] = Empty]
  /\ blind' = [blind EXCEPT ![t] = TRUE]
  /\ pc' = [pc EXCEPT ![t] = "loaded"]
  /\ UNCHANGED <<fileVars, lock, op, threadVars, calls, harm, written>>

\* What _read_sync() does not catch ends the operation: UnicodeDecodeError, of a file
\* cut inside a character, or the OSError of exists(), before the try.
ReadRaises(t) ==
  /\ pc[t] = "read"
  /\ pc' = [pc EXCEPT ![t] = "idle"]
  /\ Release(t)
  /\ UNCHANGED <<fileVars, op, data, blind, threadVars, calls, harm, written>>

Value(o) == IF o.kind = "set" THEN o.val ELSE Nothing
Writes(o, d) == o.kind = "set" \/ (o.kind = "delete" /\ d[o.key] # Nothing)

\* The dict is there: get() and the delete() of an absent key end here.
Resume(t) ==
  /\ pc[t] = "loaded"
  /\ IF Writes(op[t], data[t])
       THEN /\ data' = [data EXCEPT ![t][op[t].key] = Value(op[t])]
            /\ pc' = [pc EXCEPT ![t] = "write"]
            /\ UNCHANGED <<lock, written>>
       ELSE /\ pc' = [pc EXCEPT ![t] = "idle"]
            /\ Release(t)
            /\ written' = IF op[t].kind = "delete"
                            THEN [written EXCEPT ![op[t].key] = {Nothing}]
                            ELSE written
            /\ UNCHANGED data
  /\ UNCHANGED <<fileVars, op, blind, threadVars, calls, harm>>

-------------------------------------------------------------------------------
(* Writing. *)

Truncate ==
  /\ disk' = Torn
  /\ before' = IF disk = Torn THEN before ELSE disk
  /\ clash' = (clash \/ Opened # {} \/ OpenOrphans # {})

Open(t) ==
  /\ pc[t] = "write"
  /\ Truncate
  /\ pc' = [pc EXCEPT ![t] = "open"]
  /\ UNCHANGED <<lock, op, data, blind, orphans, calls, harm, written>>

ClashGoesOn == clash' = (clash /\ (Opened' # {} \/ \E o \in ToSet(orphans') : o.open))

\* A thread fills the file; two writes that are open at the same time may leave a
\* mixture of both.
Fill(d) ==
  /\ disk' \in IF clash THEN {d, Torn} ELSE {d}
  /\ ClashGoesOn
  /\ UNCHANGED before

\* Mutant of Store: the dict is written as it was read.
StoreUnchanged(t) ==
  /\ pc[t] = "open"
  /\ pc' = [pc EXCEPT ![t] = "stored"]
  /\ UNCHANGED <<lock, op, data, blind, orphans, calls, harm, written>>
  /\ Fill(before)

Store(t) ==
  /\ pc[t] = "open"
  /\ pc' = [pc EXCEPT ![t] = "stored"]
  /\ UNCHANGED <<lock, op, data, blind, orphans, calls, harm, written>>
  /\ Fill(data[t])

Finish(t) ==
  /\ pc[t] = "stored"
  /\ pc' = [pc EXCEPT ![t] = "idle"]
  /\ Release(t)
  /\ written' = [written EXCEPT ![op[t].key] = {Value(op[t])}]
  /\ UNCHANGED <<fileVars, op, data, blind, threadVars, calls, harm>>

\* mkdir(), open() or the write raises OSError: set() or delete() raises it.
WriteFails(t) ==
  /\ Writing(t)
  /\ pc' = [pc EXCEPT ![t] = "idle"]
  /\ Release(t)
  /\ harm' = IF pc[t] = "open" THEN harm \cup {"fault"} ELSE harm
  /\ UNCHANGED <<fileVars, op, data, blind, orphans, calls, written>>
  /\ ClashGoesOn

OrphanOpen(i) ==
  /\ ~orphans[i].open
  /\ Truncate
  /\ orphans' = [orphans EXCEPT ![i].open = TRUE]
  /\ UNCHANGED <<taskVars, calls, harm, written>>

OrphanStore(i) ==
  /\ orphans[i].open
  /\ orphans' = RemoveAt(orphans, i)
  /\ UNCHANGED <<taskVars, calls, harm, written>>
  /\ Fill(orphans[i].data)

-------------------------------------------------------------------------------
(* Cancellation and crash. *)

\* The task is cancelled.  A write still queued for a thread is cancelled with
\* it; one that a thread has taken goes on.
Cancel(t) ==
  /\ pc[t] # "idle"
  /\ pc' = [pc EXCEPT ![t] = "idle"]
  /\ Release(t)
  /\ \/ /\ pc[t] # "open"
        /\ UNCHANGED <<orphans, harm>>
     \/ /\ Writing(t) /\ Len(orphans) < MaxOrphans
        /\ orphans' = Append(orphans, [data |-> data[t], open |-> pc[t] = "open"])
        /\ harm' = harm \cup {"cancel"}
  /\ written' = IF Writing(t) \/ pc[t] = "stored"
                  THEN [written EXCEPT ![op[t].key] = @ \cup {Value(op[t])}]
                  ELSE written
  /\ UNCHANGED <<fileVars, op, data, blind, clash, calls>>

\* The process ends, and another one starts on the same file.
Crash ==
  /\ pc' = [t \in Tasks |-> "idle"]
  /\ lock' = << >>
  /\ orphans' = << >>
  /\ clash' = FALSE
  /\ harm' = IF Opened = {} /\ OpenOrphans = {} THEN harm ELSE harm \cup {"fault"}
  /\ written' = [k \in Keys |-> written[k] \cup
                   {Value(op[t]) : t \in {u \in Tasks : /\ Writing(u) \/ pc[u] = "stored"
                                                       /\ op[u].key = k}}]
  /\ UNCHANGED <<fileVars, op, data, blind, calls>>

Init ==
  /\ disk = Empty /\ before = Empty
  /\ lock = << >>
  /\ pc = [t \in Tasks |-> "idle"]
  /\ op = [t \in Tasks |-> CHOOSE o \in Ops : o.kind = "get"]
  /\ data = [t \in Tasks |-> Empty]
  /\ blind = [t \in Tasks |-> FALSE]
  /\ orphans = << >>
  /\ calls = 0
  /\ clash = FALSE
  /\ harm = {}
  /\ written = [k \in Keys |-> {Nothing}]

Step(t) ==
  \/ Acquire(t) \/ Read(t) \/ ReadBlind(t) \/ ReadRaises(t) \/ Resume(t)
  \/ Open(t) \/ Store(t) \/ Finish(t) \/ WriteFails(t)

Next ==
  \/ \E t \in Tasks : Call(t) \/ Step(t) \/ Cancel(t)
  \/ \E i \in DOMAIN orphans : OrphanOpen(i) \/ OrphanStore(i)
  \/ Crash

Spec == Init /\ [][Next]_vars

\* The event loop resumes a task whose lock or thread is ready, and the threads
\* get to run.
FairSpec == Spec /\ \A t \in Tasks : WF_vars(Step(t))

-------------------------------------------------------------------------------
(* Properties. *)

\* The variables have their types; the tasks in the lock's queue are those whose
\* operation has not ended, and all but its head wait.
TypeOK ==
  /\ disk \in Dict \cup {Torn} /\ before \in Dict
  /\ pc \in [Tasks -> {"idle", "lock", "read", "loaded", "write", "open", "stored"}]
  /\ op \in [Tasks -> Ops]
  /\ data \in [Tasks -> Dict] /\ blind \in [Tasks -> BOOLEAN]
  /\ orphans \in Seq(Orphan) /\ Len(orphans) <= MaxOrphans
  /\ clash \in BOOLEAN
  /\ harm \subseteq {"cancel", "fault"}
  /\ calls \in 0 .. MaxCalls
  /\ written \in [Keys -> SUBSET (Values \cup {Nothing})]
  /\ lock \in Seq(Tasks) /\ IsInjective(lock) /\ ToSet(lock) = {t \in Tasks : pc[t] # "idle"}
  /\ \A t \in Tasks : pc[t] \notin {"idle", "lock"} => Holds(t)

\* What a task's operation is to the other tasks: not begun, called, or in effect, which a
\* read that will write nothing is at once; and what an effective get() returns.
Stage(t) ==
  IF pc[t] = "idle" THEN "idle"
  ELSE IF pc[t] = "stored" \/ (pc[t] = "loaded" /\ ~Writes(op[t], data[t])) THEN "effective"
  ELSE "called"
Result(t) == IF pc[t] = "loaded" /\ op[t].kind = "get" THEN data[t][op[t].key] ELSE Nothing

\* file.py:3-4 and storage/base.py: the file is a map on which concurrent get(), set()
\* and delete() take effect one at a time, also with tasks cancelled while they wait or
\* read, with operations that raise and with restarts between writes, but for two
\* things the code does and the refinement delimits.  An operation whose read met an
\* OSError acts on an empty map: its set() drops every other key (SafeAcrossTasks
\* fails).  And nothing is promised after a write was abandoned half way: cancelled
\* while a thread has it, failed or cut by a crash while the file is open.
Map == INSTANCE KeyValueStore WITH
  kv <- IF disk = Torn THEN before ELSE disk,
  stage <- [t \in Tasks |-> Stage(t)],
  res <- [t \in Tasks |-> Result(t)],
  trusted <- harm = {}
ImplementsMap == Map!Spec

\* The lock is never lost: an operation that waits for it gets it, or ends, however
\* the ones before it end.
LockIsPassedOn == \A t \in Tasks : pc[t] = "lock" ~> pc[t] # "lock"

\* file.py:3 "Thread-safe for single-process use", docs/gotchas.md:75 "safe across
\* async tasks in one process", and file.py:36 of the read, "Returns {} if missing":
\* when no operation is under way, and none raised, each key has a value that the calls
\* on that key account for.
SafeAcrossTasks ==
  (\A t \in Tasks : pc[t] = "idle") /\ orphans = << >> /\ "fault" \notin harm
    => disk # Torn /\ \A k \in Keys : disk[k] \in written[k]
===============================================================================
