----------------------------- MODULE KeyValueStore -----------------------------
(***************************************************************************)
(* What the tasks that use one storage can rely on: get(), set() and       *)
(* delete() take effect on a map one after the other, each of them at one  *)
(* moment between its call and its return.  MemoryStorage is this          *)
(* specification with no time between the three and no blind operation.    *)
(*                                                                         *)
(* An operation may be blind: its read of the map failed and it takes the  *)
(* map to be empty.  A blind get() finds nothing, a blind delete() does    *)
(* nothing, and a blind set() leaves its own key alone in the map.  All    *)
(* others work on the map as it is.                                        *)
(*                                                                         *)
(* The promise ends when a write is abandoned half way (`trusted' becomes  *)
(* FALSE); from then on nothing is said of the map.  A restart with no     *)
(* write under way keeps the map.                                          *)
(***************************************************************************)
EXTENDS Naturals

CONSTANTS Tasks, Keys, Values, Nothing

VARIABLES
  kv,      \* the map; Nothing for an absent key
  stage,   \* stage[t]: "idle", "called" or "effective"
  op,      \* op[t]: the operation under way
  res,     \* res[t]: what an effective get() will return
  blind,   \* blind[t]: the operation could not read the map
  trusted  \* no write was abandoned so far

vars == <<kv, stage, op, res, blind, trusted>>

Ops == [kind : {"get", "set", "delete"}, key : Keys, val : Values]

Init ==
  /\ kv = [k \in Keys |-> Nothing]
  /\ stage = [t \in Tasks |-> "idle"]
  /\ op \in [Tasks -> Ops]
  /\ res = [t \in Tasks |-> Nothing]
  /\ blind = [t \in Tasks |-> FALSE]
  /\ trusted = TRUE

Call(t) ==
  /\ stage[t] = "idle"
  /\ stage' = [stage EXCEPT ![t] = "called"]
  /\ \E o \in Ops : op' = [op EXCEPT ![t] = o]
  /\ blind' = [blind EXCEPT ![t] = FALSE]
  /\ UNCHANGED <<kv, res, trusted>>

\* The read of the map fails, before the operation takes effect or as it does.
Misread(t) ==
  /\ stage[t] = "called"
  /\ blind' = [blind EXCEPT ![t] = TRUE]
  /\ UNCHANGED <<kv, stage, op, res, trusted>>

\* The map an operation works on.
Seen(b) == IF b THEN [k \in Keys |-> Nothing] ELSE kv

\* The map after operation o, which worked on map m.
After(o, m) ==
  CASE o.kind = "get" -> kv
    [] o.kind = "set" -> [m EXCEPT ![o.key] = o.val]
    [] o.kind = "delete" -> IF m[o.key] = Nothing THEN kv ELSE [m EXCEPT ![o.key] = Nothing]

Perform(t) ==
  /\ stage[t] = "called"
  /\ stage' = [stage EXCEPT ![t] = "effective"]
  /\ \E b \in {blind[t], TRUE} :
       /\ blind' = [blind EXCEPT ![t] = b]
       /\ kv' = After(op[t], Seen(b))
       /\ res' = [res EXCEPT ![t] = IF op[t].kind = "get" THEN Seen(b)[op[t].key] ELSE Nothing]
  /\ UNCHANGED <<op, trusted>>

\* The operation returned, or its task was cancelled or met an error before or
\* after the effect.
Return(t) ==
  /\ stage[t] # "idle"
  /\ stage' = [stage EXCEPT ![t] = "idle"]
  /\ res' = [res EXCEPT ![t] = Nothing]
  /\ UNCHANGED <<kv, op, blind, trusted>>

Restart ==
  /\ stage' = [t \in Tasks |-> "idle"]
  /\ res' = [t \in Tasks |-> Nothing]
  /\ UNCHANGED <<kv, op, blind, trusted>>

Abandon == trusted /\ trusted' = FALSE
Adrift == ~trusted /\ ~trusted'

Next ==
  \/ trusted /\ ( \/ \E t \in Tasks : Call(t) \/ Misread(t) \/ Perform(t) \/ Return(t)
                  \/ Restart )
  \/ Abandon
  \/ Adrift

Spec == Init /\ [][Next]_vars
===============================================================================
