------------------------------ MODULE ChangeFeed ------------------------------
(***************************************************************************)
(* What the reactive layer promises to a consumer, without polling, tasks, *)
(* snapshots or queues.  A portal publishes numbered versions of items;    *)
(* while the feed is open the consumer may be told of a version that was   *)
(* really published for that item and that is newer than every version of  *)
(* the item it was told of before.  A consumer that starts a new life      *)
(* remembers nothing.  WatchFeed implements this specification.            *)
(***************************************************************************)
EXTENDS Naturals, Sequences

CONSTANTS Watchers,   \* the subscriptions, one portal list each
          Items       \* the item keys of a list

VARIABLES history,    \* history[v] is the pair <<watcher, item>> version v belongs to
          seen,       \* seen[w][i] is the newest version the consumer was told of, 0 if none
          told,       \* how often it was told anything
          open        \* whether the consumer is inside the iteration

vars == <<history, seen, told, open>>

Nothing == [w \in Watchers |-> [i \in Items |-> 0]]

Init == /\ history = << >>
        /\ seen = Nothing
        /\ told = 0
        /\ open = FALSE

Publish(w, i) == /\ history' = Append(history, <<w, i>>)
                 /\ UNCHANGED <<seen, told, open>>

Open == /\ ~open
        /\ open' = TRUE
        /\ UNCHANGED <<history, seen, told>>

\* The consumer hears of version v, which is newer than what it knew of the item.
Tell(v) == /\ open
           /\ LET w == history[v][1]
                  i == history[v][2]
              IN  /\ v > seen[w][i]
                  /\ seen' = [seen EXCEPT ![w][i] = v]
           /\ told' = told + 1
           /\ UNCHANGED <<history, open>>

Close == /\ open
         /\ open' = FALSE
         /\ UNCHANGED <<history, seen, told>>

\* The process ends and another one begins.
NewLife == /\ seen' = Nothing
           /\ told' = 0
           /\ open' = FALSE
           /\ UNCHANGED history

Next == \/ \E w \in Watchers, i \in Items : Publish(w, i)
        \/ Open \/ Close \/ NewLife
        \/ \E v \in 1 .. Len(history) : Tell(v)

Spec == Init /\ [][Next]_vars
===============================================================================
