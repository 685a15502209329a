------------------------------- MODULE MCReading -------------------------------
(***************************************************************************)
(* The parts a client reads the portal with, for TLC: calls, page          *)
(* iterators, watchers, the bell and the file cache.  They share no state  *)
(* in the code, so that one of them moves while the others rest.           *)
(***************************************************************************)
EXTENDS Protocols, Paging, Watchers, Bell, Caches

\* Where a part may start in several ways, one of them counts as rest.
CallsRest == CallsInit /\ ~allow
CachesRest == CachesInit /\ ttl = 0

ReadingInit == CallsInit /\ PagingInit /\ WatchersInit /\ BellInit /\ CachesInit

ReadingNext ==
  \/ /\ PagingInit /\ WatchersInit /\ BellInit /\ CachesRest
     /\ CallsNext /\ UNCHANGED <<pageVars, watchVars, bellVars, cacheVars>>
  \/ /\ CallsRest /\ WatchersInit /\ BellInit /\ CachesRest
     /\ PagingNext /\ UNCHANGED <<callVars, watchVars, bellVars, cacheVars>>
  \/ /\ CallsRest /\ PagingInit /\ BellInit /\ CachesRest
     /\ WatchersNext /\ UNCHANGED <<callVars, pageVars, bellVars, cacheVars>>
  \/ /\ CallsRest /\ PagingInit /\ WatchersInit /\ CachesRest
     /\ BellNext /\ UNCHANGED <<callVars, pageVars, watchVars, cacheVars>>
  \/ /\ CallsRest /\ PagingInit /\ WatchersInit /\ BellInit
     /\ CachesNext /\ UNCHANGED <<callVars, pageVars, watchVars, bellVars>>

ReadingSpec ==
  ReadingInit /\ [][ReadingNext]_<<callVars, pageVars, watchVars, bellVars, cacheVars>>

\* Every variable of the five parts has its type (client.py:258-637).
ReadingTypeOK == CallsTypeOK /\ PagingTypeOK /\ WatchersTypeOK /\ BellTypeOK /\ CachesTypeOK

===============================================================================
