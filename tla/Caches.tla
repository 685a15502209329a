--------------------------------- MODULE Caches --------------------------------
(***************************************************************************)
(* One entry of a FileCache, filled by concurrent downloads of an          *)
(* AssetDownloader and left on disk by a process that dies.  Its halves,   *)
(* the data and the timestamp, are written one after the other.  The bytes *)
(* themselves are abstracted to when they were given and stored.           *)
(***************************************************************************)
EXTENDS Integers

CONSTANTS
  Loaders,   \* tasks that download the one URL
  Ttl,       \* ttl_s, where it is not 0
  LastMoment \* bound of time

ASSUME CachesAssumption == Ttl \in Nat \ {0} /\ LastMoment \in Nat

VARIABLES
  ttl,       \* of this cache
  time,      \* the time that passes
  skew,      \* what the wall clock was set back by
  bin,       \* the data file, or NoFile
  stamp,     \* the wall time in the timestamp file, or Missing or Garbled
  loads,     \* loader -> Unused, Asked or when the answer on its way was given
  (* history *)
  served,    \* the last cache hit, or NoFile
  newest,    \* when the newest answer that was put was given
  racing     \* two downloads of the URL were under way at one time

cacheVars == <<ttl, time, skew, bin, stamp, loads, served, newest, racing>>

NoFile == [stored_at |-> -1]
Missing == -2
Garbled == -3
Unused == -1
Asked == -2
Wall == time - skew

\* FileCache.get() finds data that is not too old, as far as it can tell: an entry without
\* a timestamp never is, nor is any with a ttl of 0.
Live ==
  /\ bin # NoFile
  /\ ttl > 0 => stamp = Missing \/ (stamp # Garbled /\ Wall - stamp <= ttl)

-------------------------------------------------------------------------------
CachesInit ==
  /\ ttl \in {0, Ttl} /\ time = 0 /\ skew = 0
  /\ bin = NoFile /\ stamp = Missing /\ loads = [l \in Loaders |-> Unused]
  /\ served = NoFile /\ newest = 0 /\ racing = FALSE

\* download(), up to its request or the hit it returns.  A stale entry is evicted.
Download(l, bypass) ==
  /\ loads[l] = Unused
  /\ IF Live /\ ~bypass
     THEN /\ served' = [stored_at |-> bin.stored_at, age |-> time - bin.stored_at,
                        dated |-> stamp # Missing, behind |-> bin.given_at < newest]
          /\ UNCHANGED <<bin, stamp, loads, racing>>
     ELSE /\ IF bin # NoFile /\ ~bypass THEN bin' = NoFile /\ stamp' = Missing
                                        ELSE UNCHANGED <<bin, stamp>>
          /\ loads' = [loads EXCEPT ![l] = Asked]
          /\ racing' = (racing \/ \E m \in Loaders : loads[m] # Unused)
          /\ UNCHANGED served
  /\ UNCHANGED <<ttl, time, skew, newest>>

\* The portal answers with what it has; the answer takes its time.
Respond(l) ==
  /\ loads[l] = Asked
  /\ loads' = [loads EXCEPT ![l] = time]
  /\ UNCHANGED <<ttl, time, skew, bin, stamp, served, newest, racing>>

Data(l) == [given_at |-> loads[l], stored_at |-> time]
Newer(l) == IF loads[l] > newest THEN loads[l] ELSE newest

\* The answer arrives and is put into the cache.
Put(l) ==
  /\ loads[l] >= 0
  /\ bin' = Data(l) /\ stamp' = Wall /\ newest' = Newer(l)
  /\ loads' = [loads EXCEPT ![l] = Unused]
  /\ UNCHANGED <<ttl, time, skew, served, racing>>

\* The process is gone.
Gone == loads' = [l \in Loaders |-> Unused]

\* Mutant of PutBreaks: the timestamp is written first.
PutBreaksStampFirst(l) ==
  /\ loads[l] >= 0
  /\ \/ stamp' \in {Garbled, Wall} /\ UNCHANGED <<bin, newest>>
     \/ bin' = Data(l) /\ stamp' = Wall /\ newest' = Newer(l)
  /\ Gone \/ loads' = [loads EXCEPT ![l] = Unused]
  /\ UNCHANGED <<ttl, time, skew, served, racing>>

\* put() breaks off in one of its writes: the process dies, or the disk is full and
\* download() raises.  Truncated data counts as the new data, a truncated timestamp is
\* none or long ago.
PutBreaks(l) ==
  /\ loads[l] >= 0
  /\ bin' = Data(l) /\ stamp' \in {stamp, Garbled} /\ newest' = Newer(l)
  /\ Gone \/ loads' = [loads EXCEPT ![l] = Unused]
  /\ UNCHANGED <<ttl, time, skew, served, racing>>

\* An error status, a timeout or a cancellation; nothing is stored.
LoadFails(l) ==
  /\ loads[l] # Unused
  /\ loads' = [loads EXCEPT ![l] = Unused]
  /\ UNCHANGED <<ttl, time, skew, bin, stamp, served, newest, racing>>

\* invalidate() or clear(), which unlink the data first and may break off there.
Drop ==
  /\ bin' = NoFile
  /\ \/ stamp' = Missing /\ UNCHANGED loads
     \/ UNCHANGED stamp /\ Gone
  /\ UNCHANGED <<ttl, time, skew, served, newest, racing>>

Die ==
  /\ Gone
  /\ UNCHANGED <<ttl, time, skew, bin, stamp, served, newest, racing>>

Pass ==
  /\ time < LastMoment /\ time' = time + 1
  /\ UNCHANGED <<ttl, skew, bin, stamp, loads, served, newest, racing>>

\* The wall clock is set back, once.
SetWall ==
  /\ skew = 0 /\ skew' = 1
  /\ UNCHANGED <<ttl, time, bin, stamp, loads, served, newest, racing>>

CachesNext ==
  \/ \E l \in Loaders :
       \/ \E bypass \in BOOLEAN : Download(l, bypass)
       \/ Respond(l) \/ Put(l) \/ PutBreaks(l) \/ LoadFails(l)
  \/ Drop \/ Die \/ Pass \/ SetWall

CachesSpec == CachesInit /\ [][CachesNext]_cacheVars

-------------------------------------------------------------------------------
(* Properties. *)

Blob == [given_at : Nat, stored_at : Nat]

\* Every variable has its type.
CachesTypeOK ==
  /\ ttl \in {0, Ttl} /\ time \in Nat /\ skew \in 0 .. 1 /\ newest \in Nat
  /\ bin \in Blob \cup {NoFile} /\ stamp \in Int /\ loads \in [Loaders -> Int]
  /\ served = NoFile \/ (served.age \in Nat /\ {served.dated, served.behind} \subseteq BOOLEAN)
  /\ racing \in BOOLEAN

\* Neither a crash nor a full disk between the two files makes old data young: what the
\* cache serves was put there no longer than the ttl ago, unless the ttl is 0, the wall
\* clock was set back or the entry is left without a timestamp; and unless downloads of one
\* URL raced, it never falls back behind an answer it has held before.
ServedIsFresh ==
  served # NoFile =>
    /\ ttl > 0 /\ skew = 0 /\ served.dated => served.age <= ttl
    /\ ~racing => ~served.behind

===============================================================================
