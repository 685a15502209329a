# A TLA+ model of pskovedu-sdk

`pskovedu` is an asyncio client library for a school portal: typed method objects are sent
through one request funnel, an authentication layer keeps a cookie and a JWT alive, and a
reactive layer turns polled lists into a stream of events. Everything runs on one event
loop, so tasks interleave exactly at the `await`s; the only real threads are those of
`asyncio.to_thread` in `FileStorage`. This directory holds TLA+ models of the parts whose
correctness depends on such interleavings, on failures and on time, the TLC runs that check
them on small instances, and TLAPS proofs of the invariants and of both refinements
for every instance. Paths below are relative to `src/pskovedu/`.

## 1. The system

| component | state it keeps | operations | what is hard about it | what makes it correct |
|---|---|---|---|---|
| reactive layer (`reactive/_base.py`, `diff.py`, `dispatcher.py`, `watchers.py`) | per watcher a snapshot in a storage; a queue, a count of live pumps and the pump tasks per iteration | `Watcher.deltas/events`, `StateDiffer.compute`, `Dispatcher.events` | one task per watcher, cancellation at any await, failing polls, save before announce, restart on a persisted snapshot | no event lost in the queue, no early end, only genuine and ever newer versions told, catching up, closing ends |
| request funnel (`client.py`, `sessions/base.py`, `httpx_session.py`, `transport/retry.py`) | cookies of the client, the session file, per call an attempt counter and a prepared request | enter/exit/save, `make_request`, `_send_with_retry`, retry policy | lost responses, retries, cancellation, a transport closed under a call, stale cookies | a write executed at most once, guarded writes never, reads retried as configured, every call returns |
| rate limiter (`rate_limit/token_bucket.py`) | a token bucket per host, rate overrides | `acquire`, `set_rate`, `disable` | many sleepers on one bucket, buckets replaced under sleepers | the rate is kept, or exceeded by a known amount |
| circuit breaker (`breaker/breaker.py`) | a circuit per registered host and path prefix | `enroll`, `before_call`, `on_success`, `on_failure`, `reset` | reports that arrive late, in any order or never; lookup by prefix that changes under a call | state agrees with the failures counted, no circuit stuck |
| storage (`storage/base.py`, `memory.py`, `file.py`) | a map; a JSON file and a lock | `get`, `set`, `delete` | read-modify-write of a whole file in threads that cannot be cancelled; crashes | linearizable map, lock never lost |
| auth manager (`auth/manager.py`, `store.py`, `session_token.py`, `cookies.py`) | state, cookie jar, token; the same in a store | `ensure`, `_obtain_jwt`, `_try_restore`, logins | concurrent refreshes, restore racing login | a request carries the newest login, a restart finds the session |
| QR login, SSE (`auth/solvers/qr.py`, `transport/sse.py`, `protocol/sse.py`) | the parser's event so far, an error count, the open response | `login_with_qr`, `solve`, `_stream_until_confirmed`, `SseStream` | a stream of any lines, cut anywhere; timeout and cancellation racing the exchange of a one-time code; generators left suspended | the parser yields the stream's events, the outcome follows from them, a code is spent once, the response is closed |
| ESIA replay (`auth/esia.py`) | the position in a chain of requests | `replay_oauth`, `login_with_esia` | redirects of any length, captchas, failures at every step | the password goes out once, the cookie is found wherever it is set, requests are bounded |
| watchers (`reactive/watchers.py`) | per watcher a cache of the last items beside the differ's snapshot | `poll`, `key_fn`, `to_events` of five classes | cache and snapshot are written at different moments; repeated keys | an event says what changed |
| bell (`reactive/bell.py`) | position in the day's plan | `planned`, `events`, three questions | wall clock against monotonic sleep, slow consumers, equal times | every bell once, in order, in time; answers that agree |
| page iterators (`pagination/`, `methods/diary.py`, `schedule.py`) | buffer, position, next method | `__anext__`, `_advance` | several tasks on one iterator, failing fetches | nothing skipped; alone, nothing twice |
| assets and caches (`assets/`, `cache/`) | two files per entry | `get`, `put`, `download`, `invalidate`, `clear` | a crash between the files, concurrent downloads | no data under too young a timestamp |
| protocols and methods (`protocol/`, `methods/`) | none | `build_request`, `decode_response`, `is_idempotent`, `emit` | four declarations decide where a field goes; failures with status 200; which calls are retried | a field sent once, a change made once, a value is an answer |
| models, parsers, `sync.py` | none | helpers on data, parsing of HTML | text processing | - |

How they interact: a method call `await client(M(...))` runs `BaseSession.make_request`,
which asks the auth manager (if one is attached) to put credentials into `client._cookies`,
builds the request, waits for the limiter and asks the breaker (if user code attached them),
and sends it with retries. A watcher's `poll()` is such a call; its differ calls `get` and
`set` of a storage, which may be the same `FileStorage` as the client's session file. The
auth manager's token store is a storage too. Inside a call the method object's protocol
builds the request and decodes the answer; a page iterator and a watcher are callers like any
other. `login_with_qr` is two such calls around a stream that bypasses the funnel, then
`login_with_cookies` of the auth manager; `login_with_esia` drives an httpx client of its own.

## 2. The modules

```
ChangeFeed  <-- implemented by --  WatchFeed        MCWatchFeed        WatchFeed_proofs
KeyValueStore <-- implemented by -- FileStorage                        FileStorage_proofs
                                   RequestFunnel                       RequestFunnel_proofs
                                   HostRateLimiter  MCHostRateLimiter  HostRateLimiter_proofs
                                   CircuitBreaker   MCCircuitBreaker   CircuitBreaker_proofs
                                   AuthManager      MCAuthManager      AuthManager_proofs
                        Orders --> QrLogin    \    MCLogin            Login_proofs
                                   EsiaReplay /
                                   Protocols  \
                                   Paging      |
                        Orders --> Watchers    |    MCReading          Reading_proofs
                                   Bell        |
                                   Caches     /
```

`MCLogin` and `MCReading` check several modules in one run. Their parts share no state in the
code (two ways to log in, of which a client takes one; five ways to read the portal), so the
composition is a sum and not a product: one part moves while the others are in their initial
states; `PartsApart` and `LoginsApart` prove that each part then behaves as its own
specification says. `Orders` has what a list filter does, by counting positions instead of by
recursion, so that it can be reasoned about.

A step of a model is what the code does between two suspension points. Cancellation is
delivered where the code awaits. Definitions whose comment begins with "Mutant of" are
faulty variants of the definition below them; they are not part of the specification and
document which bug each property would catch.

### WatchFeed (reactive layer) and ChangeFeed

`pc[w]` is where the pump of watcher `w` is suspended: `new` (task created), `poll`, `load`
(`storage.get`), `save`/`saved` (before and after the effect of `storage.set`), `sleep`,
`backoff`, `ended`. `PollOk`, `Load`, `Persist`, `Emit`, `Fail`, `Wake` are one turn of the
loop of `deltas()` cut at those points; `DropWatcher` is an exception of `to_events()`, which
`_pump` logs; `DeliverCancel` is `CancelledError` at the current await. `Start`, `GetEvent`,
`GetDone`, `Stop`, `Gathered` are the body of `Dispatcher.events()`. `queue` holds events and
one sentinel per finished pump; a task that is cancelled before it was entered puts none.
`Restart` is a new process: only `stored`, the snapshots in the storage, survives, and each
watcher object has some address, since its snapshot is named
`<class>:<id(self)>` (operator `NS`).

An item's content is a version number, drawn from one counter for the whole portal, so that
equal versions mean equal hashes. The delays of the back-off are not modelled, only that they
end. A poll's list has one entry per key (Watchers has repeated ones). `seen`, `everSeen`, `told`,
`inherited`, `history` are history variables that no guard of the code's actions reads.

`ChangeFeed` is what the layer promises: while the feed is open, the consumer may be told of
a version that was published for that very item and that is newer than what it was told of
before. `WatchFeed!ImplementsFeed` maps `open` to the consumer being inside the loop.

### RequestFunnel

`life` is the life of a `Client` on a session file, `pc[c]` where call `c` is suspended
(`paced` in the limiter, `wire` in `httpx`, `backoff` in the retry policy). `Call` is
everything up to the first await: the guard of the journal methods' `emit()`, `_prepare()`
and the limiter; `Settle` is the body of the retry loop after `_send()`; `Resend` the return
of `policy.wait()`. `Answer` and `Break` are the portal and the network: a request may take
effect and its response be lost, a 5xx or 429 says nothing about the effect, any other 4xx
means none. A broken connection is an `httpx` exception, which is what the default
`HttpxSession` lets through, or one of the classes the retry policy knows (`OSError` stands
for them), which a session of one's own may raise: the difference decides whether the call is
retried. `retried` is a history of what was followed by another attempt. `Exit` saves and closes (calls in flight then fail); `ExitUnsaved` is an exit
whose `save()` raises. `options` says what user code attached to the client; with a breaker
attached every call ends in `AttributeError`, because the funnel calls a method the breaker
does not have.

### HostRateLimiter

Time is counted in ticks and a rate is given as ticks per token (`cost`), which makes the
code's floating-point bucket exact: a bucket earns one unit a tick, `cost` units are a token,
the capacity `max(1.0, rps)` tokens is `Larger(cost, Second)` units, and the wait that
`consume()` asks for is `cost - tokens` ticks. Buckets are numbered objects, since a sleeper
keeps the object it met when `set_rate()` or `disable()` drop it. `Wake` may come late.

### CircuitBreaker

Keys stand for registered (host, path prefix) pairs, targets for (host, path) of requests;
the constants `Exact`, `Covers`, `DefaultKey` say how they match, and `KeyFor` does the
lookup of `_key_for` in the order of enrolment. Times are kept as ticks since the last
failure and the last probe, cut at `Recovery`; the failure count is cut at `Threshold`. The
code compares them with nothing else.

### FileStorage and KeyValueStore

`lock` is the FIFO of an `asyncio.Lock`, `pc[t]` where the operation of task `t` is; a write
truncates (`Open`) before it fills (`Store`), and in between the file is `Torn`. A task that
is cancelled while a thread writes releases the lock and leaves the write behind as an
*orphan*. A torn file reads as `{}` (`Read`), a good one too if reading it meets an
`OSError` (`ReadBlind`); what is raised outside the `try`, or is not in its `except`, ends the
operation (`ReadRaises`). `Crash` keeps the file as it is.

`KeyValueStore` is a linearizable map with two limits. An operation may be *blind*: it takes
the map to be empty, so that a blind `set` leaves its own key alone in the map; these are
exactly the operations whose read met an `OSError` (the history variable `blind` is the same
in both). And the promise ends (`trusted = FALSE`) once a write was abandoned half way.
`FileStorage!Map` is the mapping. So the refinement does not say that the code is safe where
these things happen: it says what they do, and that nothing else goes wrong.
`MemoryStorage` has no await inside its operations, hence is `KeyValueStore` itself.

### AuthManager

`pc[t]` is where a request or a login is suspended: `load`/`loaded` (`store.load()` in
`_try_restore`, before and after it took effect), `get`/`got` (`GET /session` in
`_obtain_jwt`, before and after the portal's answer), `save`/`saved` (`store.save()`), `wire`
(`ensure()` returned, the request is under way with the cookie of that moment). `Ensure`,
`Restore`, `Login`, `Obtained`, `ObtainFails`, `SaveReturns` are the code between those
points; `Pass` is the part of `ensure()` behind `_try_restore()`, `AfterObtained` and
`AfterFailure` what the callers of `_obtain_jwt()` do with its result. The token store serves
its callers in order (`waiting`), which is what `MemoryStorage` and the lock of `FileStorage`
do; its data are the JSON of the moment of the call (`Given`).

`X1_SSO` cookies are numbered by login, JWTs by issue; `stale` and `expired` mark how far the
refresh skew and the expiry have got. Whether the portal accepts a cookie is left open: any
`GET /session` may fail. `login`, `since`, `overtaken` and `lost` are history variables:
`overtaken` is set when a restore that was waiting for the store replaces credentials that
came into being meanwhile, `lost` when a save fails or is abandoned or the application
deletes the entry. The code reads none of them.

### QrLogin

`pc` is where `login_with_qr` is suspended: `generate` (the call of `GenerateQr`), `display`
(the user's callback), `open` (`open_stream`), `read` (the next line), `close` (`aclose()` in
the parser's `finally`), `confirm`/`confirmed` (`ConfirmQr`, before and after the portal
exchanged the code), `jwt` (`login_with_cookies`), `shell` (`get_shell`). The generator
`_iter_events` and the loop over it are one task, so a line is parsed and its event handled in
one step: `Field`, `NoEvent` and `Dispatch` are the parser's three cases for a line, `Skip`,
`CountError` and `Confirm` what the solver does with an event. A data value is one JSON text,
known by its kind and code; several data lines joined are no JSON. `Interrupt` is
`CancelledError` at the current await, by the timeout (`TimeOut`, from the stream's opening
on) or by the caller (`Cancel`): inside the generator it closes the response first, elsewhere
the generator is `left`, and the event loop's hook closes it (`Finalise`). `wire`, `got` and
`spent` are history.

### EsiaReplay

`at` is the request awaited; a response is what the code looks at (kind of status, location,
captcha, `X1_SSO`). `Redirected`, `AcAnswered`, `LoginAnswered`, `ChainAnswered` are the code
from one response to the next request. `step` is the step number the `EsiaReplayError`
carries. The portals may redirect for ever; only the code's two limits stop them.

### Protocols

One call, from the method object to its value. `Shipped` lists every method class of the SDK
with what its protocol looks at: verb, path fields, overrides of query and body, kind of
result; `Own` is every REST declaration of two fields that can be written. `RestRoute`,
`Route`, `IsIdempotent`, `RestDecode`, `RpcDecode` are the protocols' functions; `Call` is
`emit()` and its guards, `Attempt` one turn of the funnel's retry loop with an answer of any
kind. A result is `lenient` when all fields of its model have defaults. `via` tells
`client(m)` and `m.as_(client)` from `m.emit(client)` and a bare `await m`. `changed` counts
what the portal did and is history.

### Paging

Days are numbers, a diary page is the week around the day asked for, a schedule page the day.
`Ask` is `__anext__` up to its await, `Fetched` what follows it, including the loop over empty
pages; any number of tasks may be in between, since nothing forbids it. `FetchFails` is a
failed or cancelled fetch. `drawn` is what the tasks got.

### Watchers

The loop of `deltas()` again, this time for one watcher with its real `key_fn`, caches and
`to_events()`, over lists in which keys repeat. An item has three fields; which of them a
watcher looks at is in `Lists`, `Key` and `EventOf`. `Poll` fills the mark's cache, or the
schedule's pending one; `Compute` stores the snapshot; `Announce` hands over one item's event
and `Announced` commits the schedule's cache. `listed` and `earlier`, the items of the list
last seen and of the one before, are history: the code keeps one hash per key. `Restart` leaves a delta in the middle, as an
aborted or cancelled iteration does, and goes on with the same object. WatchFeed has the
scheduling, the storage and the dispatcher, this module has the contents.

### Bell

`Planned` is the sorted plan, each entry at the place that the entries before it leave to it;
`plan` is the list that `events()` got from it when it began. `Delay`, `Yield`, `AskNext`, `Exhausted` the loop of
`events()`, `Tick` the passing of time, also over the end of a sleep and while the consumer
holds an event, `SetClock` a wall clock set back once. `CurrentLesson`, `NextLesson` and
`TimeToBell` are the three questions, each translated as it is computed.

### Caches

One entry: `bin`, known by when its content was given by the portal and when stored, and
`stamp`, the text of the timestamp file. `PutBreaks` is a `put()` that ends within its second
write, by a crash or a full disk; `Drop` is `invalidate()`, which may end between its two
unlinks. Only one entry is modelled because keys are hashes of the whole URL and entries share
nothing.

## 3. The runs

`tlc -config <cfg> <module>`. Runs marked *violation* check one sentence of the repository's
own documentation that the code does not keep; section 6 says what each counterexample is.

| run | configuration | what it shows |
|---|---|---|
| watch_feed | `MCWatchFeed.cfg` | `FinishedIsDrained`: the iteration ends by itself only when every pump has ended and every event was handed over. `Accounting`: its inductive strengthening. `PersistedIsAnnounced`: what the storage holds the consumer was told, or will find in the queue, except between save and event. `ImplementsFeed`: refinement of `ChangeFeed` |
| watch_feed_live | `MCWatchFeedLive.cfg` | `CatchesUp`: an attached watcher's consumer ends up with the portal's newest versions. `ClosingEnds`: the `gather()` of the `finally` returns |
| watch_feed_restart | `MCWatchFeedRestart.cfg` | *violation* of `OnlyGenuineChanges` |
| request_funnel | `RequestFunnel.cfg` | `EffectsBounded`: a write is executed at most once, a guarded write without permission never, a read at most once per attempt. `GivesUpLast`: a call goes out again only if its method is idempotent and only after a failure that the policy knows, and none of the configured retries is then given away; the network failures of the default session are not among those (section 6, 16). `EveryCallReturns`. 549,110 states |
| request_funnel_relogin | `RequestFunnelRelogin.cfg` | *violation* of `FreshCookieIsSent` |
| rate_limiter | `MCHostRateLimiter.cfg` | `OverrunBounded`: a bucket lets through no more than it earned, plus one for each caller that found another one asleep. `Balance`: why |
| file_storage | `FileStorage.cfg` | `ImplementsMap`: linearizable until a write is abandoned, with blind operations where a read of a good file fails. `LockIsPassedOn`: no waiter waits for ever |
| breaker | `MCCircuitBreaker.cfg` | `ClosedIffBelowThreshold`: the state agrees with the failures counted. `NeverStuck`: no open or half-open circuit stays so |
| auth_manager | `MCAuthManager.cfg` | `RequestCarriesLogin`: a request begun after a login carries its cookie or a newer one, unless a restore overtook a login. `RestartFindsSession`: in a session the store holds, or is about to hold, the manager's own token and cookie |
| login | `MCLogin.cfg` | `EventsAreBlocks`: fed line by line, the parser has at every moment yielded the events of the blocks read so far, against a reference that cuts the whole stream. `OutcomeIsJustified`: going on, giving up and exchanging follow from the events. `CodeIsSpentOnce`, `PasswordOnce`: a secret goes out once, and the outcome says whether. `CookieIsFound`: logged in exactly when a response set the cookie. `LoginEndsClosed`: the login ends, and the response is closed in the end. 546,357 states |
| reading | `MCReading.cfg` | `SentOnce`, `ChangesOnce`, `ValueIsAnswer`: routing, retrying and decoding of calls. `NothingSkipped`, `InOrderAlone`: completeness of page iterators, also with several tasks, and their order without. `EventsTellTheChange`: each event names a difference to the list before, and no new item goes untold; that nothing else is told holds without repeated keys only (section 6, 18). `BellsInOrder`, `QueriesAgree`: the bell. `ServedIsFresh`: the cache. 852,655 states |
| calls_x1 | `CallsX1.cfg` | *violation* of `X1CallsAreSent` |

Six more configurations state sentences of the docs that the code does not keep and are kept
for whoever mends the code: `MCHostRateLimiterCap.cfg` (`RateCap`), `FileStorageCancel.cfg` and
`FileStorageMisread.cfg` (`SafeAcrossTasks`, with cancelled writes and with failing reads),
`MCCircuitBreakerProbe.cfg` (`OneProbe`), `RequestFunnelNetwork.cfg`
(`NetworkFailuresAreRetried`), `WatchersRepeated.cfg` (`OnlyChangesAreTold`, on the module
`Watchers` itself). TLC finds a counterexample to each; section 6 describes them.

### Bounds, and why they are enough

- **WatchFeed**: two watchers, of a subclass that reports changed items and one that does
  not, on one storage; one item each; two published versions (one change of an item, or one
  item on each side); two iterations, so that something of the first could leak into the
  second; one restart, with the addresses the same, swapped or in conflict. The items of a
  list never meet in the code except in the order of a batch, and the queue already mixes
  the events of two watchers. The liveness run has one iteration and no restart, since
  `CatchesUp` speaks of one uninterrupted iteration.
- **RequestFunnel**: one call of each kind that is treated differently (idempotent read,
  guarded write), two retries (so that "not the first, not the last" attempt exists), one
  cookie, two lives of the client for a session file that is written and read back. The
  relogin run needs two cookies and one call.
- **HostRateLimiter**: three tasks (two sleepers and one that overtakes them), one rate below
  one per second and one above (the capacity is the larger of the two), two buckets (the one
  in use and one that a sleeper still holds), two overlapping callers. Hosts share nothing.
- **CircuitBreaker**: threshold and recovery 2, a host's default circuit and an overlapping
  one enrolled before or after it, an unguarded host, two tasks.
- **FileStorage**: two tasks, two keys (so that a lost update of the *other* key shows), one
  value, three operations, one orphaned write; any read of either task may fail
  (`Misreaders`).
- **AuthManager**: two requests (they are treated alike, hence symmetry), so that two
  refreshes, or a restore and a refresh, meet; a task that logs in twice, so that a login
  meets the requests of an earlier one; two JWTs, the first of which can go stale and expire;
  one restart, behind which the store is read. The properties are about pairs of tasks and
  about which of two credentials is the newer.
- **QrLogin**: streams of five lines, enough for two whole events with a type, a data and a
  blank line between them or for an event whose data is split; an error limit of two, so that
  there is an error before the last; one code besides none. What the parser keeps between
  lines is reset by every blank line.
- **EsiaReplay**: the code's own limits (10 and 15 redirects).
- **Protocols**: every shipped method; one retry. A declaration of two fields shows every pair
  that rules of routing can treat differently.
- **Paging**: two tasks, a calendar of five days in weeks of two, at most two entries a week,
  six items drawn: full, empty and partial weeks in every order.
- **Watchers**: one identity and lists of two items, so that keys always collide or differ by
  the mark alone; fields of two values, one of them None; any number of polls.
- **Bell**: two slots of any position on a day of five moments (nested, equal, abutting), lead
  of zero or one.
- **Caches**: two loaders, a ttl of one or none, four moments: before, at and after the expiry.

`MaxEdits`, `MaxTokens`, `MaxStarts`, `MaxRestarts`, `MaxLogins`, `MaxLives`, `MaxTime`, `MaxBuckets`,
`MaxOverlaps`, `MaxCalls`, `MaxOrphans`, `MaxLines`, `LastDay`, `MaxEntries`, `MaxDrawn`, `MaxItems`,
`LastTime`, `MaxSlots`, `MaxLead`, `LastMoment`, `Misreaders` are the only bounds; they stand in the guards of the
actions they bound. Where they or the life of the system make it stop, the configuration
switches the deadlock check off; `CircuitBreaker` never stops and keeps it on.

### Fairness

- **WatchFeed**: weak fairness of what asyncio does by itself (waking timers, delivering a
  cancellation, resuming a reader, `gather`), strong fairness of a poll and of the storage
  calls succeeding, which says that errors are not permanent. The portal, `Start`, `Stop`,
  `DropWatcher` and `Restart` are unfair.
- **RequestFunnel**: weak fairness of the limiter's and the back-off's sleeps, of resuming a
  call and of a request ending somehow: httpx runs with a timeout (`request_timeout_s`).
  Nothing is assumed of what the answer is.
- **CircuitBreaker**: time passes, requests end (reported or cancelled), and the application
  asks again and again for the target, which is what brings a circuit out of the open state:
  the code has no timer. It is strong fairness because `reset()` and late reports may disable
  the probe in between.
- **FileStorage**: a task whose lock or thread is ready goes on.
- **QrLogin**: requests end by their own timeouts, the callback returns, the timer of
  `asyncio.timeout` fires, `aclose()` returns, and asyncio's hook closes a generator that was
  left. Of the stream and the user nothing is assumed: they may be silent for ever.

## 4. The proofs

`tlapm <module>`. They hold for every value of the constants that satisfies the modules'
named assumptions: finite sets of watchers, items, tasks and calls; positive thresholds and
rates; read and write calls, and requests and logins, disjoint; a storage with at least one
key and one value, that can tell a missing value from a stored one. Every invariant that a
passing run checks is a theorem, and so are both refinements.

- **WatchFeed_proofs** (`TypeCorrect`, `AccountingHolds`, `IterationDrains`, `OrderHolds`,
  `FeedIsImplemented`, `NothingPersistedSilently`). `FinishedIsDrained` alone is not
  inductive: that `active` reaches 0 only when all is drained needs that `active` counts the
  pumps that run or have their sentinel in the queue, that a sentinel is the last entry of
  its pump, and that a pump that left something in the queue also left its sentinel. That is
  `Accounting`. The lemmas say what joining the queue (`JoinQueue`, `JoinOrder`) and leaving
  it (`LeaveQueue`) do to these facts; `PumpGoesOn` and `PumpEnds` reduce the eight actions
  of a pump to two shapes.
  The refinement needs `Order`: no two watchers have one address, hence none writes another's
  snapshot; all that is in flight was published for its item; what the queue holds of an item
  ascends and is newer than what the consumer has seen; and what the portal shows, a poll
  returned and the storage holds follow one another, so that a delta names only versions that
  were not said yet. Then `GetEvent` is a `Tell` of the
  feed, `Publish` a `Publish`, opening, closing and restarting are those of the feed, and
  every other step is a stutter. `PersistedIsAnnounced` leaves out the instant between save
  and event; `Snapshots` fills it with the snapshot that was loaded before.
- **FileStorage_proofs** (`TypeCorrect`, `FileIsTheMap`). The types hold that the lock's
  queue has each operation under way once and that only its head is past the lock.
  The mapping takes the file for the map and says at which `pc` an operation of the map is
  pending or done (`Stage`, `Result`); it needs `Undivided`: until a write is abandoned, the
  file is torn only while a task has it open, what a task has read is what the file holds, and
  what it is about to write is that with its own operation done, where a blind operation has
  the empty map in place of the file (`Base`). `Read` or `ReadBlind` is then the step at which
  a `get`, or a `delete` that finds nothing, takes effect, `Store` that of the others.
- **RequestFunnel_proofs** (`TypeCorrect`, `EffectsAreBounded`, `FailureIsLast`). The
  invariant relates, per call, the portal's count of executions to the attempts begun
  (`Counted`: an attempt under way may still add one), says that only an idempotent call ever
  has a second attempt, after a failure the policy knows (`Retried`), and that a guarded write
  without permission never leaves `idle` except to fail (`Guarded`).
- **HostRateLimiter_proofs** (`TypeCorrect`, `BalanceHolds`, `OverrunIsBounded`). The
  accounting identity is `Balance`: what a bucket sent plus what it holds is at most what it
  earned plus the *spare* tokens, where each overlap adds one, each sleeper takes one back,
  and the sleepers together are owed one as long as nobody took a token since they met the
  bucket (`Due`). Since rates multiply, the arithmetic is kept in lemmas over single products
  (`TimesSucc`, `TimesMono`) and `Spare...`, one per step that changes the sleepers.
- **CircuitBreaker_proofs** (`TypeCorrect`, `ClosedBelowThreshold`). `EntryStep` says which
  new entries keep the equivalence; `KeyForType` that the lookup by the first registered
  prefix always finds a key (a minimum over positions, by well-foundedness of `<`).
- **AuthManager_proofs** (`TypeCorrect`, `LoginIsCarried`, `SessionIsFound`).
  `RequestCarriesLogin` needs `LoginStays`: a login leaves `UNAUTH` for good, so that only a
  restore already in flight can replace its cookie; its cookie stays in the jar; and from
  `_inject_jar()` to the request the client's cookie is no older than the login the request
  began after. `RestartFindsSession` needs `SessionStored`: in `UNAUTH` no task is in
  `_obtain_jwt()`, and what a restore has read is still what the store holds, so that applying
  it makes manager and store agree. The store's order is a sequence without repetition;
  `Joined`, `Left` and `Advanced` say what entering, giving up and being served do to who
  comes before whom. Every step of a task is brought to one of two shapes, `QuietStep` (no
  save is concerned) or a save that begins, takes effect or ends. That a state comes with its
  credentials (`TypeOK`) needs `Genuine`: an entry with a token has a cookie too, in the store
  and in the hand of every task that is about to restore or save it.
- **Login_proofs** (for the replay `EsiaTypeCorrect`, `PasswordIsSentOnce`,
  `CookieNotOverlooked`, `RequestsAreBounded`; for the QR login `CodeSpentOnce`,
  `EventsAreThoseOfTheBlocks`, `OutcomesAreJustified`; `LoginTypeCorrect`). For the replay one
  invariant ties the password sent, the captcha, the cookie and the number of requests to `at`
  and `hops`; each property is a part of it. For the secrets of the QR login it is enough to
  know that nothing was spent before `confirm` and that behind it what was spent is the code
  at hand. `Parsing` says what the parser holds in the middle of a block: the type and the
  data lines since the last blank line. The reference says which event stands at which place
  by counting the blocks before it, so that one more line changes one place only. `Justified`
  ties the counter to the errors among the events.
- **Reading_proofs**, for `MCReading` and its five modules; `PartsApart` carries the theorems
  of the parts over to the whole (`ReadingTypeCorrect`, `ReadingIsSafe`).
  - *Protocols* (`RestRoutesOnce`, `FieldsAreSentOnce`, `ValuesAreAnswers`,
    `ChangesAreSentOnce`, `ChangesAreMadeOnce`). `RestRoutesOnce` and `RouteCounts` are about
    every declaration, not only those of two fields; `ShippedIsComplete` goes through the
    tables of the shipped ones. `SentAsDeclared` says that a request under way is what the
    protocol makes of the fields given. `SentByPhase` says where a call that is not idempotent
    can be with an attempt behind it: nowhere it could send another.
  - *Paging* (`PagingTyped`, `NothingIsSkipped`, `DrawnInOrder`), for any calendar, length of
    a week and number of tasks. `NoGap`: between what was drawn and the page to come there is
    nothing but the rest of the page at hand, and when no page is to come that rest is all that
    is left of the range. A late page puts the iterator back and leaves no gap either. `Ordered`:
    while no fetches overlap, what was drawn, the rest of the page and the page to come follow
    one another.
  - *Watchers* (`WatchersTyped`, `ChangesAreTold`), for lists of any length. `Thread` ties the
    caches to the differ's snapshot at each place of the loop: the schedule's cache holds at
    least the lessons of the last snapshot until the delta was told, and the mark's has what
    was just polled. An event is first compared with the old snapshot (`Differs`), which is all
    that the code can do; that the snapshot is one `Of` the list, an item of it for every key
    and no others, carries this over to the list itself (`DiffersTells`), and that whatever is
    not in the old snapshot stands in the delta (`DeltaFacts`) gives that nothing new goes
    untold.
  - *Bell* (`BellTyped`, `BellsRingInOrder`, `AnswersAgree`), for any number of slots. A plan
    by counting is sorted and complete (`PlanIsSorted`, from `Placed` and `PlacesTaken`, which
    hold of every finite total order). `InPlan`: what was rung is the beginning of the plan,
    and a sleep reaches its event.
  - *Caches* (`HitsAreFresh`). `StampIsOld`, that a timestamp is never later than the data it
    dates, is what makes the order of the two writes matter; `NothingOvertaken` is what the
    absence of racing downloads gives.

Two definitions were rewritten in the course of the proofs. `Watchers!Classify` was a `CASE`
whose guards overlap; the code's `if` chain has an order, which TLC happened to follow and a
proof may not use. Lists that had been filtered or sorted by recursive operators of the
library are now defined by counting: nothing can be proved of a recursion here but what needs
no induction.

Only model-checked: liveness (`CatchesUp`, `ClosingEnds`, `EveryCallReturns`,
`LockIsPassedOn`, `NeverStuck`, `LoginEndsClosed`), since fairness and `ENABLED` are beyond
the prover. The runs that expect a violation have nothing to prove.

## 5. Hazards

`PROJECT.json` lists, line by line, what is hard to test in this code and which property
would catch it. Those without a property say why.

## 6. Where code and documentation disagree

The first two and the sixth have a run that finds them, three to five and 16 to 18 a
configuration. The others came up while modelling and have none: what the code does is in the
modules where it is control (7, 8, 10, most of 11 to 15), the rest is data that the models
leave out.

1. **Snapshots do not survive a restart** (`reactive/_base.py:79`). The name of a snapshot
   holds `id(self)`. The counterexample of `OnlyGenuineChanges`: publish, poll, save, tell;
   restart with another address; the same version is told again. `docs/reactive.md:94` and
   `docs/gotchas.md:10` promise the opposite. With an address that another watcher of the
   class had before, genuine changes can also be missed.
2. **The session file wins over a fresh cookie** (`client.py:188`). The counterexample of
   `FreshCookieIsSent`: a first client saves cookie 1; it expires, the user logs in again
   and constructs a client with cookie 2; on entry cookie 1 is laid over it and sent.
3. **The rate is no cap** (`rate_limit/token_bucket.py:104`). Two callers that find the
   bucket empty sleep for the same token and both go on. What holds instead is proved:
   `OverrunBounded`.
4. **Cancelled file writes** (`storage/file.py:73`). The counterexample of
   `SafeAcrossTasks`: a `set()` is cancelled while its thread has the file open or is about
   to; the next operation runs beside it and one of them is lost or the file is torn. What
   holds is `ImplementsMap`, up to that moment.
5. **A half-open circuit admits everyone** (`breaker/breaker.py:139`), where the comments
   say one probe.

6. **X1 calls are never sent** (`protocol/x1.py:152`, run `calls_x1`). The counterexample of
   `X1CallsAreSent`: the shell is fetched, an X1 call is made, `client.registry` does not
   exist, `ProtocolError`. `NotificationWatcher` therefore only ever backs off.
7. **QR errors need not be consecutive** (`auth/solvers/qr.py:188`). `docs/authentication.md:73`
   speaks of three consecutive `qr-error` events; all of the stream are counted, pings and
   other events in between notwithstanding (`QrLogin!ConsecutiveErrors` states the sentence).
   `methods/qr.py:10` and `:43` call `qr-error` a terminal event: the solver reads on after
   the first two.
8. **Any object is a result** (`protocol/rest.py:231`, `models/eje.py:27`). `EjeResult`,
   `OAuthConfig`, `QrConfirm` and `MonitoringResult` have only defaulted fields, so that every
   JSON object validates, an exception envelope as `EjeResult(success=True)`. A login page sent
   with status 200 is a value for `bytes` and HTML results and would be cached as an asset.
9. **Fields that do not arrive.** `GetMarksReport.with_dates` is never sent, since
   `__query_fields__` names it `withDates`. An X1 decode returns an `X1Page` with `items`, not
   the declared model with `records`. Methods declared to return an `EduPage` reject the list
   that `ext_direct.py:200` says most calls return. The Ext.Direct `tid` is always 0.
10. **Iterators.** Two tasks on one iterator draw items twice; `iter_diary` without an end stops
    at the first week without entries, holidays included; with start after end it yields one
    page.
11. **Events.** `MarkChanged.before` is the new mark, since `poll()` replaced the cache it is
    read from (`watchers.py:80`). A corrected grade is a `NewMark`, since the mark is part of
    the key. An iteration left in the middle of a delta makes the schedule's next events
    compare with an older list. With abutting lessons, the end of one may ring after the
    beginning of the next. `docs/reactive.md:108` says that `AuthExpiredError` surfaces from the
    stream and `:104` that `CancelledError` always propagates: `_base.py:157` logs and backs off
    after the one, `:155` returns on the other.
12. **Clocks.** A wall clock set back during a sleep makes a bell early, or a cached asset young
    again. `ScheduleDay.current_lesson` and `LessonTime.is_active` default to UTC.
13. **Cache.** An entry whose timestamp file is missing is served for ever, where
    `assets/cache.py:88-90` says that a partial entry is evicted at the next read; data cut
    short under a fresh timestamp is served; of two concurrent downloads the older answer may
    stay. An empty XLS export is cached for the ttl although `download_xls` raises on it.
14. **Funnel.** With a breaker attached every call raises `AttributeError`
    (`sessions/base.py:158` calls `breaker.allow()`). A 401 is not retried although docstrings
    speak of one refresh (`base.py:287`). The request is prepared once, so retries send old
    cookies (`base.py:148`) and are not paced (`base.py:150`). A `save()` that raises on exit
    leaves the connections open (`client.py:193`), `sync.py`'s `__exit__` likewise its loop.
15. **Limiter, storage, auth.** `disable(None)` leaves hosts with a rate of their own limited
    (`token_bucket.py:125`). Two `FileStorage` objects on one path have two locks
    (`file.py:33`). In `COOKIE_ONLY` a failing `GET /session` fails the caller, in `SESSIONED`
    it does not (`manager.py:152`); its answer to an old cookie may be taken for a new login's
    (`manager.py:282`).
16. **Network failures are not retried** (`transport/retry.py:72`). `retry.py:59` promises a
    retry after "a network-level exception", `docs/configuration.md:33` and
    `docs/architecture.md:75` after "transient failures". The policy knows `TransportError`,
    `OSError` and `TimeoutError`; what the default `HttpxSession` raises when the connection
    fails or times out is `httpx.ConnectError`, `httpx.ReadTimeout` and the like, which are none
    of these and which nothing wraps. The counterexample of `NetworkFailuresAreRetried`: a read
    is sent, the connection breaks, the caller has the exception, no retry was made. What holds
    is `GivesUpLast`. Transient statuses are retried as configured.
17. **A failed read wipes the file** (`storage/file.py:42`). `_read_sync()` "returns `{}` if
    missing" (`file.py:36`), but also when a file that is there cannot be read. The
    counterexample of `SafeAcrossTasks` in `FileStorageMisread.cfg`, with no task cancelled and
    nothing raised: a value is stored, the read of a later `set()` of the other key meets an
    `OSError`, and the file is written back without the first; or a `delete()` returns and has
    deleted nothing. `docs/gotchas.md:75` calls the file safe across the tasks of a process.
    What holds is `ImplementsMap`, in which such an operation is blind.
18. **Repeated keys are told at every poll** (`reactive/diff.py:155`). `_base.py:99` asks for
    keys that are unique; `HomeworkWatcher.key_fn` (`watchers.py:130`) is date and subject,
    which two lessons of a day share, and the differ keeps the hash of the later. The
    counterexample of `OnlyChangesAreTold`: the portal shows entries A and B of one key, then
    the same list again; A is told once more, and at every poll from then on, against
    `watchers.py:112-113` ("that was not seen before") and `docs/reactive.md:4-5` ("one event
    per change"). What holds is `EventsTellTheChange`: the event names a difference to *some*
    item that had the key, and no new item is lost.

## 7. Not modelled, and the plan

Not modelled: `sync.py` (one call at a time on a loop of its own), `parsers/` and the models'
helpers (text and arithmetic on one value, no state, better tested), `cache/reference.py`
(nothing in the SDK uses it), `logging.py`, the x1db constants. Left out of modelled parts:
`prime` and `reset()` of `StateDiffer`, which no shipped watcher uses, the back-off's delays,
storage keys of several accounts, redirects inside httpx; cookies other than `X1_SSO`, and the
`Authorization` header, which no request reads; the before-object of an event.

In this order:

1. `AuthManager` composed with the funnel (what a 401 does, against the docstrings), and
   whether every `ensure()` returns.
2. Journals: `Journal.save()` checks `JOURNAL_TRANSITIONS` against the copy in hand, while
   `save_journal()` checks nothing and defaults to `ACTIVE`; several copies and a portal.
3. The cookie jar over several hosts.
