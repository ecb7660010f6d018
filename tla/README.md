# A TLA+ verification of sdq-go

sdq-go is a Go library with two packages. `service/` holds what a web service is assembled from: configuration and
start-up, logging, a gin server with tracers, SQL, Redis and Mongo clients, an HTTP client, a rate limiter, an IP
database that keeps itself up to date, and a cache with an invalidation bus. `common/` holds stateless helpers. The
library keeps its state in package-level variables that every goroutine of the service shares. It has no tests and no
documents apart from its comments, so those are what the specifications are held against besides the code.

## 1. Inventory

| Part (source) | State | Operations | Talks to |
|---|---|---|---|
| Rate limiter (`service/limit.go`) | one theoretical arrival time (TAT) per key, in Redis, with a time to live | `Allow`, `AllowN`, `AllowAtMost`, `Reset`, `InitLimit` | Redis, by two Lua scripts through go-redis |
| Redis client (`service/redis.go`) | `Rdb`, connection pools | `initRedis`, `LogHook` | Redis; reads `config.Server` and `ZapLog` on every command |
| IP database (`service/ipdb.go`, `common/files.go`) | `Ipdb`, the file at `ipdb-path` | `InitIpdb`, `UpdateIpdb` | GoCron calls it back; two mirrors through `FastHttpClient`; the file system |
| Start-up (`service/config.go`, `service.go`, `gorm.go`, `mongo.go`) | every global variable | `InitConfig` and some ten initialisations; `GetGeneralTracer` | databases, scheduler, the parts above |
| HTTP client (`service/fasthttp.go`) | fasthttp's pool of responses; the caller's `FastResArg` | `FastResponse`, `GinTracer.FastResponse`, `fastHTTPDialer` | servers, `common.StringInSlice`, `common.Json2Struct` |
| Cache bus (`service/ecacherdb.go`) | a subscription's channel | `OK`, `Pub`, `Sub`, `Take` | ecache above, Redis below |
| Gin server (`service/gin.go`, `zap.go`, `InitGin`) | `config.Server`, a request's context | `InitGin`, `GetGinTracer`, `BindJson/Form/Query`, four reply helpers, `GinZapWithConfig` | gin, the validator |
| Validator (`service/validator.go`) | `trans`, `ValidatorRegs` | `initValidator`, two field validators, message lookup | gin's binding |
| Helpers (`common/*.go`) | `fieldInfoCache` only | slices, structs, strings, times, files, network, hashes | - |
| Windows helpers (`common/windows.go`) | - | system calls, registry | Windows |

What is hard in it, and what makes each part correct:

* **Rate limiter.** Callers in any number of processes, perhaps with different limits, share a key. The TAT can lie in
  the past, its key can expire, Redis can restart with or without its data and always without its scripts, and
  go-redis repeats commands that are not idempotent. Correct means: no interval of time sees more granted than its
  length and one burst allow; what a caller is told (allowed, remaining, when to retry) is true; what a caller is told
  and what it was charged differ only as far as attempts failed; every call returns.
* **IP database.** Download, truncation, write, reload and assignment are separate steps; mirrors, disk and process
  can fail at any of them, and a second caller may be inside the same function. Correct means: what is served is a
  published release; a failed update leaves what was served; a restart serves the same; updates arrive in the end.
* **Start-up.** A long sequence in a fixed order, each step of which may be left out, fail, be fatal or fail silently,
  leaving nil pointers to be met later. Correct means: a sensible configuration never panics, `nil` means connected,
  indexes mean what the configuration says, what can be scheduled is, and what failed silently can be told from what is
  left over. The same holds when it is called again, with another configuration and on top of what the first call left.
* **HTTP client.** Memory is pooled between goroutines, and there are five ways out of each of two copies of a function,
  and more through the proxy dialer. Correct means: responses go back once, connections are closed or handed on, callers
  keep what is theirs, results mean what they say, no cookie is lost.
* **Cache bus.** Publishing is retried, connections break, a channel fills while a callback is slow, and nothing wakes the
  loop that empties it. Correct means: a publisher told of success can count on everyone who was there and not blocked;
  deletions are heard in Redis's order; what arrives is heard.
* **Gin server.** A body can be read once, bindings answer on behalf of handlers, handlers go on after they have answered, and
  may panic there, and a context is reused by the next request while a task of the last one still holds it. Correct means: nothing
  follows a failure and nobody leaves unanswered, each request is logged with its own id and the status that was sent, reasons given
  to clients are true, and the server is up only as configured.
* **Helpers.** Slices share arrays, which `append`, sorting and deletion write in place; a cache outlives the call that
  filled it. Correct means: results follow from the arguments, and what else changes is known.

`PROJECT.json` lists the hazards one by one at their lines, with the properties aimed at each.

## 2. Plan

1. `GCRA` -> `RateLimiter` -> `LeakyBucket` (abstract): *done*, proved.
2. `RateLimiterClient`, composing `RateLimiter` with go-redis: *done*, its invariants and when a late attempt can act proved.
3. `IpdbUpdater`: *done*, its invariants, `KeepsServing` and `FairWeatherKeepsTheFile` proved.
4. `Bootstrap`: *done*, with later calls of `InitConfig` that find another configuration; its invariants proved.
5. `FastHttp`: *done*, with the proxy dialer; its invariants and the merging of cookies proved.
6. `GinServer` (`InitGin`, tracer, bindings of complete and of cut bodies, replies and what comes after them, request logger,
   message choice of the validator): *done*, its invariants proved.
7. `Broadcast` (abstract) and `CacheBus`: *done*, the refinement proved.
8. `Helpers`: *done*, checked against reference definitions and proved to meet them.

## 3. Modules and code

**`GCRA`** translates the two Lua scripts (`limit.go:16-145`) into operators from the TAT, the time, the limit and the
number of events to a reply. Time is in ticks so fine that each emission interval (`period / rate`) is whole;
`remaining < 0` becomes `diff < 0`, the division that Redis cuts to an integer becomes `\div`, and `SET ... EX
math.ceil(...)` becomes `CeilSeconds`. The rounding of doubles is the one thing left out.

**`RateLimiter`** is Redis as the limiter uses it: `store` (TAT and expiry per key), `now`, and two recordings,
`answer` (the last call and what it was told, erased with the keys) and `window` (what a key was granted since some moment; `Observe` lets that
moment be any). One action per operation: `RunAllowN`, `RunAllowAtMost`, `Reset`, and the environment's `Tick` and
`Lose`. Expiry is no action: `From` does not see an entry past its time, as `GET` does not.

**`LeakyBucket`** is the promise without clock, timestamps or expiry: a debt per key, which drains; `AllOrNone` and
`AsManyAsFit` are the two kinds of call, and each `answer` says which call it answers, so that a wrong answer cannot
pass for a right one to another request. `Forget` erases the answer too: a key that lost its debt by expiring would be
seen. `RateLimiter` implements it under `debt[k] = From(k, now) - now`.

**`RateLimiterClient`** puts calls between callers and `RateLimiter` (by INSTANCE): `Begin`, `Receive`, `Fail` are the
goroutine inside `Script.Run` with `MaxRetries` and timeouts (`redis.go:155-163`); `Execute` is Redis taking up an
attempt, whenever and in whichever order, also one the client has given up on; `Restart` drops scripts and connections.

**`IpdbUpdater`** is `InitIpdb` (`Init`, `Start`) and `UpdateIpdb` cut into the steps at which something else can happen:
`Fetch`, `Create` (`os.Create` truncates), `Write` block by block, `Read` and `Assign` (`Ipdb.Reload`). `Weather`
changes mirrors and disk, `Crash` ends the process anywhere. `job` is what became of the update's schedule: `none`, if the file
could not be loaded, there was no scheduler or `NewJob` failed; `waiting` in a scheduler that nobody has started, which is how
`InitGoCron` leaves it without `cron-async`; or `started`. Which of them it is comes from the start-up and is any of them here.
`Cron` is a run of the job, in singleton mode; `Manual` is another caller. `FastHttpClient` is taken to be there.

**`Bootstrap`** is `InitConfig` as a program counter through `Steps`, one action per initialisation: a section that is not
there, success, an error that is logged and passed over, `Fatal`, and the panic that an earlier omission leads to.
`up` has the globals that are not nil, `traced` is whether the SQL logger looks for a trace id, `started` whether the scheduler was
started, `jobs` has the calls whose update was scheduled, `due` those of them in a started scheduler, and `failed` what this call
has passed over, a `NewJob` without success included, whose result nobody reads. Then the uses of the globals: both tracers, a
statement on the database of each, the scheduled update. `InitConfigAgain` starts over, once the call before has returned nil,
with the globals as they are; `Load` may then find another configuration, one of `Rereads[c]`: values change, but a `[server]` or
`[log]` that is there does not go away, since `k` keeps what was read. `Rdb` grows by the new clients, `GoCron` is a new scheduler
beside the old, a cache without a client keeps the one deletions were told through (`distClient`), and a database, scheduler or
generator that fails to load takes the place of the one that was there (`Unset`). Between two calls and not during one
the globals are used: the code has no lock that would order the two, and readers during a call are left out.

**`FastHttp`** is both copies of `FastResponse`: `Begin` acquires, `Fail`/`Receive` are the two results of `Do`,
`Conclude` has the four ways out after an answer, and `Leave` is the deferred release that all of them share. `Merge` is the
cookie merging with `StringInSlice` sorting in place; `Sorted` puts at each place the value of that rank. `FastHTTPDialer` is what `Do` calls to open a connection through a
proxy, one action per way through it; it takes a response of its own from the same pool. Headers, URLs and logging are left out.

**`GinServer`** is a service's web server. `InitGin` is one action with all its early returns; `server` is the part of
`config.Server` it reads and writes. `MatchIp` is modelled by what it finds: a host can be absent, an IPv4 address, a text that has one in it, an IPv6 address, of which
nothing is found or only a part, or a name; what was found is what the host is from then on. `inits` remembers where the
configuration wants gin to listen. A request `Arrive`s through the
middleware into a context of the pool, with a body or none, complete or `cut`, as JSON or as either form; it passes two handlers, and
`Leave`s through the recovery and the request logger. Handlers do what the package offers them
(`BindJson`, `BindForm`, `BindQuery`, `Answer`, `Query`, `Spawn`), and return or panic at any point. What is asked of them is that they
bind before they answer and answer once at most, a failed binding having answered for them, and that the last one to run
answers; after its answer a handler goes on and may log, panic or leave a task behind. Of `Context.JSON` there are three outcomes: the
document is sent, it is lost behind the header, or it cannot be encoded and nothing is written; `status` is what gin's writer holds and
`sent` what it wrote. Statuses other than 200 and 500 are not distinguished. The causes a binding may fail for depend on what is left
to be read, on the form, and on whether gin is built with `sonic`: a multipart form that is absent, was read before or is cut
between two parts ends in an error that wraps `io.EOF`, and so does a cut JSON body for sonic. `Explain` is the choice of a message:
`ExplainTrans` is `GetHttpResErrorTrans`, `ExplainMsg` is `getValidMsg`; a message is its kind and the fields it names. `occupant` is
the request whose id is in a context; a task keeps the tracer, whose logger has a copy of the id and whose `Db` has the context.
`line` is what the last step logged.

**`CacheBus`** is `GoRedisCli`: `Pub` with go-redis's attempts, and `Sub` with what go-redis does for it: `Connect`, `Read` one
message, `Put` it into the channel of the size `Take` was given, `Drop` it after a minute, which only a callback can last.
`missed` records what a process was not told, once at least. It implements **`Broadcast`**, the promise without
connections and retries: `Accept`, telling a publisher of success, is possible only once every subscriber has the message
owed, heard or missed, and `Hear` takes what is owed in order. `Owed` is the refinement mapping: channel, hand and connection in a row.

**`Helpers`** is `slice.go` and the two stateful functions of `struct.go` over an explicit memory: `heap` has the arrays, `var` the
slices as windows on them, so that `append` in place, sorting and compaction are seen by whoever shares the array. `cache` is
`fieldInfoCache`. The functions for `int`, `int64` and `string` are the same but for the type, and so one action each. `KeyFunc` is the `keyFunc`
that `UniqueAndMerge` is given: two elements with one key are one to it. `MergeIsRight`
and its neighbours compare each call with a definition that knows nothing of arrays, and name the cases where the code differs.

`MC*` modules give constants their values. Operators marked *Mutant* in the modules are plausible mistakes of the code;
each property of each passing run is violated when its mutant takes the place of the definition (`PROJECT.json`).

## 4. Runs and bounds

| Run | Shows | Bounds, and why they are enough |
|---|---|---|
| `limiter` | limit over every interval, expiry, exact replies, refinement of `LeakyBucket` | one key (keys are independent: every action touches one); three limits that differ in interval and burst, 0 to 4 events, so over the largest burst; 7 ticks, so that the largest burst offset (4) is drained and used again; 3 ticks a second, so that expiries fall on, one and two ticks after their TAT |
| `limiter_remaining` | a doc comment of `Result` that the code does not keep | the same, two ticks more |
| `client` | two concurrent calls: what Redis grants, charge, answer, errors, when Redis may act late, termination | one key, so that the calls contend; whole bursts and resets, which are the requests that exclude each other; one retry, so that an attempt can be late, executed twice, or lost, for EVALSHA and EVAL each; any number of restarts; two instants |
| `ipdb` | what is served and stored through failures, crashes, overlap; arrival of the latest release where the scheduler is started | releases of one and two blocks, which allow every kind of cut and overlay; two mirrors as in the code; one manual call, which can overlap any scheduled one; the job started, waiting or missing, anew at each start |
| `boot` | every panic has a known reason; meaning of `nil`, of indexes and of globals that are not nil; what is scheduled and run, in the first call of `InitConfig` and a second | two families of configurations, 3,186 together: `Stores`, the databases with up to two Redis entries and the indexes of limiter and cache (the cache's is none, -1 or the limiter's), and `Background`, what runs there (scheduler, `cron-async`, ids, IP database, HTTP client), which shares with the first only the server, logger and SQL database, and both have those. Two calls, since the second already finds everything the first can leave; its configuration differs in up to two places, so that one thing can change and another with it |
| `boot_query` | a comment of the SQL logger that the code does not keep | the same |
| `fasthttp` | pool and connections, decoded values, results, cookies | one goroutine per function, two calls each, three responses, since a call that dials holds two: each is reused by either goroutine while the other is anywhere; two connections; no cookie, or two out of order. Responses and connections are symmetric |
| `fasthttp_body` | what is returned as `Body` outlives its memory | the same |
| `gin` | what a client gets when handlers bind, answer, go on and panic; log lines, reasons given for a failed binding, what is served where | two requests, two handlers, one context: so the second request always gets the first one's, the worst case for a task that still holds it; every host, form and body; calls of `InitGin`, lines of a task and statements are not bounded; three fields, two of one name in different structs; gin built without `sonic` (the theorem covers both). Requests are symmetric |
| `bus` | refinement of `Broadcast`; what arrives is heard | two messages, which can overtake each other; one subscriber (subscribers share nothing but the publisher's attempt); a channel without buffer and one that a message fills; one retry, one broken connection |
| `helpers` | merge, search, deletion and struct assignment against their definitions | sequences of two calls, so that one works on what another has sorted, compacted or cached; slices that share an array or do not, with and without room behind them, and a nil one; a `keyFunc` that gives two elements one key; two types with three fields that have one, both or none of two tags |
| `helpers_sign` | a comment of `GenerateSignString` that the code does not keep | one call |

`CHECK_DEADLOCK FALSE` is set where the modelled program stops: start-up ends, callers have made
their calls, the process that subscribed is closed, every request is over and left no task. `Helpers` has no type invariant of its own: a window
outside its array makes the properties themselves fail to evaluate (that there is none is proved, `SlicesFit`).

The four violation runs are disagreements between code and comments: `Remaining` of a denied call, the SQL logger that uses a gin
context it has not got, `Body` released before its caller can use it, and the signature whose key is overwritten by
the first tag it finds. Three more are seen in the models without a run: `RetryAfter` of a request over the burst
is no time after which it would be permitted (`RetryAfterExact` says of which requests it is), and `InitFastHttp`, called
optional, is needed by the scheduled update (the first of the reasons in `PanicsHaveReasons`); and `MatchIp`, which is to tell
whether a string is an IPv4 or an IPv6 address (`network.go:94`), finds nothing in `::1` or an address of eight groups, so that `InitGin`
refuses them, and only the part from `::` on in `fe80::1:2:3`, on which gin cannot listen and which the next call refuses.

Some properties say where a promise ends, since the code keeps it that far. In `LogTellsWhatHappened` a statement logged by a task after its
handler's request is over may carry the id of another request. `BindingsTellWhy` allows a client to hear of missing parameters when its
body was sent but cut, as a multipart form or for sonic. `AnsweredOnce` lets a request leave without a document or a 500 if gin has noted
an error in its context. `ListensAsConfigured` takes a text with an IPv4 address in it for that address, and lets a server listen on every
interface when `InitGin` is called again after refusing the host. `ResourcesAreAccountedFor` counts one connection lost per `CONNECT` that
could not be written. `UpdateIsScheduled` promises no job where `NewJob` failed and no run of it without `cron-async`; it
and `IndexesMeanEntries` say what a second `InitConfig` does to jobs and indexes.

## 5. Fairness

`RateLimiterClient`: `WF(Receive \/ Fail)` per call: go-redis ends each attempt by a reply or its ReadTimeout. Redis itself
is promised nothing. `IpdbUpdater`: `WF(BeginCron)`, which is enabled only where the job is in a scheduler that was started
(`service.go:122-124`): such a scheduler runs it again and again, except while it is running, and of any other nothing is promised;
`WF(Step)`, since a request ends by its timeout of 30 seconds (`ipdb.go:47`) and the other steps are operations on a local file, which
are taken to end. Neither manual calls nor restarts nor better weather are promised, and the liveness property names the
weather, and the started scheduler, it needs. `CacheBus`: `WF(Sub)`, `WF(Read)` and `WF(Put)` per subscriber: the goroutine of
`Sub` never sleeps, callbacks return, and go-redis's goroutine reads while there is room; neither publishers nor connections are
promised anything. `Bootstrap`, `GinServer`, `FastHttp` and `Helpers` state safety only: in particular nothing says that
`InitConfig` ends, which may wait for a database as long as the database's driver does.

## 6. Proofs

TLAPS checks the theorems below for every value of the constants that satisfies the assumptions the modules state. TLC
evaluates each assumption in the runs.

* Limiter: a second has at least one tick (`TicksAssumption`); limits have a positive interval, a natural burst and a burst
  offset up to `MaxOffset`, a natural number (`LimitsAssumption`); the bounds on events and time are natural numbers
  (`BoundsAssumption`). They hold for every `Limit` with a positive rate and period, once ticks are fine enough.
* Client: callers ask for at least one event of a limit in `Limits` (`RequestsAssumption`); the number of retries is any natural
  number; the limiter's assumptions hold of the client's constants (`ServerAssumption`).
* Updater: releases have at least one block, there is at least one mirror, and a page of an error or a failed answer is no
  release (`UpdaterAssumption`).
* Bus: sizes, retries and breaks are numbers, and `None` is no message (`BusAssumption`).
* HTTP client: `None` is neither a buffer nor a connection (`PoolAssumption`), and no cookie is empty (`CookiesAssumption`). That a server
  sets none twice is no assumption but a condition in `MergeKeepsCookies` (`SetOnce`).
* Gin server: a field's name has one or two parts, with or without its struct (`FieldsAssumption`).
* Start-up: `None` is neither an index nor a client, and there is at least one call (`BoundsAssumption`); `Configs` is any set of
  configurations (`ConfigsAssumption`), and a later one keeps the server's and the logger's sections (`RereadsAssumption`).
* Helpers: types have fields with names, all different, and tags; elements are numbers; at first no slice is longer than its
  array (`HelpersAssumption`). The memories, shared arrays and capacities are otherwise any.

| Module | Theorem | Property |
|---|---|---|
| `RateLimiter_proofs` | `TypeCorrect`, `EntriesOutliveDebt`, `RateLimited` | `TypeOK`, `EntryOutlivesDebt`, `WindowBound` |
| | `RetriesAreExact`, `RemainingIsExact`, `Refinement` | `RetryAfterExact`, `RemainingExact`, `ImplementsLeakyBucket` |
| `RateLimiterClient_proofs` | `TypesHold`, `ChargesFollowFailures`, `AnswersMatchCharges` | `TypeOK`, `ChargedOncePerFailure`, `AnswerMatchesCharge` |
| | `ErrorsMeanFailures`, `LateEffectsFollowFailures`, `LimitHoldsOfGrants` | `ErrorOnlyAfterFailure`, `LateOnlyAfterFailure`, `LimitHolds` |
| `IpdbUpdater_proofs` | `TypesHold`, `GenuineIsServed`, `RestartsServeTheSame` | `TypeOK`, `ServesGenuine`, `RestartServesTheSame` |
| | `ServingGoesOn`, `FairWeatherSuffices` | `KeepsServing`, `FairWeatherKeepsTheFile` |
| `Bootstrap_proofs` | `TypesHold`, `OnlyTheseReasons`, `EveryUpdateIsScheduled` | `TypeOK`, `PanicsHaveReasons`, `UpdateIsScheduled` |
| | `IndexesMeanWhatIsLeft`, `NilMeansConnected`, `FailuresAreTold` | `IndexesMeanEntries`, `ReadyMeansConnected`, `NilTellsFailure` |
| `FastHttp_proofs` | `TypesHold`, `ResourcesComeBack`, `AnswersAreOwn` | `TypeOK`, `ResourcesAreAccountedFor`, `JsonIsOwn` |
| | `CookiesAreKept` | `MergeKeepsCookies` |
| `GinServer_proofs` | `TypesHold`, `OneAnswerEach`, `LogIsTrue` | `TypeOK`, `AnsweredOnce`, `LogTellsWhatHappened` |
| | `ToldWhy`, `ServedAsConfigured` | `BindingsTellWhy`, `ListensAsConfigured` |
| `CacheBus_proofs` | `TypesHold`, `BusImplementsBroadcast` | `TypeOK`, `ImplementsBroadcast` |
| `Helpers_proofs` | `AssignmentsGoByTheFirstTag`, `HelpersInPlaceAreRight`, `MergesAreRight` | `AssignGoesByTheFirstTag`, `InPlaceHelpersAreRight`, `MergeIsRight` |

`RateLimiter_proofs` begins with the lemmas about the scripts and about products and quotients they rest on. Their main notion is an
*honest* reply: the TAT moves ahead by at least the price of what is granted, never past the limit's burst offset, and
not at all on denial. Both scripts reply honestly (`AllowNHonest`, `AllowAtMostHonest`).

*The limit.* `WindowBound` is not inductive: a key whose TAT were forgotten early could be granted a second burst. The
invariant `IInv` adds that a TAT ahead of the clock is still alive (`EntryOutlivesDebt`, which needs the expiry to be
rounded up), that it is at most `MaxOffset` ahead (`TatBounded`), and that what a window granted is covered by how far the
TAT has moved since the window began (`WindowPaid`). An honest reply preserves all four, whichever script gave it;
forgetting a key starts its window afresh. `WindowPaid` and `TatBounded` together are the bound.

*The replies.* They are state functions of the same invariant: while nobody uses a key, `From` at a later time is the
same TAT or the time itself (`FromStays`), so the later decision can be computed and compared with the reply.

*The bucket.* Under `IInv` the debt is `Later(tat, now) - now` (`DebtIsLead`), in this state and the next; a run of a script
moves the debt of its key only (`RunMovesDebt`), and each of its branches is then matched with the bucket's.

*The client.* Calls share Redis only, so the invariant `CallsSound` is a predicate on one call's progress, unexecuted
attempts, waiting reply and charges: executions so far and attempts that may still be executed do not exceed the
failures, and one more while an answer can come (`Counted`); a positive reply was paid for (`Paid`); without failures at
most the awaited attempt exists (`Unfailed`), which is what makes the fallback to EVAL harmless. One lemma for each
thing that can happen to a call, then one step per action. The same invariant says when Redis may act late: who has an attempt
waiting there still waits for it or has seen one fail, and only such an attempt, or a restart, changes a key. `LimitHolds` is the limiter's: each execution is one call of
`RateLimiter` (`RequestsKept`), whose proofs, instantiated as `RL`, have `RateLimited` for the client's variables. The types need one fact more, that an attempt is a command its request can send
(`CommandsMatch`).

*The updater.* Nothing is claimed of contents once two updates have overlapped: they write one file. Until then
(`Orderly`) at most one update is at work; the file is empty, a page of an error, or a beginning of one release (`Sound`); what the update
carries says what is in the file, step by step (`Carries`: while it writes, the file is what it has written; when it assigns,
what it read is the file); and between the truncation and the assignment only, memory and file may differ (`Agree`), which is
why a failed download changes nothing. `ServesGenuine` alone is not inductive, since what is read back is genuine only if what was written is.
For `FairWeatherKeepsTheFile`, a property of the steps, a second invariant says that an update which has a good mirror left
(`Downloads`) writes nothing but releases.

*The start-up.* Two halves. `Flow`: how far `InitConfig` is says which sections are behind it and so which globals are there
(`UpIfConfigured`), whether the SQL logger looks for a trace id (`TracedByName`), what became of this call's update
(`JobsOfCalls`: from the step of the IP database on it is scheduled if there are a database, a scheduler and no failure, and due if
that scheduler was started), and which global each passed-over failure has cleared (`FailuresTold`). With a sensible configuration this
leaves the four reasons for a panic. Since a later call finds another configuration, nothing is claimed of a section before its
step in this call is behind. `Connections`: `Rdb` has the clients of the calls before, in order, and behind them those of this
call's usable entries before `entry` (`Clients`, by the rank of an entry among the usable); the limiter and the cache have the
client their index means (`ClientsUsed`). An index is then an entry's number exactly if its rank is.

*The HTTP client.* A response is in one pair of hands: free, one call's, or one dialer's (`Pool`); a connection that is
being dialed is dialed by one call, and the others the dialer has opened and not passed on are lost, as many as `CONNECT`s could
not be written (`Dialed`, by cardinality). So nobody overwrites the response a call has received and not returned, and what is decoded from it is its
own (`Own`).

*Cookies.* What the merge of any two lists returns takes induction, and a theorem with an operator as its parameter cannot be used here.
But the least number of a set is a matter of sets (`LeastExists`, from the well-foundedness of the naturals), so `Induction` is
stated of a set of naturals. By it the recursive function inside `FoldLeft` exists (`FoldExists`), and each of its steps keeps all cookies
and repeats none (`FoldKeeps`). A step is right because `Sorted` is in order and has the same values (`SortedIsSorted`, by counting
the positions below a value) and a binary search finds what is in a sorted list (`SearchFinds`).

*The Gin server.* A request is good (`Good`) in each stage of its life: fresh; served by a handler that has not answered, with
nothing but successes behind it (`Serving`); answered, with a document that went out or an error that gin has noted
(`Replied`); left (`Served`); over. What makes `AnsweredOnce` inductive is in `Delivered`: whatever does not allow another
document, a failure or a noted error, has aborted the request, so that no handler runs after the one that is in it; and a panic
there finds the header written or the error noted. Each reply helper, each binding and `Panicked` takes a good request to a good one,
by a lemma of its own; nothing in that involves others. `EndsEarly` goes with the cause: a binding comes to the end of a body that is
absent, was read, or is cut in a format whose reader says so. Others meet in the contexts: one that is in use belongs to the request
that has it (`Owned`), and a task has its request's id, and its context as long as the request lasts (`TaskOf`). Only a task that
outlives its request can thus log another's id. `Setup` adds to `ListensAsConfigured` that the host in `server` still says where gin is
wanted, unless it was refused and is empty.

*The bus.* Types first, for calls and for subscribers. The refinement rests on `Reached`: if a call has a positive reply or
has succeeded, each subscriber has its message owed, heard or missed (`Cover`). `Cover` only grows, one lemma per action, since what leaves
a connection, the hand or the channel goes to the next of them, to the callback, or to `missed`. Each action is
then a step of `Broadcast` or leaves `Owed`, which is channel, hand and connection in a row, as it is.

*The helpers.* `StructAssign` is right by an invariant of what it leaves behind: the cache has of each type the names by the tag in `first`
(`CacheGoesByFirst`), and only slices are nil (`OnlySlicesAreNil`), since a field that is none takes a slice's value in no call. An
assignment is then described by the names of the first tags alone (`AssignDoes`), field by field (`EachFieldGoesByFirst`).

*Slices.* The invariant is `SlicesFit`: slices stay inside their arrays, whatever shares them. Sorting and filtering are counted out by
the number of elements before one (`PlacesAreOrdered`, `PlacesAreTaken`): `SortedTo` is a permutation in order, so that the search finds
what is there and every count stays. A loop is a fold and a fold a run of as many steps (`FoldExists`, `CompactRuns`,
`MergeRuns`), over which `Induction` goes. A deletion has after `k` steps what is left of the first `k` elements in front and the rest as it was
(`IsCompacted`). The loop of `UniqueAndMerge` writes, whatever it reads, nothing but new elements of the result
(`WritesBehind`), which is why other slices stay; what it has merged after `k` steps (`MergesUpTo`) includes that elements not
yet read are as they were, and that is kept (`StepMerges`) since the result is never ahead of the reading, unless it began with
elements of its own in the same array: the exception `MergeIsRight` makes.

Only model-checked: the liveness properties (`EveryCallReturns`, `ServesTheReleaseInTheEnd`, `TransitIsHeard`), which this
prover cannot treat. Every other property of the passing runs is proved.

## 7. Not modelled

* Floating-point rounding of the scripts, which count in doubles of 16 digits where the model counts ticks; negative `n` and
  zero rates, which the constructors do not suggest.
* Lookups in `package ipdb`, which have no call in this repository, and with them the race of `Reload` with readers.
* Concurrent first calls of `StructAssign`, which write `fieldInfoCache` without a lock; nested structs.
* The text of logs, requests, replies, signatures and configuration files; the regular expressions of the two field validators and of
  `MatchIp`; which of two cookies of one name should win.
* SQL, resolvers and pool sizes; JSON; multipart forms, file splitting, network interfaces.
* Conversions of strings, numbers, dates and digests, which have no state; Windows calls; the empty `main`.
