# A TLA+ model of pyroscope-go

pyroscope-go is a Go library that profiles the program it is linked into and
sends the profiles to a Pyroscope server.  This directory holds TLA+ models of
the parts of it whose correctness depends on the order of events, the TLC
instances that check them, and proofs.  Paths below are relative to `src/`.

## 1. The system

| component | state | operations | interacts with |
|---|---|---|---|
| `api.go` `Profiler` | session, uploader | `Start`, `Stop`, `Flush` | starts and stops everything below |
| `session.go` `Session` | `startTime`, one buffer per profile kind, `lastGCGeneration`, `stopCh`, `flushCh`, `wg` | the goroutine `takeSnapshots`: tick, flush, stop | uploads to `upstream.Upstream`; sends flush and stop to the CPU collector; calls the delta profilers |
| `collector.go` `cpuProfileCollector` | `buf`, `timeStarted`, `started`, channels `events`, `halt`, `done` | the goroutine `Start`: tick, halt, events start/stop/flush | is registered in `internal/pprof`; owns the runtime's CPU profiler most of the time; uploads |
| `internal/pprof` | mutex, the collector, `ref`, `fn` (a chain of closures) | `StartCPUProfile`, `StopCPUProfile`, `SetCollector` | called by requests, by the collector's goroutine (register) and by the snapshot loop (unregister) |
| `http/pprof` | none | `Profile`: start, wait, stop | `internal/pprof` |
| `upstream/remote` | mutex, queue of 20 jobs, `flushWG`, `wg`, `done` | `Upload`, `Flush`, `Start`, `Stop`, worker goroutines `handleJobs` | the HTTP server |
| `godeltaprof` heap | map of entries `prev`, `acc` | `Profile` | the runtime's memory profile |
| `godeltaprof` block, mutex | map of entries `prev`, `acc` | `Profile` | the runtime's block and mutex profiles |
| `godeltaprof` `profMap` | hash lists of entries | `Lookup` | used by both delta profilers |
| profile builder (`proto.go`, `protobuf.go`, `elf.go`) | caches of strings, functions, locations | `LocsForStack`, `Sample`, `Build` | used by both delta profilers |
| `internal/labelset`, `internal/semconv` | a pool of parsers | parse, normalise, merge | `NewSession` |
| `x/k6` | none | HTTP and gRPC wrappers | `TagWrapper` |

What is hard about it:

* **Who waits for whom.**  `Profiler.Stop` waits for the snapshot loop; the loop
  waits, inside `SetCollector`, for every CPU profile request in progress, then
  for the collector; a request holds the registry's mutex while it waits for the
  collector to answer an event; a `Flush` waits for the loop, which waits for
  the collector and for the upload queue.
* **One CPU profiler per process.**  Background profiles, foreground profiles
  of requests and profiles of the application itself share `runtime/pprof`,
  whose `StopCPUProfile` stops a profile whoever started it.
* **The upload queue** counts jobs on a `sync.WaitGroup` that is swapped while
  others add to it and subtract from it.
* **Differences.**  Delta profiles are right only if no entry is lost, visited
  twice, or left half updated, also when a dump panics half way.
* **Caches.**  The profile builder remembers locations by their first address,
  and the same address can stand for an inlined call in one stack and for a
  frame of its own in another.
* **Time.**  The windows of snapshots come from tick times, possibly stale ones,
  and from truncated clock readings; the collector's ticker and the age of its
  profile drift against each other.

The list of hazards, each with its line and the properties aimed at it, is the
`hazards` section of `PROJECT.json`.

## 2. The modules

| module | models | extends |
|---|---|---|
| `Upstream` | what `Upload` and `Flush` promise (abstract) | |
| `Remote` | `upstream/remote/remote.go` | implements `Upstream` |
| `Registry` | `internal/pprof/pprof.go`, `http/pprof/pprof.go` | |
| `CPUCollector` | `collector.go` and the runtime's CPU profiler | `Registry` |
| `Profiler` | `api.go`, the select of `takeSnapshots` | `CPUCollector` |
| `Session` | `reset`, `uploadData` and the dumps of `session.go` | |
| `Ticker` | the clock of `collector.go`: ticks, ages, intervals | |
| `Delta` | `godeltaprof/heap.go`, `block.go`, `delta_heap.go`, `delta_mutex.go`: the counts | |
| `ProfMap` | `godeltaprof/internal/pprof/map.go` | |
| `ProfileBuilder` | `godeltaprof/internal/pprof/proto.go` | |
| `DeltaWriter` | the writing of samples in `delta_heap.go` | `ProfMap`, `ProfileBuilder` |
| `AppName` | `internal/labelset`, `internal/semconv` | |
| `ProfilerProofs` | proofs about `Registry`; the profiler implements it; the profiler's own invariants | `Profiler` |
| `RemoteProofs` | proofs about `Remote`, its refinement of `Upstream` | `Remote` |
| `TickerProofs` | proofs about `Ticker` | `Ticker` |
| `SessionProofs` | proofs about `Session` | `Session` |
| `DeltaProofs` | proofs about `Delta` | `Delta` |
| `SequenceFacts` | lemmas on sequences: induction, concatenation, `FlattenSeq` | |
| `DeltaWriterProofs` | proofs about `ProfMap` and `ProfileBuilder` as `DeltaWriter` uses them | `DeltaWriter`, `SequenceFacts` |
| `AppNameProofs` | proofs about `AppName` | `AppName`, `SequenceFacts` |

`MC*` modules and `.cfg` files are the instances.  Definitions whose names start
with `Bad` are wrong variants of the definition that follows them (a dropped
guard, a missing reset, a swapped order).  No specification uses them; each
property is known to fail when one of them takes the place of the right one.

### Remote

A caller is at one of the statements of `Upload` or `Flush` (`pc`); the mutex is
`mu`.  WaitGroups are numbered as they are allocated: `flushWG` is the number of
the current one, `count[g]` the counters, `gen[j]` the `flush` pointer in a job.
A job's life is `st[j]`: new, offered, added (counted), queued, taken, tried
(the request was made), settled (`Done` called), or dropped.  The HTTP exchange
(`uploadProfile`) is one choice: the server got the profile or it did not; an
error is only logged, so nothing else of it is visible.  `before` and `left`
record history: what was queued when a Flush swapped, what was handed over and
not posted when Stop was called.

`Upstream` knows only whether a job is new, accepted, dropped or tried, and for
each flush the jobs it has to wait for.  `Remote` implements it with the mapping
at the end of the module, if one goroutine flushes (in the package only
`takeSnapshots` does).  With several, a Flush covers only the jobs of the
WaitGroup it took, and returns while a job of an earlier WaitGroup is still on its
way, which is why `FlushBarrier` and the refinement are stated for one.

### Registry, CPUCollector, Profiler

`Registry` has the lock, the collector, `ref` and the chain of closures as a
sequence, oldest first.  A call of the collector spans two steps, with `mu` held
between them.  On its own (`RegSpec`) the registry lets the collector accept or
refuse any `Start`; the profiler is composed of the registry's actions, so what holds
of `RegSpec` holds in the profiler.  `CPUCollector` joins these steps with what the collector does:
`StartSend` puts an event on the channel and `StartDone` takes the answer, or,
with the default collector, calls the runtime.  A `reset` is two steps,
`StopAndUpload` and `Restart`, because between its stop and its start the
application can take the runtime's profiler; the goroutine of the collector does
nothing else in between.  Profiles are named by who asked for them, and `buf`
holds the names of the profiles written to it, so that mixing, loss and
duplication are visible.  Ticks come at any time; when they really come is the
subject of `Ticker`.

`Profiler` adds the owner (`Start`, `Stop`), the users (`Flush`) and the snapshot
loop.  What the loop's `reset` writes is in `Session`; `upstream.Flush()` is
taken to return, which `MCRemote` justifies as long as the uploader is not
stopped, and it is stopped only after the loop has exited.

### Session

The clock is an integer; a snapshot is a walk through the kinds in the order of
`uploadData`, and time, ticks and garbage collections happen between any two of
its steps.  The ticker keeps one tick and drops others.  `bufs[k]` counts the
dumps in a buffer, which tells apart the kinds whose buffer is emptied before the
dump (block, mutex, heap) and those emptied after a successful upload only
(goroutine, goroutineleak): what a failed dump left there is uploaded with the next
one.  `spoiled` and `failures` count such uploads and failed dumps of each kind.
`goroutineleak` is an experiment of some builds of Go; in the others `pprof.Lookup`
returns nil (`available`), and a kind that is enabled and not available is passed
over without an error (`Unavailable`).

### Ticker

The loop of the collector with time and without profiles.  Time is relative to
now: `age` is the age of the profile, `due` the time until the next tick, which is
zero or negative while a tick waits in the channel.  A reset takes a while
(`MaxStop`), between the moment the ticker was set and the moment
`timeStarted` is read.  A foreground profile may last longer than several periods.
`Ticker.Reset(0)` panics in Go; the model stops there (`TickZero`).

### Delta

The two loops of `WriteHeapProto` and `PrintCountCycleProfile` record by record,
in any order of the records that the code allows, while the program goes on
allocating or blocking.  The variable `kind` chooses between them: they have the
state and the first loop in common, and what differs are actions of their own.  A
panic of `LocsForStack` can end the second loop at any record that is about to be
reported.  After such a panic entries not visited keep their `acc`.  The block and
mutex profilers then report once too much and are right again
(`HealsAfterPanic`).  The heap profiler is not: it passes over an entry whose
difference is negative without clearing its `acc`.  `DeltasAddUp` is therefore
claimed up to the first panic.

### ProfMap, ProfileBuilder, DeltaWriter

`ProfMap` is `Lookup`, one list element per step.  `ProfileBuilder` is
`LocsForStack`, one turn of its loop per step, with the deck of addresses, the
cache of locations, the function ids and the mappings with their flags.  What the
Go runtime knows of an address is constant (`FramesOf`, `Rest`), under the
assumption that the heuristic of `pcDeck` relies on: an inlined call shares its entry
with the function it is inlined in and nothing else does (`RuntimeAssumption`).  In
the stacks of the records an inlined call is followed by what it is inlined in,
unless the stack was cut off there (`Linked`, part of `StackAssumption`): the
runtime unwinds physical frames and expands each of them.  An address without frames
is in `runtime.goexit` (`GoexitAssumption`), as the comment at `proto.go:381` has it.
`DeltaWriter` puts both under the loop of `WriteHeapProto`: entries live as long as
the profiler, the builder as long as one profile, the mappings as long as one or
the other according to `LazyMapping`.  Its reference definition is `Called`: the
functions of a stack, found without deck and cache.

### AppName

A configured name is a sequence of runes, chosen one by one while the parser
takes them; a label name that matters is one rune.  The parser's state survives
in the pool between parses.  A name that was built is parsed once more, as its
receiver would.  The names of labels do not contain the separators
(`LettersAssumption`); tags are texts (`TagsAssumption`), otherwise free.  Nothing
validates the value of a tag: `Add` takes it and `Normalized` writes it as it is.
`ReceivedAsSent` therefore has the precondition that the values of the tags are
`Plain` (no comma, no closing brace, no space at the ends), and so the runtime's name
and version: `runtime.Version()` lists the experiments of a build, separated by
commas.  The session id and the two scopes are plain (`DefaultsAssumption`), and for
the values of the configured name it is part of what is proved.

## 3. The runs

| run | bounds | shows |
|---|---|---|
| `MCRemote` | 2 callers of which one flushes, 2 jobs, queue 1, 2 workers, 2 flushes, Stop | counters match jobs, at-most-once posting, flush barrier, no `Add` during `Wait`, refinement of `Upstream`; `Upload` returns whatever the server does; `Flush` and `Stop` return if the workers run |
| `MCRemote_remaining` | 3 jobs, queue 2 | **violated**: jobs handed over before `Stop` need not be uploaded |
| `MCProfiler_safety` | 2 requests, 2 users (one waits), Stop at any time, application profiles | the registry's invariants in the whole profiler, one profile per upload, delivery of foreground profiles, Flush, quiet after Stop |
| `MCProfiler_live` | 2 requests, 1 user, Stop after registration, no application profiles | everything returns; background profiling resumes; foreground profiles are not cut short; Stop restores the default collector |
| `MCProfiler_nocpu` | CPU profiling disabled | **violated**: `Flush(true)` never returns |
| `MCProfiler_prompt` | Stop right after Start | **violated**: the stopped collector stays registered |
| `MCSession` | 4 kinds, with and without a goroutine leak profile in the build, rate 3, clock to 15, 2 flushes, 2 failures of each kind, 3 collections, `DisableGCRuns` either way | windows, partial failure, rests of failed dumps, GC generation |
| `MCDelta` | either kind, 3 buckets on 2 stacks, 3 events, 1 panic, 2 cycles/ns | differences add up, with rounding; one sample per stack; recovery after a panic; the mutex is released |
| `MCDeltaWriter` | 5 stacks over 8 addresses, 3 of them colliding in `profMap`, 2 samples per profile, any number of profiles | samples read as their stacks, locations keep inlined calls together, no slice out of bounds, mapping flags, list surgery |
| `MCAppName` | names of up to 6 of 8 runes, 6 sets of tags | labels of both names, read back as sent, after failed parses too |
| `MCTicker` | period 6, ticks up to 2 late, 2 to stop a profile, requests up to 14 | how old a profile gets, how soon a failed start is retried |
| `MCTicker_early` | the same | **violated**: ticks come early without interruption or flush |

Why the bounds are enough: with a queue of one and two jobs a job is dropped,
queued or taken; two workers finish in either order; two flushes give
three WaitGroups; and what is said of the counters, the barrier and the
refinement is proved for every instance; two requests contend for the mutex and
for the profiler; three colliding keys give lists with a first, inner and last
element; the stacks have an inlined call of three functions, its fake address as a
leaf, a stack cut off inside it, recursion, C frames, `runtime.goexit` alone, and
runtime frames at the leaf, and two samples let each of them follow each other;
six runes are the shortest name with a label that is not empty;
two buckets on one stack are the smallest case of a duplicate, and a third on
another stack shows interference.  Rate 3 gives every phase of the clock of the
session, which runs for more than three periods; a period of 6 units leaves room
for several early ticks.

The four violated properties restate a comment of the code and are described in
`findings` in `PROJECT.json`.

`CHECK_DEADLOCK FALSE` is used where the bounded system comes to rest: all jobs
are settled, the clock has reached its bound, a name has been received, or the
collector has crashed (`TickZero`).

## 4. Fairness

* `Remote`: a goroutine that can take a step takes one (weak fairness).  The HTTP
  client has a timeout of 30 seconds (`api.go`), so a request ends and a worker
  makes progress; a client supplied through `Config.HTTPClient` must have one too.
  `FairSpec` asks this of the callers only, so `UploadReturns` is shown for a
  server that never answers; `WaitsEnd` assumes the workers'
  fairness (`WorkerFairness`) in its statement.
* `Profiler`: strong fairness for cases of a `select` and for
  `Lock`, since a select chooses at random among ready cases and Go's mutex
  hands itself to a waiter after a millisecond; weak fairness for steps nothing
  can disable.  Requests end by their deadline.  No tick, request, Flush or Stop
  is ever obliged to happen.
* `Delta`: the goroutine inside `Profile` runs.
* `Session`, `DeltaWriter`, `AppName`, `Ticker`: safety only, no fairness; that a
  waiting tick is taken in time is the bound `MaxLate`.

## 5. Proofs

`ProfilerProofs` begins with the registry.  It proves, for every number of requests,
setters and collectors, that `RegSpec` implies the always-truth of `RegTypeOK`, `SameCollector`,
`RefCounts`, `NoForgottenSetter` and `LastRequestWins` (theorem `RegistrySafe`).
The assumptions are those of `Registry`: the default collector is one of the
collectors, nil is not, requests are finitely many at a time, and nobody is
called `None`.  The inductive invariant adds two facts:

* `Holder`: a request is inside a collector call exactly if it holds the mutex.
  Without it `SetCollector`, which needs the mutex, could change the collector
  while a request is inside `StartCPUProfile` and not counted yet.
* `NewestClosure`: the last closure on the chain is for the collector asked for
  last; it is what the last `StopCPUProfile` installs.

`RefCounts` is carried by lemmas about the cardinality of the set of requests
taking a profile (it grows, shrinks or stays), and `SameCollector` rests on it:
the collector changes only when `ref` is zero, when no request takes a profile.

It then proves a lemma, that the whole profiler implements `RegSpec`
(`ProfilerUsesRegistry`), which holds by the way its actions are composed: the owner,
the users and the application leave the registry alone, the loop and the collector only call `SetCollector`, and
a request goes through the registry's steps, whatever the collector answers.  The
registry's invariants follow for the profiler (`ProfilerSameCollector`,
`ProfilerNoForgottenSetter`) without a second induction.

The rest of the module proves the profiler's own invariants, for any requests and users:
`OneProfilePerUpload`, `ForegroundDelivered`, `AlwaysProfiling`,
`FlushUploadsCpu`, `StoppedIsQuiet`, the action property `ForegroundNotCut`, and
`StopRestoresDefault` under the hypothesis that CPU profiling is enabled and Stop
does not overtake the registration (without it the property is false:
`MCProfiler_prompt`).  What has to be assumed is that the names of the profiles
and of the goroutines are distinct (`NameAssumption`).  The inductive invariant
`ProfInv` has four groups of parts:

* who is in which call: a client has an event exactly while it is in a call of
  the collector (`EventInv`), and the collector in the middle of a reset serves one
  client that is still waiting (`ServeInv`); without them an answer could reach
  a request that is doing something else;
* how far Start and Stop have got (`LifeInv`), which collector was asked for last
  (`AskInv`, `RestoreInv`), and that nothing is owed to a user once the reset for
  his flush has begun, or, if it was refused, the foreground profile has ended
  (`OwedInv`);
* what the flags mean: `c.started` exactly if one request has a foreground profile
  (`StartedInv`), the runtime takes the profile of a request only between its Start
  and its Stop (`RuntimeInv`);
* where a profile is: `c.buf` is empty while one is being written to it
  (`BufferInv`, the reason for one profile per upload); a foreground profile is in
  the runtime, or complete in `c.buf` and in the response and not uploaded yet, or
  uploaded (`DeliveryInv`); and without application profiles whoever started a
  profile still has it (`OwnInv`).

`RemoteProofs` proves about the upload queue, for any callers, flushers, workers
and jobs, any capacity above zero and any number of flushes:

* `RemoteSafe`: `TypeOK` (with the channel's capacity), `WaitGroupCounts`,
  `PostedAtMostOnce`;
* `RemoteNoAddDuringWait`: `NoAddDuringWait`;
* `RemoteFlushBarrier` and `RemoteRefinesUpstream`: `FlushBarrier` and
  `RefinesUpstream`, if one goroutine flushes.

Jobs and workers are assumed finite, and nobody is called `None`.  The inductive
invariant `RemInv` says who has a job to himself at each point of its life: the
Upload that offers it (`Carried`), the channel (`Channel`), a worker (`InHand`);
this makes every `Done` hit a counted job and every attempt the first.  `Mutex`
keeps the swap of the WaitGroup out of Upload's critical section.  Two facts carry
the barrier: an unsettled job belongs to the current WaitGroup or to one that some
Flush waits for (`Numbered`), and what was queued before a Flush belongs to the
Flush's WaitGroup or an earlier one (`Behind`).  With one flusher the WaitGroup
waited for can only be its own; with several it can be somebody else's, and there
the proof, like the property, stops.  `RemInv` was checked with TLC on instances
with one and with two flushers before it was proved.

`TickerProofs` proves, for every period of at least two units and every delay,
that a background profile is ended before it is `2 * (Dur - 1) + 2 * MaxLate` old
(`TickerUploadedInTime`) and that a start that failed is tried again within
`Dur + MaxLate` (`TickerRetriedInTime`).  Neither is inductive, since nothing in
them bounds what happens at the next tick.  The invariant `IInv` bounds
`age + due`, the age at the next tick, which passing time does not change: a
reset makes it at most `Dur`, an early tick at most twice the age of a profile that
was too young.

`SessionProofs` proves all five invariants of `Session`, for every upload rate and
every set of profile types (only kinds the code knows, `KindAssumption`).  For
the windows the invariant relates the tick in the channel, the window in progress
and the start of the next one: while nobody flushes a waiting tick is later than
both (`TickInv`); a tick is put in the channel at a time later than anything the loop
remembers (`ClockInv`).  `OnlyFailedMissing` speaks of finished snapshots and needs
`PassedInv`, which says it of the kinds `uploadData` has passed so far;
`SpoilsOneUpload` needs `BufferInv`, which counts a rest that is still in the buffer
as an upload it may spoil (a successful upload takes all of them along);
`NoCollectionMissed` needs that the generation read before the profile is not in
the future (`GenerationInv`).

`DeltaProofs` proves `DeltasAddUp`, `OneSamplePerStack` and `HealsAfterPanic` for
any finite set of buckets (`FiniteBuckets`), any assignment of them to stacks, any
clock rate and delays.  A sum over buckets is the size of a set, one element per
unit, so that the library's theorems on cardinality give what the proofs need: a
record adds its number, the sum grows with its parts, it is zero if they are.
`DeltaInv` says what the entries hold in each loop.  In the first, `acc` is the sum over
the records visited (`FirstInv`).  In the second a key is `Waiting` (its sum is
complete and none of its counting records was visited) or `Done` (cleared,
reported once, `prev` is the sum); no third state exists, which is why a second
record of the stack finds `acc` zero and is skipped.  After a panic these facts
are lost and come back one profile apart: `acc` is clean after one complete block or
mutex profile (`Sound`), `prev` after two (`Right`).  `NoneYet` covers stacks the
loops never visit because nothing was counted.

`DeltaWriterProofs` proves `SameEntry` and `ListsIntact` of `ProfMap`,
`IdsDistinct`, `InlineChains`, `SkipsOwnFrames` and `HasFunctionsRight` of
`ProfileBuilder` and `SamplesReadAsStacks` of `DeltaWriter`, for any keys, hash
function, addresses, frames and stacks, under the assumptions of section 2,
`RestAssumption` and `FramesAssumption` (what is behind an address is a sequence of
addresses, and so are its frames one of frames) and `NoKeyAssumption`.  Nothing bounds the number of profiles or
the order of stacks.

* For the map, `MapInv` says that there is a numbering `pos` of the entries such that
  each list is its entries in increasing order (`Ordered`), and a search in progress
  has not passed the entry of its key (`Search`).  A move to
  the front gives the entry a number below all others, so no list
  ever has a cycle or loses an entry.  `ListsIntact` talks about walks of `n` steps;
  a walk passes one entry per step (`Progresses`), so it has ended after as many
  steps as there are keys.
* For the builder, `BuilderInv` says that a completed stack, and what is left of it
  after any turn, is `Whole`: each address is followed by everything it is inlined
  in; that the deck holds the beginning of a physical frame which is not cached and
  which the stack continues (`DeckInv`); that the cache and the locations written
  hold whole frames; and that a mapping's flags are the results of the lookups in
  it (`MemInv`).  `InlineChains` alone is not inductive: the deck holds half a
  frame, and a cached location is skipped on the strength of its first address.
* For the samples, `WritingInv` (together with `BuilderInv`) says at every turn of
  `LocsForStack`: what a reader finds behind the ids so far, followed by the
  functions of the addresses in the deck and of those left on the stack, is what the
  whole stack stands for (`ReadInv`).  A cached location may be used because the cache
  leads to a location with the same addresses (`CachedInv`) and because the stack
  begins with all of them, which is `BuilderInv`'s `Whole`; this is where dropping too
  few or too many addresses would show.  Locations and functions are only ever
  appended, so what earlier samples read does not change (`NamedRight`,
  `SamplesInv`).  `HideInv` covers the second attempt with all frames shown: it is made
  only for a stack that lies in package runtime altogether.

`AppNameProofs` proves both properties of `AppName`, for any alphabet and tags and for
configured names of any length (`MaxLen` bounds the run only).

* `NamesTagsTakePrecedence`: the tags are merged in the order of a Go map, any order.
  `MergeInv` gives the labels in closed form, as a function of the set of tags merged
  so far (`Merged`), so the order cannot matter.
* `NamesReceivedAsSent`: `SentInv` says that every label of the names being built can
  be written: its name is valid, its value has no separator and no space at its ends
  (`Fit`); for the values of the configured name because the parser ends them at the
  separator and trims them.  The service name is that of the configured name, which
  the property's premise says is valid.  `ReceiveInv` relates the receiver's parser to
  the name it reads: in each state, what the parser has collected and what is left
  of the input make up the name, label or value at hand followed by the text
  of the labels after it, and the labels read are those before it (`Reads`).
  It holds whatever the order in which the labels are written.

`SequenceFacts` has what these proofs share.  Induction over naturals is stated for
sets instead of predicates (`SetInduction`) and derived from the library's theorem on
minimal elements (`WFMin`); walks, what is inlined in what and all the facts on
sequences of any length go back to it.  `FlattenSeq` is recursive; that its equation
has exactly one solution (`FlatExists`, `FlatUnique`) makes it a definition to reason
with, and that it takes concatenation to concatenation (`FlatConcat`) is what
`ReadInv` and `Reads` need.

`ProfInv`, `SessionInv`, `DeltaInv`, `BuilderInv`, `WritingInv` and, with names of up
to 5 runes, the invariants of `AppNameProofs` were also checked with TLC, on the
instances of the runs.

What stays with TLC is liveness (`FlushReturns`, `StopReturns`, `RequestReturns`,
`UploadReturns`, `WaitsEnd`, `ProfileEnds`): the prover has no support for fairness.
Every safety property of a passing run is proved.

`TypeOK` of `Remote` and of `Profiler` and `RefCounts` and `LastRequestWins` of
`Registry` are proved, and not checked by a run.

## 6. Not modelled

* Scaling of heap samples: floating point (`ScaleHeapSample`).
* The protobuf encoder, the string table, gzip and the ELF reader: the encoding of
  what `ProfileBuilder` decides.
* Baggage (`x/k6`): stateless wrappers around the next handler, with
  OpenTelemetry's parser.  The delta profile HTTP handlers: each calls `Profile`.
* In `labelset`, the accessors and tree keys that the library does not use.  A tag
  value, or a runtime version, with a comma or a brace is not escaped and reads back as
  something else (no property claims otherwise); a
  label `__name__` in the braces of a configured name replaces the service name
  without being validated (`ReceivedAsSent` excepts it); an empty name is
  refused, though a comment (`semconv/labels.go:72`) allows it, and the names
  returned are in the full form, though it calls them short (`labels.go:68`).
* Second calls of `Stop`, and calls of `Flush` after `Stop`: the latter block for
  ever (`FlushReturns` excepts them); the former panic in `Remote.Stop`.
* A `Flush(true)` during a foreground profile is refused by the collector, on purpose
  (`collector.go:166`); the loop drops the error, and the call returns although
  `api.go:109` promises to wait for all profiles.  `FlushUploadsCpu` says what is then
  missing (the foreground profile) and `ForegroundDelivered` that it is uploaded when
  the request ends.
* The HTTP request's headers and encoding.
* Nothing is claimed for CPU profiles the application takes with `runtime/pprof`
  itself: a reset of the collector stops them, so that profiling does not wait
  for them to finish as a comment (`collector.go:92`) has it.
* The logger, constants, examples and compatibility tests.

## 7. Plan

Done: the upload queue with its abstract specification, the registry, the CPU
collector and its ticker, the whole profiler, the snapshots, the delta profilers
with their map and the profile builder, application names, and the proofs of
section 5: every safety property of the passing runs.

Left: a composition of `Profiler` with `Upstream` (instead of the assumption that
`upstream.Flush()` returns).
