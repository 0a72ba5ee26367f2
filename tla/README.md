# goark-log in TLA+

This directory is a verification development for goark-log, the logging
framework in `../src`. It holds TLA+ modules translated from the Go code, the
TLC configurations that check them on small instances, and theorems that TLAPS
checks for every value of their constants.

- `PROJECT.json` lists the components, the runs, the mutants each property
  kills, the source lines each definition stands for, the hazards of the code
  and the theorems.
- Line numbers in this file and in `PROJECT.json` are those of `../src`; a path
  without a directory is under `src/`, and `docs/` is `src/docs/`.

Contents: [the system](#1-the-system) · [modules](#2-the-modules) ·
[runs](#3-what-the-runs-check) · [disagreements](#4-where-the-code-and-its-documents-disagree) ·
[fairness](#5-fairness) · [proofs](#6-proofs) · [what is not modelled](#7-what-is-not-modelled) ·
[plan](#8-plan) · [running](#9-running-it)

## 1. The system

A configuration file is decoded, its lookups are resolved, and its filters,
appenders and loggers are built into a runtime. A log call goes from a `Logger`
(slog or native) to the `Handler`, which reads the router's current snapshot,
matches the logger's name to a route, compares level and filters, and appends
the event to the route's appenders. That happens on the caller's goroutine, or,
with the asynchronous logger, on one worker goroutine that the caller reaches
through a ring buffer. Appenders may queue again (async appender), choose among
others (failover, routing, rewrite), and write streams and files, some of which
roll over, compress and expire. A logger context owns a handler and, if asked
to, a monitor that reloads the configuration file when it changes.

```
 file ── decode, resolve, levels, filters, appenders ──▶ runtime
                                                            │
 callers ──Handle──▶ Handler ──plan──▶ router.current (atomic snapshot)
             │          │                    ▲ swap: SetLevel, Reload, Close
             │          ├─ sync ─▶ route ─▶ filters ─▶ appenders
             │          └─ async ─▶ ring ─▶ worker ─▶ route ─▶ appenders
             │                                             │
             │                        async appender: ring ─▶ worker ─▶ delegates
             │                        failover, routing, rewrite ─▶ delegates
             │                        file, console, JSON: buffer ─▶ stream
             │                        rolling file: active ─▶ archives ─▶ gzip, expire
 LoggerContext ── monitor ─▶ ConfigReloader ─▶ Handler.Reload
```

| Part (under `src/`) | State | Operations | Hard behaviour | What makes it correct | In |
| --- | --- | --- | --- | --- | --- |
| Ring, `internal/disruptor/ring_buffer.go`, `wait_strategy.go` | cursor, gating sequence, a mark and an element per slot, two token channels | `TryPublish`, `PopBatch`, `WaitWritable`, `WaitReadable` | lock-free: loads apart from the CAS, publication apart from the claim, one wakeup token for a batch | order, no overrun, no data race on a slot, "full" only when full, no lost wakeup | `DisruptorRing` |
| Barrier and processor, `internal/disruptor/barrier.go`, `processor.go` | alert flag and channel, halted channel | `WaitFor`, `Alert`, `ClearAlert`, `Run`, `Halt` | an alert cleared before the waiter wakes; halted with a token in the channel | waits end; `Halt` drains, unless the context ends | `RingConsumers` |
| Async appender, `internal/asyncappender`; async logger, `internal/asynclogger` | ring, closed flag, producers' count, the worker's batch, counters | `Append` under four overflow strategies, the worker's loop and drain, `Close` | callers blocked on a full queue while `Close` runs; the order of closing | accepted events reach the sinks once; `Close` drains and returns; drops counted | `AsyncPipeline` |
| Handler, `handler_runtime.go`, `handler_part*.go` | async logger, router, context attributes | `Handle`, `Close`, `Reload`, `SetLevel` | a log call holds a snapshot that a reload retires | the snapshot in use is open; nothing stays open after `Close` | `HandlerLifecycle` |
| Router, `internal/router` | base runtime, level overrides, current snapshot | build, plan of a name, `SetLevel`, `Replace`, `Close`, dispatch with a fast path | derived snapshots, inheritance, reference gates, two ways to write one event | nearest prefix decides the level; levels move no outputs; written once per appender | `LoggerRouting` |
| Config reloader and logger context, `config_reloader.go`, `logger_context.go` | last signature, monitor, active runtime | poll, `ReloadConfigured`, `Close` | the file changes at any time; loads fail; `Close` meets a reload | the active runtime is open, none leaks, the monitor catches up | `ConfigReload` |
| Rolling file, `internal/rollingfile`, `internal/rolling/compress.go` | active file, archives, next index, action queue | `Append`, rollover, compression, retention, `Close`, restart | failed file operations, crashes, worker beside the caller, indexes and names | no acknowledged event lost, archives ordered, retention keeps the newest | `RollingFile` |
| Rolling schedules and delete actions, `internal/rolling/schedule.go`, `cron.go`, `delete.go` | the next rollover; none | next time, files to remove | boundaries of days, weeks, zones and ranges; events that come late; equal times | no event in a file opened before a boundary it is behind; the newest stay | `RollingHelpers` |
| Configuration files, `internal/configfile`, `configprops`, `configxml`; levels and lookups | the `fileConfig` under construction; the level registry | decode five formats, resolve, register levels, build filters | a Go map is visited in any order; one of many steps fails | the outcome is that of the document and not of the order; levels keep their numbers | `ConfigLoad` |
| Appender construction, `config_appender_*.go`; delegating appenders, `internal/delegating` | list built so far; a route cache | build in passes, `Append`, `Close` with and without delegates | building fails half-way; delegates shared; async among them | what can be built is built; what is opened is closed, once for each owner; accepted is written | `AppenderGraph` |
| File, console and JSON appenders, `internal/fileappender`, `jsonappender`; headers and separators of `internal/layout` | file, buffer, started flag, event counter | `Append`, `Flush`, `Close` | lazy opening, short writes, bufio's kept error, several sinks on one path | the file is what was given to it; an acknowledged event is kept | `FileSink` |
| Filters, `internal/filter`, `internal/plugin/filter.go` | the burst filter's bucket | decide, compose | concurrent callers on one bucket; refill at boundaries; nested composites | the rate is kept exactly; the verdict is the first that decides | `FilterChain` |
| Async options, status log, plugin registry, native logger, events, public API, tools | see section 7 | | | | not modelled |

How they interact: the async parts use the ring only through its four
operations; the handler calls async logger and router and never the ring; the
router's snapshot is the only state a log call shares with `SetLevel`, `Reload`
and `Close`; the logger context and its monitor change the handler only through
`Handler.Reload` and `Handler.Close`; composites call their delegates like the
router calls them; the rolling appender is called like any other appender and
shares its files with its own worker; the level registry and a burst filter's
bucket are shared by everything in the process that names them.

## 2. The modules

| Module | Models | Composition |
| --- | --- | --- |
| `BoundedFifo` | what the ring promises: a FIFO of at most `Capacity` elements | abstract |
| `DisruptorRing` | the ring, one action per atomic operation or channel operation | implements `BoundedFifo` (`ImplementsFifo`) |
| `RingConsumers` | processor and barrier over the ring's own steps | extends `DisruptorRing`; implements its `Spec` |
| `AsyncPipeline` | async appender and async logger | the ring as the FIFO, with claim and publication kept apart |
| `HandlerLifecycle` | handler, router snapshots, async logger, async appender over a plain one | both queues as those of `AsyncPipeline`, with room for all events |
| `ConfigReload` | reloader, monitor, logger context | a reload's swap and retirement as `HandlerLifecycle` shows them, in two steps |
| `RollingFile` | rolling appender on a file system that fails, in a process that dies | |
| `LoggerRouting` | building a runtime, overrides, plans, dispatch | the data half of the handler; `HandlerLifecycle` is the concurrent half |
| `ConfigLoad` | from the opened file to the `fileConfig`, the levels and the filters | its references are the input of `AppenderGraph` |
| `AppenderGraph` | building, using and closing composites | an async appender as an unbounded queue |
| `FileSink` | file, console and JSON sinks | |
| `FilterChain` | filters and the chain | |
| `RollingHelpers` | the next rollover by time, delete actions | what `RollingFile` takes as a free choice (`TimePolicy`) |
| `MCParts` | the last five side by side, each behaviour one of one of them | they share no variable |
| `RingConsumersProofs` | theorems about the ring and its consumers | extends `RingConsumers` |
| `DispatchProofs` | theorems about routing and the async parts | extends `LoggerRouting`, `AsyncPipeline` |
| `HandlerLifecycleProofs`, `RollingFileProofs`, `AppenderGraphProofs` | theorems | each extends its module |
| `SinkProofs` | theorems about sinks | extends `FileSink` |
| `PartsProofs` | theorems | extends `ConfigReload`, `ConfigLoad`, `FilterChain`, `RollingHelpers` |
| `CountingLemmas` | lemmas about sequences, sums and least counterexamples | used by the modules of theorems |
| other `MC*` | model values and inputs for TLC | extend the above |

### How state and actions correspond to the code

**DisruptorRing.** `cursor` and `gating` are the two atomics of `RingBuffer`;
`published[slot]` and `value[slot]` are the fields of a slot, indexed by
`next & mask` (`SlotOf`). `readable` and `writable` say whether the channel of
capacity one holds a token; `signalOnce`, which drops a token when there is one,
sets them. A producer's `pc` walks through `TryPublish`: load the cursor,
compare with the gating sequence, CAS, write the element, store the mark, send
the token. The CAS, an atomic, either claims or sends the producer back to the
load. `WaitWritable` is its own two loads and the arms of the select. `cpc`
walks through `PopBatch` and `WaitReadable` likewise. `Poll` is a strategy that
looks again by itself. `limit` in `PopStart` is the room a partly filled batch
leaves. `order` and `delivered` are history variables.

**RingConsumers.** `client` says whether the goroutine that consumes runs a
`BatchEventProcessor` or waits at a `SequenceBarrier`. The processor's `Run`
uses the ring's `Pop` and `AwaitReadable` as they are; `halted` is the closed
channel, and the select between it, a token and the context may take any that is
ready (`RunInterrupted`, `RunCancelled`). A `Run` whose context ended is in mode
`failed`: it has returned an error and drained nothing. `WaitFor` is its checks one by one: alerted?, published?,
take the channel (`held`), the strategy's loop with its ready function.
`ClearAlert` makes a new channel, so an alert is known by its `generation`, and
its context may end as well (`WaitCancelled`).
`mark` remembers how far elements were published without a gap when `Halt` came.

**AsyncPipeline.** `queue` holds claimed elements and whether each is published;
`PopBatch` takes any part of the published prefix, since an element may be
published just after the scan passed. `pc` is where an `Append` call is: `begin`
(before the read lock of `beginAppend`), `check` (the select on `closing`),
`try`, `publish`, `blocked`, `retry` (`enqueueBlocking` tries again), `sync`
(sync-fallback writes on the caller's goroutine). `InFlight` is what the
producers' WaitGroup counts. `worker` and `batch` follow `run`, `flushBatch`
and `drain`. `closer` follows `Close`: set `closed`, wait for the producers,
close `done`, wait for the worker, close the delegates. The async logger is the
same code with a dispatch function in the place of the delegates, and with
`CloseAppenders = FALSE`.

**HandlerLifecycle.** `base`, `override` and `current` are the router's fields;
`RouterClose` sets `base` to nil and keeps the snapshot, as the code does. A log
call reads `current` once (`Handle`) and appends later, so that a reload or a
close can come between. With the asynchronous logger the worker reads the
snapshot anew (`WorkerTake`), as `dispatch` does, and compares the event's level
with it. Each configuration has an asynchronous appender that delegates to a
plain one, so that the order of `runtimeConfig.close` matters. `Actors` are the
goroutines that call `Close` or `Reload`; the mutex of the router is the
atomicity of `RouterClose`, `Replace` and `SetLevel`, and the appenders are
closed outside of it, as in the code.

**ConfigReload.** A runtime is a number; `loaded` says which version of the file
it was built from, `open` which runtimes have open appenders. The monitor's
tick is `Poll` (compare signatures), `Load` or `LoadFails`, `Swap` or
`SwapRefused` (a closed router), `Retire` or `RetireFails` (closing the old
runtime reports an error), `Sign` (the signature is taken from the file as it
is then). `ReloadConfigured` is the same without the signature. `Close` cancels
the monitor, waits for it, and closes the handler. The signature of a file,
which contains a digest of its bytes, is its version.

**RollingFile.** One thread, the holder, stands for all callers since `Append`
and `Close` run under one mutex. `active` is the active file, `plain` and `gz`
the archives by index; an event is a number of size one. The holder's `pc` goes
through the constructor (`Construct`: clean the history, open or leave that to
the first `Append`) and through `Append`: open if the file is closed, decide on
a rollover, choose an archive (`PickNext`, `PickMin`, `RotateMin`), rename,
reopen, hand the action to the worker or execute it, write. A direct write
(`directWrite`) has no active file: `Create` makes the archive that is written.
An action is compression (`CompressFileTo` with each of its failures), removal
of the source, retention by count, age and total size: the archives are listed
and condemned in one step (`List`, `Condemned`) and removed one by one (`Sweep`),
each of which may fail or find its archive gone (`SweepFails`), while the holder
rolls over and rotates. The same actions serve holder and worker (`At`, `To`).
Without `append` an opening truncates (`OpenFile`); `truncated` and `started`
record what that took and when. Every other file operation may fail too, with the
file left as the code leaves it: `OpenFails`, `PickFails` (flush, name),
`RotateFails` (half-way), `RolloverFails`; `Sticks` is a flush or `Close` whose
error bufio or the appender keeps, after which every `Append` is refused. `gzAt` follows an open
compressed file that a rotation renames under the writer. `Crash` keeps the
disk, including half a compressed file, and drops the rest; `Restart` is the
constructor with its search for the next index, after a crash or after `Close`.
Ages are not counted: while indexes go up, those old enough are the lower ones,
any number of them (`AgedSets`). `NewestIsFound` names the conditions under
which a file that is opened goes on above the newest archive, `NothingPending`
the one of them that concerns the worker.

**LoggerRouting.** A name is a sequence of characters because the rules compare
prefixes up to a dot, count dots and use lengths. The sorted list of loggers is
a set from which the one with the largest sort key is taken
(`loggerSpecificity`: 1024 per dot plus the length). `Build`, `Overridden`,
`PlanFor` and `Writes` are `buildRuntimeConfig`, `applyLevelOverrides`,
`routePlanFromConfig` and `LogAttrs`/`Handle`. A list of references that the
code filters or joins (`JoinUnique`, `Wanted`, `Writes`) is a function on the
positions that stay, which keeps order and repetitions: only an inherited
reference is compared with those already there, so a logger that names one
appender twice writes to it twice. A log call runs on one snapshot; `verdict`
is what each filter says of the event.

**ConfigLoad.** A document is a sequence of entries in one of five formats; an
entry says one thing of one object, in one spelling, perhaps inside a wrapper.
`loadStage` follows `loadConfigFile`: decode, finalize, resolve, levels,
filters. YAML, JSON and TOML decode at once and refuse what they do not know;
XML skips it (and drops some integers that do not parse); a properties file is applied one key at a time in any order
(`ApplyProperty`), because the code ranges over a map, and so is the map of
custom levels (`RegisterLevel`). A text is a sequence of words, escapes and
`${ns:name}` expressions, and `Resolve` is the resolver's one pass. Status and
monitor interval are resolved before the properties are known
(`BeforeProperties`). What a document *means* (`Meant`, `Said`) is written from
the docs and not from the resolver. `registry`
outlives the load, as the process-wide level registry does.

**AppenderGraph.** `spec` has the named specifications, `pass`, `remaining` and
`progress` the loops of `buildAppenders`; `fault` makes one factory, one set of
filters or the options fail. `Landing` is `Append` of every kind of appender: in
which sink or async queue an event ends. `HandOn` is an async worker's
`appendSync`. `CloseCalls` counts the `Close` calls that one `Close` makes, with
the rule of `closeUniqueAppenders` (`UniqueDelegates`: delegates told apart by
`Name()`, their `title`, which several may share). `Resolutions` are the outcomes
of a composite's references; the routes of a routing appender are a Go map, any
of which may decide first. A graph comes from a configuration, whose list is closed by the router, or from code,
which closes its top.

**FileSink.** A stream is a sequence of cells: header, footer, separator, and
two halves of an event, so that a full buffer or disk can cut one. `OsWrite` is
a `write(2)` that may be short, `BufWrite` and `FlushWriter` are bufio with its
kept error, `OpenLocked` writes a header into an empty file only and undoes
itself when that fails, `Closed` writes the footer and flushes. Each method
holds its sink's mutex to the end, so a call is one action. A constructor whose
header cannot be written leaves no sink, but it has truncated its file
(`NewSink`, `Overwritten`). `ProcessDies` takes the buffers along.

**FilterChain.** `BuildSection` and `RefusedSection` are the factories with
their defaults and refusals: of a decision, of a number, level, time or zone that
does not parse (`Garbled`), of a text or expression (`Malformed`), a `maxBurst` of
0 being the default. An event without a time is dated when a time filter is
asked (`Moment`), and its error is its own or that of an attribute
(`ErrorString`). Callers run the chain at the same time, a stack of
`frames` each; a burst filter's decision is one action under its mutex on
`bucket`. Tokens are counted in integer units of the rate.

**RollingHelpers.** Time is counted in ticks, two to a second. `NextInterval`
and `NextCron` are `NextRolloverAfter` and `CronSchedule.Next`; `Arrive` is how
`Append` uses them, an event's time being any instant. `Condemned` and `Sweep`
are a delete action on a listing in which others write too (`Touch`).

Comments that begin with "Mutant:" and the operators named as variants of
another (`ReplaceLate`, `CopyThenRemove`, ...) are used only by the `mutants` of
`PROJECT.json`; they are no part of the model. Each mutant puts one of them in
the place of the definition that follows it and must break the property it is
listed with.

## 3. What the runs check

| Run | Instance | Properties |
| --- | --- | --- |
| `ring` | 2 producers × 2 elements, 2 slots, batch 2, parked or polling, one alert, fair | `RingInvariant`, `NoDataRace`, `NobodyStranded`, `HaltDrains`, `FullIsTrue`, `ImplementsFifo`, `WaitsEnd` |
| `async` | 2 callers × 2, capacity 2, batch 2, 2 closers, four strategies, one event the delegates refuse, fair | `CloseDrains`, `EveryEventAccounted`, `CallerOrder`, `NoWriteAfterClose`, `CallsReturn`, `AcceptedIsHanded` |
| `handler` | 2 loggers, 2 reloads, 1 close, 1 `SetLevel`, sync and async, fair | `CurrentStaysOpen`, `NothingStaysOpen`, `CloseDrains`, `CallsReturn` |
| `reload` | 3 versions of which the second is bad, 1 failure of a load or a retirement, 2 explicit reloads, 2 closes, 7 runtimes, fair | `ActiveIsOpen`, `NothingLeaks`, `ClosedForGood`, `MonitorAnswers` |
| `rolling` | 4 events, files of 1, 2 backups, queue of 1, an old archive, 1 failure, 1 crash, a time policy that may ask at any `Append`, 10 setups, fair | `NothingLost`, `ArchivesInOrder`, `ActionsDoneAtClose`, `RetentionKeepsNewest`, `CallsReturn` |
| `routing` | names `a`, `ab`, `a.b`, `a.b.a`; 2 levels; at most 2 overrides; 34 configurations; 2 filters | `PlanIsNearest`, `OutputsKept`, `DeliveredOnce` |
| `parts`, sinks | 2 of 8 sinks on 4 paths, 3 events, one fault (the disk fills, or the process dies) | `FilesTellSessions`, `AcceptedIsKept` |
| `parts`, filters | 2 callers, 3 events, 3 steps of the clock, every kind of filter, nested and shared | `BucketIsExact`, `VerdictIsMeant` |
| `parts`, load | files of at most 3 entries in each format, 2 loads | `OutcomeIsMeant`, `LevelsAreKept` |
| `parts`, appenders | all graphs of 3 appenders over 10 lists of references, one fault of the build, one broken sink, 2 events; the graphs `MCCodeGraphs` builds by code, with distinct and with equal titles | `BuildsWhatItCan`, `NothingStaysOpen`, `AcceptedIsWritten` |
| `parts`, rolling | 8 policies over 30 ticks, any sequence of events; delete actions over 4 files, 2 of 6 actions, one write between | `BoundaryRolls`, `SweepIsMeant` |

What they show, in short: within the bounds, every interleaving of the code's
steps keeps these properties. The comment before each property says what it
means and which code could break it. The runs of section 4 show where a document
or a comment promises more.

The five parts of `parts` share no variable; `MCParts` picks one of them for a
behaviour and the others stand still, which checks them as five runs would.

**Why the bounds suffice for the interesting cases.**

- *Ring.* Four elements over two slots use each slot twice, so a mark of an
  older lap can be met; two producers are enough for a lost CAS, for the gap
  between an early claim and a late publication, and for two sleepers that one
  token must serve. Where the consumer is halted or waits at a barrier, two
  elements are offered in all (`MaxOffered`): one that is there and one that
  comes late; one more with polling. `MaxAlerts` lets a waiter hold a channel
  that was closed and replaced. The theorems of section 6 have none of these
  bounds.
- *Async.* Two callers of two events overfill a queue of capacity two with the
  worker's batch taken out, so each strategy meets the full queue; a batch of
  two lets `drain` end with a part of a batch.
- *Handler.* Two reloads can overlap with each other, with `Close`, and with a
  log call that read the first snapshot; each logger logs one event because
  what matters is where in its call the others meet it.
- *Reload.* Three versions with a bad one in the middle allow a failed load
  followed by a good one; the monitor and an explicit reload overlap.
  `MaxRuntimes` is more than the versions, the failure and the explicit reloads
  can build, so it stops nothing.
- *Rolling.* A file of one event rolls over at each `Append`; two backups with
  four events and an old archive make retention remove something; a queue of one
  makes the holder wait for the worker. The setups are both index modes and
  direct write, with and without gzip and a worker, and each of
  `rolloverOnStartup`, `cleanHistoryOnStart`, `append: false`, `maxAge` and
  `totalSizeCap` in some; not `fileIndex: min` with gzip. `Begin` keeps the index below `MaxIndex`.
- *Routing.* `a` is a prefix of `ab` without the dot and of `a.b` with it;
  `a.b` has no rule of its own in any configuration, so an override adds it
  between two configured loggers. `MaxOverrides` bounds levels set at a time.
- *Sinks.* Two sinks can use one path in turn or together, and the
  constructor of the second can truncate it and fail; a buffer of three
  cells is filled by the second event and cut by it, one of one cell by each.
- *Filters.* Two callers meet in one bucket, also through a composite and the
  chain around it, with rates below, at and above a token a step.
- *Load.* Three entries are what it takes for two spellings and a use, for a
  list and two structured references, for a cycle of filters, or for a property
  of a property. Entries are drawn from one group of entries that can meet.
- *Appenders.* With three appenders a composite can wait for a composite that
  waits for a sink, two can share a delegate, and a cycle can have two members.
- *Helpers.* Days of 12 ticks, weeks of 24, thirty ticks: a day, a week and a
  range end within the horizon.

Symmetry is used in no run.

A run with `CHECK_DEADLOCK FALSE` is one whose system may stop: all calls are
made and answered, and nobody promises another one. Its liveness properties
say that it stops nowhere else.

Liveness is mostly stated as `[]<>` of "no call is on its way": the calls of a
behaviour are finitely many, so this says that each of them returns, and it
costs the checker one formula where a leads-to costs one per caller.

## 4. Where the code and its documents disagree

Each of these is a run whose single property states what a document, a comment
or a test says, and which TLC violates. `PROJECT.json` quotes the line.

| Run | Property | What happens |
| --- | --- | --- |
| `handler_twice` | `CloseReturnsDrained` | A second `Handler.Close` finds the asynchronous logger closed, goes on to close the appenders and returns while the first is still draining; queued events are then refused by closed appenders. |
| `reload_rejected` | `FailedReloadKeepsRuntime` | `Router.Replace` has swapped the snapshot when it returns the error of closing the old one; the callers take it for a failed reload and close the appenders of the runtime now in use. |
| `reload_missed` | `MonitorCatchesUp` | The signature is taken after the load; an edit in between is recorded as loaded and never loaded. |
| `rolling_unpadded` | `RetentionKeepsNewest` | Retention sorts archives by name. With an unpadded `%i`, index 10 sorts before 8 and 9, and the newest archive is the one removed. |
| `rolling_pending` | `PendingArchiveIntact` | With `fileIndex: min`, gzip and background actions, a rollover renames the active file over the archive with index 1 that still waits to be compressed. |

`MonitorAnswers`, which `reload` shows to hold, is `MonitorCatchesUp` but for
versions written while a reload was on its way: that window is the whole
difference. `ActiveIsOpen` likewise leaves out what `reload_rejected` shows.
`rolling` and `rolling_unpadded` differ by the padding of the index, and
`rolling_pending` is the one combination `rolling` leaves out; there
`NothingLost` fails too, since an uncompressed archive that a crash or the queue
left behind is overwritten. `ArchivesInOrder` and `RetentionKeepsNewest` hold in
`rolling` under the exceptions named below, each of which TLC finds when it is
taken out.

**Seen while modelling, without a run.** Some are stated as the exception a
property names; the rest concern parts that are not modelled.

Ring (`RingConsumers`)
- `Halt` says that "`Run` drains the queue before it returns"
  (`internal/disruptor/processor.go:150`). A `Run` whose context has ended returns
  the context's error from its wait and drains nothing, also when it was halted
  as well (`:144`): the select between the two is Go's. `HaltDrains` speaks of a
  `Run` that returns without an error; the next `Run` owes what was left.

Configuration (`ConfigLoad`): `OutcomeIsMeant` states what the documents say, for
documents in which none of the first three occurs (`AsInDocs`).
- `$$` stays doubled in a text that has no `${` (`internal/lookup/lookup.go:69`),
  where `docs/configuration.md:74` has it stand for `$` (`EscapesRead`).
- XML drops some integers that do not parse; the document promises an error
  (`docs/configuration.md:129`; `XmlDropped`).
- The `overflowStrategy` of an appender is never resolved as a text with
  lookups, though `docs/configuration.md:60` speaks of all strings (kind `raw`).
- `status` and `monitorInterval` are resolved before the properties
  (`internal/configfile/config_lookup.go:16`), so `${prop:...}` in one of them is an
  unknown namespace and the file does not load. `docs/configuration.md:61` says
  nothing of it; the model and the meaning both have it (`BeforeProperties`).
- In a properties file, a list `appenderRefs` beside structured
  `appenderRef.ID` entries, and two `appender.ID.name` of one value, leave the
  outcome to the order of a Go map (`docs/configuration.md:128`,
  `internal/configprops/properties.go:41`; `NamedOnce` leaves them out).
- Custom levels that a failed load registered stay registered.

Appenders (`AppenderGraph`)
- An async appender that feeds another loses what it still drains: the inner
  one is closed first (`docs/api.md:66`; `AsyncFeedsAsync` is the exception of
  `AcceptedIsWritten`).
- `closeUniqueAppenders` tells delegates apart by `Name()`: of two delegates of
  one owner with one name, two rewrite appenders with the default name say, only
  the first is closed (`internal/delegating/delegating.go:335`,
  `docs/appenders.md:248`). `NothingStaysOpen` excepts them: an owner is counted on
  only where no other delegate of it has the title (`SoleOwners`).
- A delegate of two owners that both close is closed by each of them, so
  twice; for graphs made by code `NothingStaysOpen` says once per owner.

Sinks (`FileSink`)
- A complete-JSON file that is reopened in append mode is no single array
  (`docs/scenarios.md:267`); an event the charset cannot encode still advances
  the separator's counter.
- Two append-mode sinks on one path may write two headers and cut each other's
  events; one that truncates does so under the other (`Shared`).

Filters (`FilterChain`)
- A burst rate of `NaN` passes the check that it be positive and then denies for
  ever; `Inf` with no time elapsed gives `NaN` (`internal/filter/burst.go:30`).

Rolling files (`RollingFile`, `RollingHelpers`)
- With `append: false` an opening truncates (`docs/appenders.md:34`), and an
  opening is also what the next `Append` does after a rollover that closed the
  file and then failed, at the rename say
  (`internal/rollingfile/rollover.go:46`): the events the appender itself had
  acknowledged go with it. `NothingLost` names this as its only exception besides
  what an earlier appender wrote.
- When the flush or `Close` of the active file fails within a rollover the file
  is kept with its error, and every later `Append` is refused (`rollover.go:23`,
  `Sticks`).
- An archive that `os.Remove` cannot remove stays, and the newer ones after it
  still go (`archive.go:266`); `RetentionKeepsNewest` leaves out those of the
  retention under way (`spared`).
- An archive left uncompressed by a crash or a failed action is invisible to
  retention and to the search for the next index, which look for `.gz` only
  (`internal/rollingfile/archive.go:205`, `:300`). If all compressed archives
  expire by age, a restart counts from 0 below it: `ArchivesInOrder` excepts
  gzip with `maxAge`, and with a `totalSizeCap` smaller than one archive, which
  removes all of them too.
- The same search runs when a failed rollover reopens the active file
  (`internal/rollingfile/open.go:12`). Archives that still wait for the worker
  are uncompressed and not found, so the next archive takes an index below
  theirs, and retention later removes the newer one. `NothingPending` excepts a
  failure with gzip in the background.
- `fileIndex: min` removes index `maxBackups`, which at the first rotation is
  the newest archive (`archive.go:64`).
- A delete action whose glob is the default `*` sees the active file too and,
  with `maxCount: 1` or a small `maxSize`, removes it just after it was reopened
  (`internal/rolling/delete.go:107`). Its `maxSize` counts files already
  condemned, so older ones that would fit go too.
- Modulated intervals other than a day are multiples since the zero time, only
  a day begins at local midnight (`internal/rolling/schedule.go:14`).
- Retention compares the event's time with the files' modification times.

Runtime
- The failed counter counts batches (`internal/asyncappender/worker.go:50`)
  where `docs/performance.md:94` has events; `EveryEventAccounted` states what
  it does tell.
- The error handler runs on the worker: one that calls `Handler.Close` waits for
  itself (`internal/asynclogger/logger.go:279`).
- `sort.Slice` is not stable: of two rules with one name, which
  `RoutingAssumption` excludes, the one in force can change with the number of
  rules (`internal/router/runtime.go:65`).

## 5. Fairness

`routing`, `parts` and the runs of a violated invariant have no fairness. Runs
with a liveness property assume:

- *Goroutines that can run, run* (weak fairness on the steps each takes by
  itself): the Go scheduler preempts and starves no goroutine, and a mutex or a
  channel operation that stays possible happens. This is `ProducerSteps`,
  `Runs \/ Waits`; `AppendRuns`, `WorkerRuns`, `CloseRuns`; `HolderRuns`; and
  so on.
- *Callers promise nothing.* No fairness on beginning a call, on edits of the
  file, on cancelling a context, on `Halt`, `Alert`, failures or crashes. One
  exception in the ring: a caller told "full" does decide to give up or to wait
  (`Decides`), as both strategies' code does at once.
- *A select with two ready arms does not ignore one for ever.* Go chooses at
  random. In `ConfigReload` this is strong fairness of `StopMonitor`, because a
  tick that is due disables and enables it again; in `RingConsumers` strong
  fairness of `RunInterrupted`, because a polling timer does the same.
- *A caller woken when there is room.* `AsyncPipeline` lets a blocked caller
  continue when the queue has room; that the one token of the ring is enough
  for that is shown by `NobodyStranded` and `WaitsEnd` in the ring.

The CAS loop of `TryPublish` ends because the elements of a run are finite: a
failed CAS means that another producer's succeeded.

## 6. Proofs

Checked by TLAPS from the named assumptions on the constants only, which TLC
evaluates in every run of the module, and from two more where stated below. Most
of the assumptions are types and signs; those that say more are these, and what
they exclude is nothing the code meets:

- `CodeAssumption` (`AppenderGraph`): code makes an appender before the one that
  refers to it, so a graph made by code has no cycle. A configuration may have
  cycles. Titles may be any, also equal.
- `SpecAssumption`: no configured appender closes its delegates; there is no
  option for it.
- `FilterAssumption`: the filters refer to filters that are there, without a
  circle. `buildFilters` refuses anything else, which is `ConfigLoad`'s matter.
- `SinkAssumption`: an empty disk has room for what one call writes at most, three
  cells, and for a full buffer. The theorem on contents speaks of a disk that
  has not been filled.
- `RoutingAssumption`: no two rules of a configuration have one name.
- `LoadAssumption` (`ConfigLoad`): what the parsers yield. A wrapper around the
  document is of YAML, JSON and TOML, XML and properties files have one root or
  none; an alias of a name is of properties files, and never of the async section;
  a field has one of the spellings of its kind; what a filter or a list names is
  a word each. A document may have any number of entries of any contents.

**Where the prover has no induction.** The induction theorems of the library take
an operator and cannot be instantiated here, and a recursion (`LET f[i \in S] ==`)
is a `CHOOSE` until some function is shown to satisfy it. Three things stand in
for them. A *least counterexample*: of the numbers, or the elements of a finite
set, for which something fails there is a least one (`LeastNatural`,
`SmallestSet`), and its predecessors succeed. A *solution written down*: to say
what a recursion yields, a function that satisfies its equation is exhibited,
and any two that do are equal, again by the least place where they differ
(`MeantIs`, `FlatThereIs` and `FlatIs`, `RunningTotal`). And *well-foundedness
as a set property*: every set of names has a member that refers to none of it.

**The ring** (`RingConsumersProofs`), for every set of producers, capacity and
batch size:

| Theorem | States |
| --- | --- |
| `TypeCorrect` | `TypeOK` |
| `RingInvariantHolds` | the inductive invariant `RingInvariant` |
| `DeliveryInOrder` | `DeliveredInOrder`: the elements copied out are those claimed, in claim order |
| `RingNeverOverrun` | `NeverOverrun`: at most `Capacity` claimed elements are in the ring |
| `NoRaceOnSlots` | `NoDataRace` |
| `FullMeansFull` | `FullIsTrue` |
| `NobodyIsStranded` | `NobodyStranded`: no wakeup is lost |
| `RingImplementsFifo` | `ImplementsFifo`: the refinement of `BoundedFifo` |

None of these is inductive. A delivered element is right only if the slot held
the element of that sequence, which depends on the marks of older laps and on
who is between claim and publication. `RingInvariant` says it for the window of
`Capacity` sequences from `Oldest`, the first whose slot has not been given
back (`next` inside `PopBatch`, else `gating + 1`): these sequences are in
different slots (`SlotInjective`); an unclaimed one finds its slot marked by an
older sequence; a claimed one belongs to exactly one producer that is writing
it, or is published with its element (`ClaimsInv`, `WindowInv`). With it
`Available(next)` means the element is there. The types are proved in the same
induction, because what `PopBatch` appends to `delivered` is an element only by
the invariant. `InvStep` has one step per action; those that touch slots have a
lemma each (`ClaimStep`, `WriteValueStep`, `PublishStep`, `PopReadStep`,
`PopReleaseStep`, `PopCommitStep`), the others share `ProducerFrame` and
`ConsumerFrame`. `FullIsTrue` needs one more invariant, that no producer has
loaded a cursor ahead of the present one (`CursorMonotone`): the cursor loaded
first is at most the cursor at the instant the gating sequence is loaded.
`NobodyStranded` is inductive over `RingInvariant`. A reader about to sleep has
looked after its last pop, and whoever marks its element sends a token after
that (`ReaderStep`). A writer sleeps only on a full ring; a full ring holds
elements (`FullHoldsElements`), so room appears only by a `PopBatch`, which
sends the token last (`WriterStep`, `WriterSafe`).
For the refinement, the CAS maps to `Put`, for which the invariant supplies the
room; copying out of a slot maps to `Take`; all other steps stutter.

The capacity is any positive number in the proofs; the code makes it a power of
two, so that `& mask` is `% Capacity`. Sequences are unbounded integers where
the code has `int64`.

**Processor and barrier** (`RingConsumersProofs`). `ConsumersUseRing`: every
step of `RingConsumers` is a step of the ring or leaves it alone, for any number
of alerts and elements. Whatever was proved of the ring therefore holds under
both of its consumers; `ConsumersKeepRingInvariant`, `ConsumersDoNotRace` and
`ConsumersImplementFifo` and `ConsumersStrandNobody` say so. `HaltDrainsHolds`
(`HaltDrains`) is about the processor itself. `mark` is the last element published
without a gap when `Halt` came, which `LeastNatural` finds as the one before the
first gap; `DrainInv` says that everything from the next pop to the mark stays
published until it is handled, also by a `Run` after one whose context ended, that
a drain which finds nothing is past the mark, and so is a `Run` that has returned
without an error.

**Async appender and logger** (`DispatchProofs`), for any callers, closers,
capacity, batch size and strategies:

| Theorem | States |
| --- | --- |
| `PipelineInvariantHolds` | the inductive invariant `PipelineInvariant` |
| `CloseDrainsHolds` | `CloseDrains` |
| `EveryEventAccountedHolds` | `EveryEventAccounted` |
| `CallerOrderHolds` | `CallerOrder` |
| `NoWriteAfterCloseHolds` | `NoWriteAfterClose` |

An event moves from its caller through queue and batch to the sinks.
`Once` says it is in one of these places, once; `Answers` ties the place to what
`Append` has answered (accepted events are somewhere, refused and dropped ones
nowhere); `Claims` gives every unpublished element to the one caller that is
publishing it, so an empty queue with no caller in flight has nothing to come.
`Order` is the order of `Close`: `done` only when no caller is in flight, the
worker stops only after `done`, with queue and batch empty, and the sinks close
only after it stopped. With `Once` and `Answers` that is `CloseDrains`; with
the part on callers in flight it is `NoWriteAfterClose`. `Counts` carries
the counters. `InOrder` is `CallerOrder` extended to batch and queue.

**Handler** (`HandlerLifecycleProofs`), for any loggers, closers, reloaders and
`SetLevel` calls:

| Theorem | States |
| --- | --- |
| `HandlerInvariantHolds` | the inductive invariant `HandlerInvariant` |
| `SnapshotInUseIsOpen` | `CurrentStaysOpen` |
| `CloseLeavesNothingOpen` | `NothingStaysOpen` |
| `AcceptedIsSomewhere` | an accepted event is written, filtered, refused or still queued; nothing is lost inside an asynchronous appender |
| `OneCloseDrains` | `CloseDrains`, for handlers closed by one goroutine (`OneCloser`) |

`StatusInv` says that each configuration is the one in use, not yet seen by the
router, being closed by exactly one call, or gone; `InUse`, `FreshInv` and
`ActorInv` say what is open in each case, and `RouterInv` that the snapshot is
derived from the configuration in use. `OneCloser` is needed: `handler_twice`
is its counterexample.

**Reloader** (`PartsProofs`), for any versions, failures, reloads and
closes: `ReloadInvariantHolds`, `ActiveStaysOpen` (`ActiveIsOpen`),
`NoRuntimeLeaks` (`NothingLeaks`), `CloseIsFinal` (`ClosedForGood`). Every open
runtime has somebody who answers for it (`Accounted`): the router, a reload
about to install it, or one about to close it; what is to be installed is open
and nobody else's (`Installing`), what is to be closed no longer in use
(`Retiring`); and a cancelled monitor has stopped or is waited for (`Closing`).

**Routing** (`DispatchProofs`), for all names, levels, configurations and
histories of `SetLevel`, resets, reloads and calls: `RoutingInvariantHolds` (the
current runtime is `Overridden(Build(configured), levels)`), `TypeCorrect`,
`NearestPrefixWins` (`PlanIsNearest`), `LevelsChangeNoOutputs` (`OutputsKept`),
`WritesFollowReferences` (`DeliveredOnce`).
The invariant is short: the runtime is derived from configuration and levels
and from no earlier runtime. The work is in what the derivation yields. The
sort key adds 1024 per dot to the length, and names have any length; of two
prefixes *of one name* the longer has at least the dots of the shorter, so the
key orders them by length (`LongerIsMoreSpecific`), two of one length are equal
(`EqualLengthsAreEqual`), the shorter matches the longer
(`ShorterMatchesLonger`) and matching is transitive. So the head of the sorted
list is the longest prefix (`FirstIsLongest`), although among names that are not
prefixes of one name the key orders differently. `LevelOfPlan` and
`OutputsOfPlan` follow: a plan's level is that of the longest matching logger
with a level of its own, and the loggers an override adds carry the outputs of
the logger the name was matched to before. For `DeliveredOnce`,
`PlanFollowsReferences` says that a plan's list has the references of the
nearest logger and, if it is additive, those of the root that are not among
them; a reference that stands at several positions stands there as often as the
configuration has it (`ReferencesCounted`, `JoinedReference`,
`FirstReferenceIs`). `BothOrNeither` is the fast path: it writes the whole list
or nothing, and then the other path does.

**Rolling file** (`RollingFileProofs`), for any number of events, archives,
failures and crashes and any limits of retention. `RollingInvariantHolds` says
that the invariant holds in every behaviour whose setup does not combine
`fileIndex: min` with gzip (`NotMinGzip`), `NothingLostHolds` (`NothingLost`)
assumes that no setup does (`NoMinGzip`). That combination is the counterexample
of `rolling_pending`. What may take an acknowledged event off the disk is
retention (`expired`) and an opening without append (`truncated`), and
`NothingLost` says when the second does: never with append, and, while no step
has failed, only to events from before the appender in use. There are three
ways in which an event could leave it otherwise, and the invariant has a part
against each. *A rename over an archive*: `TargetFree`, the name a
rollover picked is free until it is used, because nobody else makes an
uncompressed archive. *The removal of a source or of a copy*: `HalfDone`,
between the creation of the compressed file and the removal of its source both
are there with the same events, and the copy is whole before the source goes;
this needs that one actor at most compresses (`WhoActs`) and, with `min`, that
nothing shifts beneath it, hence `NoMinGzip`. *A write to nowhere*:
`DirectTarget`, a direct write has an archive to go to. Each action is shown to
keep these (`ControlStep`), and then to keep every archive or leave its events
in another file, in `expired` or in `truncated` (`Kept`; `SafeStep`,
`RemoveKeeps`). What is truncated is an invariant of its own (`Truncating`): until
something fails there is a file wherever a step needs one (`FileOpen`), so an
opening only ever follows a start or a rename, and a file that the appender has
not opened yet (`Unopened`) holds nothing of its own.

`ArchivesStayInOrder` (`ArchivesInOrder`) needs no assumption on the setups: the
property names its own exceptions (`Ordered`), and where they do not hold
`OrderInvariant` does. The difficulty is that the next index is not remembered
but found again at every opening, and with gzip the search sees compressed
archives only. The invariant says that, while `archiveIndex` counts, the archives
the search sees are below it and the names from it on are taken without a gap
by those it does not see (`NothingAbove`), so the name a rollover picks is above
every other (`PickedIsLast`); that a pending job is below it (`JobsBelow`); and,
for the openings, that a free name has a compressed archive above it, on which
nobody works any more, unless it is above them all (`GapsAreOld`). Retention
cannot have removed that one, because the newest of the archives it sees is
within `maxBackups` and within `totalSizeCap` (`Sizes`, `NewestIsNotListed`);
and since retention lists the archives first and removes them one by one, some
perhaps never, beside a holder that goes on, what is listed and not removed yet
leaves the newest at every moment (`NewestIsSpared`, `NewestStays`). With
`Latest`, no file holds a later event than the one in hand, a rename or a direct
write keeps the order. `OpenedAbove` draws the conclusion for an opening;
`FirstIndexFacts`, `SweepsFacts` and `RetentionFacts` are what the search and
retention compute, for any set of archives. The steps are taken by their effect on the disk
(`DiskEffects`: write, rename, create, compression, retention), not by action,
because holder and worker share them.

`RetentionRemovesTheOldest` (`RetentionKeepsNewest`) assumes that the pattern pads
the index; `rolling_unpadded` is the counterexample without. It has two halves.
Retention lists archives from the front: with one archive each of a lower index
is listed too (`OldestGo`), because fewer archives come after a later one and those
are together no larger. "No larger" is about a fold over sizes. The library's
induction theorems are of no use for it, but a smallest set for which it fails
is (`SmallestSet`): a sum over a set is the number of its units (`SumCounts`),
and a part has no more of them than the whole (`LargerTogether`). From there to the last removal `OldestDoomed` carries it: what
is still to be removed is below every archive that is not, but for those whose
removal failed, whatever the holder renames meanwhile. The other half
is that the archives retention can see are in order. `ArchivesInOrder` says so
only where a file that is opened finds the newest archive (`NewestIsFound`), which
`RetentionKeepsNewest` does not ask for. Of the compressed archives, and those
with an action that will compress them (`Live`), it is true without
(`LiveInvariant`): the next index is above each of them whatever retention has
taken, and an archive left uncompressed, which a later index may end below, is
never seen again.

`CloseFinishesActions` (`ActionsDoneAtClose`) assumes that the archives an earlier
process left are within the limits (`OldWithin`; a `Close` with no rollover
before it removes nothing). Limits are not kept all the time: from the rename
until the action has run there is an archive too many. They hold `AtRest`,
between rollovers, and the last step to rest is always a listing, which leaves
them kept whatever it found (`RetentionLimits`): the lowest name not listed has
fewer than `maxBackups` above it, unpadded names being in the order of a number
too (`NamesAreOrdered`). The limits are about the archives that are not listed
(`Left`), so the removals that follow leave them alone (`WithinStays`, `RestStep`),
and a `Close` comes after the last of them. That everything is compressed is `OneActionEach`: every
uncompressed archive has one action, in the holder's hand, in the queue or with
the worker, no two actions share an archive, and the compressed name is free
until its action takes it.

**The parts**, each from the assumptions of its own module:

| Theorem | In | Of | States |
| --- | --- | --- | --- |
| `AcceptedEventsAreKept` | `SinkProofs` | `FileSink` | `AcceptedIsKept`, for any sinks, paths, buffer sizes and options, any number of events, full disks and deaths |
| `SessionsAreTold` | `SinkProofs` | `FileSink` | `FilesTellSessions`, for the same |
| `ConfigurationsAreBuilt` | `AppenderGraphProofs` | `AppenderGraph` | `BuildsWhatItCan`, for any finite set of names, any graphs and any failing step |
| `ClosedOnce` | `AppenderGraphProofs` | `AppenderGraph` | `NothingStaysOpen`, for the same, and for graphs made by code |
| `AcceptedIsWrittenHolds` | `AppenderGraphProofs` | `AppenderGraph` | `AcceptedIsWritten`, for the same and any events and queues |
| `BucketsAreExact` | `PartsProofs` | `FilterChain` | `BucketIsExact`, for any limits, callers, chains and arrivals |
| `VerdictsAreMeant` | `PartsProofs` | `FilterChain` | `VerdictIsMeant`, for any filters, nested to any depth, and any number of callers |
| `BoundaryRollsHolds` | `PartsProofs` | `RollingHelpers` | `BoundaryRolls`, for any intervals, zones and cron expressions |
| `SweepsAreMeant` | `PartsProofs` | `RollingHelpers` | `SweepIsMeant`, for any files, times, sizes and limits |
| `LevelsAreKeptHolds` | `PartsProofs` | `ConfigLoad` | `LevelsAreKept` |
| `OutcomesAreMeant` | `PartsProofs` | `ConfigLoad` | `OutcomeIsMeant`, for documents of any size in every format and any number of loads |

*Sinks.* What the disk holds says too little: an accepted event may be half on
disk and half in the buffer, or in the buffer alone. `SinkInv` therefore speaks
of the stream, the file with the buffer behind it (`Stream`), and says that an
open sink has every event it accepted in it, in one piece; that what is buffered
is behind an open file; and that a sink that is alone on its path writes at its
end (`Session`, `EventsKept`), which needs that such a path is left before the
next sink comes (`OneAtATime`). The lemmas follow bufio: a flush moves the stream
from the buffer to the file and changes nothing of it, even one that is cut
short and keeps its error (`FlushKeepsStream`); a write adds its cells to the
stream if it answers nil, and otherwise lets the stream only grow (`WriteAdds`);
so header, footer and events keep what is there (`WrittenKeeps`,
`OpenLockedSettles`, `ClosedKeeps`). `CallKeeps` is what every call on an open
sink has in common; a constructor, the death of a process and the disk have
lemmas of their own. On a shared path the cells of others may come between the
halves of an event, never before its first: `KeptAround`.

*Contents.* `FilesTellSessions` compares a file with the contents its sinks were
meant to write, one after the other. The comparison is inductive once it is made
in the middle of a session: `Telling` says that the stream of an open sink is what
was there before it, a header if due, and the events accepted so far with their
separators, and `Told` is that content without the state. `Story` gives the meant
content of a path after each of its sinks, `Tells` ties the file to it, and
`StoryMoves` says what one call changes: the last chapter. While nothing has
failed no write is short, because room and buffers are as `Plenty` allows
(`QuietInv`). That a header comes first and once needs none of that, and holds
through full disks and deaths (`HeadsFirst`, `FirstOnly`): the constructor looks
at the length of the file, and takes back a file whose header it cannot write.

*Construction.* One fact is about what is in the list and one about what is not.
Every appender in the list could be made, and its delegates stand before it
(`ListInv`); so a full list shows that the graph has no cycle: of any set of
names the one that stands first refers to none of them (`FullListIsBuildable`).
And in a pass without progress every composite left was found waiting (`Stuck`);
each name being in exactly one of list, pass and remainder (`Sorted`), the names
left at its end refer to one another, and no order of building exists
(`StuckIsCyclic`). The property and the code disagree nowhere in between: an
error of any other kind comes from a name no graph can be built with
(`ErrorIsFinal`).

*Close.* After a configuration is loaded, or fails to, the list that was opened is
closed from its end and each of its members once (`ConfigCloseInv`); the order
of `CloseOrder` enumerates them, which `Sublist` is shown to do. For a graph made
by code the top is closed and everything else as its owners are: the numbers of
calls are the unique solution of a recursion along the graph (`OncePerOwner`).

*Where an event ends.* `Landing` is defined along the list of appenders, each
from those before it. An event in a queue has not been written anywhere and
belongs to the appender it landed in; in no queue, it has been written as often
as `Copies` counts the paths to each sink (`CarriedInv`). A worker that hands on
an event empties the first case into the second. Close is the difficult step.
`AsyncFirst` says that when the first appender that is not asynchronous closes,
every queue is empty, and `LandsAsBefore` that until then closed appenders, all
asynchronous, change nothing of where other events land. Where one async appender
feeds another this is false, and the property excepts it (`AsyncFeedsAsync`).

*Verdict.* The code walks a stack of chains; the property writes composites out in
place. `Walks` relates the two: what a caller has asked, followed by what its
frames still have to ask written out (`Remaining`), is the flat chain. Going into
a composite and out of one leave it as it is (`ChainMoves`), a decision takes its
first element (`FrameFacts`). Every answer but the last was neutral. `MeantByTime`
walks around the clock from the start; `IntervalIsMeant` is that the code's
comparisons, midnight or not, say the same.

*Bucket.* The property compares each decision with every stretch of time before
it; the code remembers one number. `Ledger` says what the number is: the least
that any stretch up to the last decision has left of its allowance. Refill,
clamp and withdrawal keep it so, and with it the next decision is that of the
property (`DecisionIsExact`).

*Schedules.* `ScheduleInv` says that the rollovers in force are those computed
when the file was opened, and that none is due at the time of the last event.
`NextMultiple` and `NextCronIsFirst` are what the two searches find: no boundary
lies between the opening and it. `BoundaryRollsHolds` assumes that times end
within the seconds a cron search scans (`Horizon`; five years,
`internal/rolling/cron.go:10`): an expression that does not match within them
has no next rollover until the file is opened again.

*Delete actions.* The code sorts and adds up from the latest; the property speaks of
what remains and of each file that goes. A line of the candidates exists
(`LineThereIs`), and any line has before each file exactly what is later than it
(`ForemostAreLater`), so the running total of the recursion is the size of a set
(`RunningTotal`). From there `CondemnedAreMeant` is arithmetic: what stays are the
foremost files, as many as the limits allow.

*Load.* `OutcomeIsMeant` says what a document means with no order at all; decoding
folds its entries into a `fileConfig`, in an order that differs by format and,
for a properties file, by the map. `Told(c, A)` ties the two: `c` states what the
entries of `A` say and nothing more. One more entry is one more of `A`
(`ApplyTold`), wherever it comes, as long as the document names nothing twice;
the difficult entries are references, which a list and the fields of a reference
may give in turn (`ListGrows`, `RefGrows`). `FoldIs` writes the fold out, so the
fold over a whole document has been told all it says (`FoldTold`), and a
properties file what has been visited so far (`PropertyTold`). Resolving makes
the texts those `Meant` (`ResolvedIsMeant`), and a `fileConfig` that was told
everything and is resolved states the facts of the document (`FactsAreMeant`).
`OutcomeInv` says which of this holds at each stage of a load, with what the
stages before it have found in order: the document is decodable, its texts are
resolvable, the registry has its levels, its async section has one spelling. A
step that fails therefore fails on a named part of `Meaningful`, and one that
reaches the end has all of them (`MeaningfulIs`, `OutcomeFinished`).

*Filters of a load.* For every document, also one that names something twice:
what is made was made once, after what it refers to (`MadeIs`), and the filters
in progress are a path of references, each of them unmade (`PathIs`). A
reference back into the path is a circle in the configuration (`CircleIs`), and
what has been made contains none, because of any set of made filters the first
one made refers to none of it (`MadeMore`).

**Only model-checked.** Liveness under fairness, and whatever rests on ENABLED
(out of the prover's reach): `WaitsEnd`, `CallsReturn`, `AcceptedIsHanded`,
`MonitorAnswers`. Every invariant and every other action property of a passing
run is stated by a theorem.

## 7. What is not modelled

- *Async options*: defaults and comparisons without loops. The outcome of a
  refused comparison is `ReloadRejected` of `HandlerLifecycle`.
- *Status log*: a list under a mutex that drops its first record when full;
  nothing depends on it.
- *Plugin registry*: names to factories, one map access under a mutex each. What
  the built-in factories refuse is in `FilterChain` and `AppenderGraph`.
- *The text of an event*: layouts format without state that outlives a call,
  but for the headers, footers and separators of `FileSink`.
- *Native logger, events and values, public API, tools, examples*: immutable
  data, forwarding and wrappers.
- *Parsers* of YAML, JSON, TOML, XML and of numbers, patterns and zones: a
  document is what they yield, a pattern the set of texts it matches.
- *Handler*: clones made by `WithAttrs` and `WithGroup`, location capture.
- *Async*: the listener called on an error. A delegate's error is an event of
  `FailingEvents`, and the join of errors is one flag.
- *Rolling file*: dates in the pattern, buffering and headers of the active file
  composed with the rollover, delete actions composed with it. Events all have
  size one. Retention removes what it listed in the order of the names,
  whichever limit it exceeds; an opening for a direct write that fails leaves
  no file.
- *Rolling schedules*: changes of the clock for daylight saving; minutes to
  months of a cron expression, which are fields like the seconds.
- *Ring*: `int64` wrap-around of sequences; the padding of cache lines; the Go
  memory model beyond "atomics are sequentially consistent and plain fields
  must not race", which `NoDataRace` checks.

Three hazards have no property; `PROJECT.json` says why for each
(`config_reloader.go:171`, `internal/rollingfile/archive.go:300`,
`handler_part2.go:174`).

## 8. Plan

The modules were written in the order of section 2, the core of the system
first, and each was proved about after TLC agreed. What would come next:

1. *RollingFile*: buffering and headers of `FileSink`, with the stream of
   `SinkInv`, composed with the rollover.
2. *AppenderGraph*: `AcceptedIsWritten` with the bounded queue of
   `AsyncPipeline` in the place of the unbounded one.
3. *HandlerLifecycle*: clones, whose attributes a reload must not lose.

## 9. Running it

```
tlasany DisruptorRing.tla
tlc -workers 2 -config MCRingConsumers.cfg MCRingConsumers
tlc -workers 2 -config MCParts.cfg MCParts
tlapm DispatchProofs.tla
```

The largest runs (`parts`, `rolling`, `async`) take about two minutes each on
two cores; the proofs of a module between a few seconds and a few minutes.
