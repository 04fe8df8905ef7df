# TLA+ models of the market data core

Models of the C++ core under `src/` (feed, normalizer, distributor, publisher,
recorder, replayer, control server, symbol registry, process lifecycle), TLC
runs that check them on small instances, and TLAPS proofs of their safety for
every value of the constants. `PROJECT.json` has the exact correspondence: which definition models
which lines, which run checks which property, which mutation of the model each
property detects, and the findings.

Source paths below are relative to the repository root.

## 1. The system

| Part | State | Operations | Talks to |
|---|---|---|---|
| MockFeed (`src/feed`) | running flag, one sequence number per symbol | start, stop, rounds of events | enqueues into feed_to_normalizer |
| QueueBackpressureController (`src/common/backpressure.hpp`) | `active_` per queue, process-wide count of active queues, gauges | wait_for_capacity | in front of every enqueue of the pipeline |
| Normalizer (`src/normalize`) | one partition queue per worker | routing thread, workers, stop | feed queue to publisher queue |
| MarketDataCore (`src/main_core.cpp`) | running flag, the queues | distribution thread, start, run, stop, signals | publisher queue to PubServer and recorder queue |
| PubServer, ClientConnection (`src/publisher`) | client list, per client socket, flags, send queue | accept, read, write thread, publish, heartbeat, stop | TCP clients |
| Recorder (`src/recorder`) | mapped MDF and IDX file, counters, failure count, degraded flag | recording thread, roll, stop, forced roll | disk |
| Replayer (`src/replay`) | sessions, each with a stream and a playback thread | start, pause, resume, seek, stop | reads the recorder's files, publishes |
| ControlServer (`src/ctrl`) | two acceptors with a thread each, list of metrics clients, each with a bounded queue and a writer thread | requests (a detached thread each), broadcast, start, stop | calls feed and replayer |
| SymbolRegistry (`src/common`) | symbol to identifier, identifier to symbol | get_or_add, by_id | normalizer writes; distributor, replayer and control server read |
| main and signals (`src/main_core.cpp`) | `g_core`, shutdown flags, signal count | construct, start, run, signal handler, stop, destroy | every component |
| MetricsCollector, Config, frame codec (`src/common`) | maps under a mutex; byte layouts | counters, parse, encode, decode | everyone |

Every component has threads of its own; they meet in moodycamel queues,
atomics, and a few mutexes. What is hard to get right, and to test:

* **waiting**: a check and an enqueue are separate steps, several producers
  share a controller, and a stop may cut a wait short;
* **order**: a symbol's events pass through one of several workers and a queue
  with several producers;
* **shutdown**: components are joined one after the other while the others
  still wait for each other;
* **connections**: a connection may be stopped by its read handler, its write
  thread or the server, while publish works on an old list of clients;
* **files**: opening, growing and closing fail separately, and the process may
  die between any two of them;
* **sessions**: requests run concurrently with each other and with playback;
* **wake-ups**: condition variables are notified with and without the mutex of
  the waiter, and from a signal handler;
* **lifecycle**: starts fail half way, signals arrive at any moment on any thread,
  and detached request threads outlive what they call;
* **identifiers**: recorded frames carry identifiers of an earlier run.

The list with the lines is under "hazards" in `PROJECT.json`.

## 2. Modules

| Module | Models | Checked by |
|---|---|---|
| `Backpressure` | wait_for_capacity, one step per access to shared state, any number of queues and producers | `MCBackpressure` |
| `SymbolStream` | what the pipeline promises for a symbol: events come out in order, each at most once | as a property of Pipeline |
| `Pipeline` | feed, routing thread, workers, distribution thread, a subscriber, recording thread, and the shutdown sequence | `MCPipeline` |
| `Recorder` | the recording thread and the files it leaves, with failures, crashes and restarts | `MCRecorder` |
| `Publisher` | PubServer and its connections | `MCPublisher` |
| `Replayer` | replay sessions over a data directory | `MCReplayer` |
| `ControlServer` | the control server's listeners, metrics broadcast, WebSocket clients, start and stop | `MCControlServer` |
| `Lifecycle` | main, start, run, stop, the signal handler, MockFeed::start and stop step by step, feed requests | `MCLifecycle` |
| `SymbolIds` | what the registry promises within a run: one identifier per symbol, never another | as a property of SymbolRegistry |
| `SymbolRegistry` | get_or_add, by_id and the topics named with it, live and replayed, over restarts | `MCSymbolRegistry` |
| `BackpressureProofs`, `PipelineProofs`, `RecorderProofs`, `PublisherProofs`, `ReplayerProofs`, `ControlServerProofs`, `LifecycleProofs`, `SymbolRegistryProofs` | theorems about the module of that name | tlapm |

`Pipeline` is the composition: it has the queues and threads of all live
components, with the parts the other modules take apart seen from outside.
wait_for_capacity is one step there (`HasCapacity`, with `waiting` for its
hysteresis), the publisher is the depth of the fullest client queue, the
recorder is a log. `Replayer` reads files of the shape `Recorder` leaves.
`Lifecycle` is the other composition: the order in which main starts and stops
everything. A component's stop is one step there, or it never returns (`NeverReturns`);
when it returns is what `Pipeline`, `Publisher` and `ControlServer` say.

### Backpressure

`pc[p]` is where producer `p` is in wait_for_capacity: the depth read (`CheckDepth`),
the critical section that sets `active_` (`Activate`), the increment of
the shared counter (`Announce`), the gauges (`RaiseGauge`), the polling loop
(`Poll`, `LeaveLoop`), the critical section that clears `active_` (`Release`),
the decrement (`Retract`) and the gauges (`LowerGauge`). `Enqueue` is the
caller's. `LoopTop` is the caller's outer loop, which looks at `running_` only
once per batch; `backlog` is the input that routing thread and workers still
drain after a stop. The counter is unsigned and wraps at `WordSize` (2^64 in
the code): a release may overtake the increment of its own activation.

### Pipeline and SymbolStream

An event is its symbol and sequence number. `outQ[w]` is the sub-queue that
moodycamel keeps for worker `w`: the queue is FIFO per producer only, and the
distribution thread may take from any. Actions are the dequeue of a batch, the
enqueue of one element (with the wait before it), the end of a thread, and the
steps of `MarketDataCore::stop`: feed, distribution thread, recorder, publisher,
normalizer.

`StreamIntact` looks along the `Path` of a symbol, from the feed's queue to the
log: at each stage the numbers increase, those of a later stage precede those of an
earlier one, and together with the dropped ones they are all the feed has given
out. The mapping to `SymbolStream` is then simple: what is in flight is the set of
numbers on the path before the log (`InFlight`), what is delivered is the log.

### Recorder

`disk` is what a reader would find under each file name: frames, each with the
offset it ends at, the counts in the header, index entries, whether the
preallocated blank tail is still there.
`mdf` and `idx` are the mappings: null, open, or broken (a failed growth unmaps
the file and leaves the object). A frame goes through `NextFrame` (its symbol is
noted), `NoRoll`/`RollOk`/`RollFails`, and `WriteOk`/`WriteFails`/`WriteDegraded`.
`Die` is the forced exit of the signal handler (or any crash), `Restart` a new
process on the same directory. `Faults` says which system calls may fail. No frame
is larger than the initial mapping, so that the loop of ensure_capacity doubles
once at most (`Grown`); `RecorderProofs` shows that this is always enough.

### Publisher

Per connection: the flags `running`, `authenticated`, `subscribed`, the length of
the send queue, the write thread and the read handler. `Leave` is the peer
closing its end, at any time. publish (one thread) takes its snapshot, waits, and
sends to client after client; the heartbeat thread goes through `clients_` in the
same way with `clients_mutex_` held (`mutex`). send_frame is two steps, the test of
`running_` and `authenticated_` (`SendTest`) and the enqueue (`SendEnqueue`), and a
connection may be stopped in between. PubServer::stop takes the mutex (`StopLock`),
stops and joins one client after the other (`StopClient`, `StopJoined`), lets the mutex
go (`StopUnlock`) and joins the heartbeat thread (`StopReturn`). A write thread that has
opened its circuit breaker joins itself (`selfJoin`), and `aborted` is the
std::terminate that follows.

### Replayer

A data file is a sequence of frames, an index, and the time range of its header.
The directory has its files in the order of their names, which is the order
find_files_for_range sorts them into, so a session's files are a set of numbers;
current_file_index is the number itself, and `Later` what is left of the list.
`IndexAssumption` is what Recorder guarantees of an index (`IndexSound`): an entry
leads to the frame it was written for, which a crash may have lost, or is zero.
`StartCheck`, `StartSpawn` and `StartRegister` are the three parts of start_session
between which other threads can run. `LowerBound` is the halving search of
std::lower_bound, so it also says what an unsorted index does. A seek that
overlaps a read of the playback thread is a data race on the stream: the model
lets the read fail or the stream end up anywhere in the file. A frame that is
read is passed over (`PassFrame`: behind the range, or of another topic) or published
(`PublishFrame`, the return of publish). stop_session takes the session off the list
(`StopErase`), clears its flag (`StopFlag`) and joins.

### ControlServer

The writer of a client is between `check` (the loop condition), `pred` (the test
under `queue_mutex`), `parking` (tested, not yet waiting, mutex held), `waiting`,
`write`, `closing` (the closing handshake) and `leaving` (the closure drops
`self`). `parking` is what separates the two notifications: `Offer` needs the mutex
and cannot fall into it, `NotifyWriter` of stop does not and can. `Referenced` counts
the shared pointers to a client; `Leave` of the last one is the destructor on the
writer's own thread and ends the process (`up`). `CloseWakes` says whether closing a
socket ends an accept that is blocked on it: not on Linux.

### Lifecycle

`main` is where the main thread is, `k` the component it starts or stops, `round`
whether stop was called by main or by the destructor. run() joins the IO threads
(`io`, `IoJoined`) before main calls stop. `NeverReturns` is any of the joins that may
hang: of the IO threads, of the distribution thread, in the stops of publisher and
control server; main is then `hung`. The arrival of a signal is one step with the
handler's first test and count (`FirstSignal`, `LaterSignal`); marking the shutdown and
looking for the core are two more (`MarkShutdown`, `FindCore`). A handler runs on the main
thread, which it interrupts between any two steps (`MainAt` then waits for it), or on
another. `feedOp[u]` is where `u`, the main thread or a request, is in
MockFeed::start or stop; `waitsFor` is the thread it joins. `overlap` records that
two of them were inside at once: the requests exclude each other with
`feed_control_mutex_`, the core does not take it.

### SymbolRegistry and SymbolIds

`Lookup` and `Add` are get_or_add under its shared and its unique lock. A frame
carries the identifier it got. `ById` and `Publish` are the lookup of a name and
its use, between which `symbols_` may be moved (`storage`); what a dangling view
reads is any name. `disk` survives `Restart`, the table of names does not.

## 3. Runs

Passing runs:

| Run | Shows |
|---|---|
| Backpressure | two producers on one controller, over stops and restarts: an enqueue of a running component never exceeds high - 1 plus one element per producer (`CommittedFit`, `EnqueueBounded`); the unsigned counter wraps and still agrees with the `active_` flags once every update has arrived (`CountSettles`); stopped threads end even if nothing is dequeued (`StopJoins`); a pause ends in an enqueue of some producer as long as the consumer runs (`ProducersProgress`) |
| PipelineOrder | order and no duplication per symbol through the whole pipeline, with the losses exactly where the code drops (`StreamIntact`); the recorder gets what was published (`RecorderFollowsPublisher`); the pipeline implements SymbolStream (`ImplementsStream`) |
| PipelineLive | every event is recorded unless normalising failed or a shutdown came (`EventuallyRecorded`), and a shutdown completes (`ShutdownCompletes`), when subscribers read |
| Recorder | headers and indexes describe their files after any failure, forced roll, crash and restart (`HeaderSound`, `IndexSound`); degraded mode is not entered before half of the failure limit in lost frames (`DegradedEarned`); each frame is counted once, as written or as an error (`EveryFrameAccounted`) |
| Publisher | what is queued, or past send_frame's test, for a connection that was told to stop only shrinks, whatever snapshot the senders work on and wherever the stop falls (`StoppedOnlyDrains`); a disconnect by the read handler or the server completes (`DisconnectCompletes`); PubServer::stop returns, over its joins one by one under `clients_mutex_` and the join of the heartbeat thread that may want that mutex (`StopReturns`); publish returns unless a client of its list has disconnected with frames in its queue (`PublishReturnsToTheLiving`). All where clients read, and unless the process aborts in the self-join |
| Replayer | an unsought session publishes good frames in recorded order without repeats, and, when it reaches its end, all that were asked for if timestamps are sorted (`InOrder`) and the headers of the files with such frames say so (`Covered`) (`ReplayFaithful`); stop is final (`StoppedIsSilent`) and returns (`StopReturns`), and playback ends unless it is paused (`PlaybackEnds`), in both cases unless publish never returns to the playback thread |
| ControlServer | payloads go out in order, and only the oldest are dropped when the queue is full (`FreshInOrder`); a queued payload is taken up (`QueuedIsTaken`), a broken client leaves the list (`BrokenIsUnlisted`); where a close ends an accept, stop returns unless a client hangs in one of two known ways (`StopReturns`), and then serves nobody but a client listed behind its back (`StopClosesListed`) |
| Lifecycle | a process that comes to its end has stopped whatever it started, after a start that failed at any point too, and the feed's thread is gone (`CleanExit`); a requested shutdown or a failed start ends the process, or brings main to a join that does not return, but for three named hazards: no request is lost between the handler, `shutdown_mutex_` and the wait in run() (`ShutdownEnds`) |
| SymbolRegistry | the double-checked get_or_add implements SymbolIds (`ImplementsIds`); the identifiers in frames and both tables agree (`IdsAgree`); a live frame is published under its own name while symbols are added, unless the table moved under the view (`LiveTopicRight`) |

Every property has a mutant in `PROJECT.json`: a plausible bug in a mapped
definition that makes TLC find the property violated. Mutants stand beside the
definition they change.

Runs that expect a violation each contradict a sentence of a document, a comment
or a promise of the code, quoted under "findings":

| Run | What the counterexample shows |
|---|---|
| RecorderSameSecond | a second file in the same second truncates the first |
| ControlServerStop | on Linux stop waits for an accept loop that nothing wakes |
| SymbolRegistryReplay | after a restart a recorded frame is replayed under the topic of another symbol |

### Deviations the models contain and no run pins

The models follow the code in these places too; the properties above are stated
so that they hold with them.

* `backpressure.hpp:97`: counter update and gauge store are two steps, so with two
  controllers the global gauge may stay 0 while one is active
  (`infra/GRAFANA_SETUP.md:61`, "0=Inactive, 1=Active").
* `backpressure.hpp:85`: a stop in the middle of a pause leaves `active_` and the
  gauge set over a queue that then drains (`GRAFANA_SETUP.md:209`, "1 indicates
  queueing delays").
* `backpressure.hpp:73`: a stop ends the wait and the element is enqueued all the
  same, so start and stop cycles on a stalled queue grow it past the watermark
  (`README.md:244`, "prevents unbounded queue growth"). This is why CommittedFit
  speaks of running components.
* `main_core.cpp:113`: stop joins the distribution thread before PubServer::stop clears
  the flag its wait in publish watches; with a subscriber that does not read
  (`ThreadSpec` without the fairness of `ClientWrite`) the shutdown hangs (`docs/ARCHITECTURE.md:216`).
* `main_core.cpp:110`, `:152`: stop and run() join threads without a limit of time, so
  any component that does not end holds the process (`ARCHITECTURE.md:216`, "Shutdown
  always completes"). `hung` in Lifecycle; ControlServerStop shows one way there.
* `main_core.cpp:107` ("Stop producer first so queues drain."): the distribution and
  recording threads leave as soon as their flag is cleared; what is queued is lost.
* `normalizer.cpp:168`: a worker ends when its partition is empty, before the routing
  thread is done with it (`docs/ARCHITECTURE.md:198`, "Drain remaining queue items").
* `recorder.cpp:374`: the symbol of a frame is noted before the roll that clears the
  set (`docs/DATA_FLOW.md:106`, "unique symbols in file").
* `recorder.cpp:389`: the records metric grows by the batch, lost frames included
  (`docs/OBSERVABILITY.md:80`, "Total records written to MDF files"). EveryFrameAccounted
  speaks of `stats_` (frames_written, write_errors), not of the metric.
* The example at `DATA_FLOW.md:266` has an index entry for the first frame; the code
  (`recorder.cpp:505`), `DATA_FLOW.md:95` and `:257` write one every 10,000 frames. IndexSound
  follows the code.
* `recorder.cpp:318`: force_roll on a file longer than the roll size cuts its last
  frame (`DATA_FLOW.md:107`); HeaderSound allows that one frame, and IndexSound an entry
  that leads to it. Nothing in the program calls force_roll.
* `pub_server.cpp:520`: a heartbeat drops a client that has not authenticated yet, and
  only such clients: it can still subscribe and gets nothing (`DATA_FLOW.md:241`), it
  outlives PubServer::stop (`ARCHITECTURE.md:192`), and clients that disconnected
  stay in the list (comment at line 515).
* `pub_server.cpp:377`: a client that left with a full queue stays in publish's snapshot
  and its queue never drains, so publish does not return (`DATA_FLOW.md:385`, "No
  impact on other clients or recording"). `PublishReturnsToTheLiving` excludes it.
* `pub_server.cpp:193`: after five failed writes the write thread calls stop, which joins
  it from itself at line 67: std::terminate (`ARCHITECTURE.md:504`, "Disconnect client,
  continue system"; `pub_server.hpp:11`, "disconnected after 5 consecutive write failures").
  In Publisher this is `selfJoin`, then `aborted`; AbortIsEarned says it is the only way there.
* `pub_server.cpp:74`, `:86`: send_frame tests `running_` and enqueues without a lock, so a
  frame may still be queued for a connection that was stopped in between, one per
  sender at most. `StoppedOnlyDrains`.
* `replayer.cpp:174`, `:320`: stop_session joins a thread that may be waiting in publish
  (`pub_server.cpp:377`), which watches the server's flag and not the session's; with a
  client that does not read the join hangs.
* `replayer.cpp:59`: the limit check and the insertion are under different locks, so
  concurrent starts exceed the limit (`docs/V1_COMPLETION_REPORT.md:167`).
* `replayer.cpp:222`: a playback thread that runs before its session is listed returns
  at once (`ended` = "unlisted"), and the session stays listed (`DATA_FLOW.md:324`).
* `replayer.cpp:436`, `:262`: frames between the index entry and from_ts_ns are
  published (`DATA_FLOW.md:295`); ReplayFaithful asks for the wanted frames and
  tolerates these.
* `replayer.cpp:380`: files are chosen by the range in their header, which the recorder
  updates every 1000 frames; a request that begins after the last update of a file
  that is still written, or was not closed, does not find its frames
  (`DATA_FLOW.md:290`, "Find files covering timestamp range"). ReplayFaithful asks for completeness under `Covered`.
* `replayer.cpp:311`: any pattern with a `*` takes every topic (`DATA_FLOW.md:318`).
* `replayer.cpp:425`: zero entries at the end of an unclosed file's index send the
  seek to offset 0, where playback ends as damaged (comment at `recorder.cpp:539`).
* `replayer.cpp:347`: a session whose playback ended stays listed (`DATA_FLOW.md:396`).
* `control_server.cpp:62`: stop notifies without `queue_mutex`; a writer that has tested
  its predicate and not yet waited misses it, and stop hangs in the join with
  `ws_connections_mutex_` held. First disjunct of `Hung`.
* `control_server.cpp:70`, `:112`: write and closing handshake are synchronous and without
  a timeout, so a peer that does not read holds the writer, and stop. Second
  disjunct of `Hung`.
* `control_server.cpp:35`: the closure of the writer thread owns its client; when list and
  snapshot let go first, the destructor joins its own thread and the process
  terminates (`ARCHITECTURE.md:504`). `up` becomes FALSE.
* `control_server.cpp:245`: the acceptor is reset while its loop may be about to call
  accept through it. `EnterAccept` on "null" also clears `up`.
* `control_server.cpp:937`: a session may list its client after stop cleared the list;
  StopClosesListed allows exactly that client.
* `control_server.cpp:969`: enqueue only fails for a client whose flag is down, so the
  stop() after it never does anything.
* `main_core.cpp:377`: the forced exit needs a third signal; main announces "Press Ctrl+C
  twice to force exit" (`:460`, `ARCHITECTURE.md:151`).
* `main_core.cpp:387`: a signal while `g_core` is not set yet only marks the shutdown as
  in progress: the process starts and the next signal does not stop it
  (`ARCHITECTURE.md:144`). `ignored` in Lifecycle.
* `main_core.cpp:161`: the handler locks `shutdown_mutex_`; on the main thread between the
  test and the wait of run(), or in request_shutdown, it waits for itself.
  `SelfLocked`.
* `mock_feed.cpp:49`: a request to start the feed while the core stops it leaves one of
  them joining a thread that has seen `running_` set again (`control_server.hpp:108`,
  "Serialize lifecycle actions that mutate feed state"). `overlap`.
* `symbol_registry.cpp:48`: the view outlives the lock and dangles when symbols_ is
  reallocated (`docs/DATA_CONTRACT.md:354`, "Thread-safe"). `dangling`.

### Bounds

* Backpressure: two producers, watermarks 2/0, one element per batch and one of
  backlog, two starts. The check-then-enqueue race needs two producers, a restart
  with a stale `active_` needs two starts; `WordSize` 4 makes the wrap visible.
* Pipeline: two symbols on two workers, two events each, batches of two,
  watermark 1 or 2, one failing event, two feed starts. Two events per symbol are
  enough to see a swap or a repeat, two workers to see a crossing, watermark 1 to
  make every queue full.
* Recorder: four frames in batches of up to two, files of at most four frames of two
  units (a roll size of seven, so that the last one reaches beyond it), index and
  header every second frame, so that the frame a forced roll cuts has an entry, a failure limit of three, one restart; every
  system call may fail at any time.
  Timestamps are two per second, so that two files can share a name.
* Publisher: two clients, so that stop has two threads to join; two consecutive write
  failures break a connection; watermarks 2/0; four events out of control messages,
  publishes, heartbeats and departures, in any mix. Two clients get a heartbeat at
  once within four events; a publish to two subscribers would take five, and is
  covered by the proofs only (for liveness, not at all). With five the run does not
  end in time.
* Replayer: one session over a directory of two closed files, of a closed and an
  unclosed one, the same with a lost frame, one with unsorted timestamps, or empty;
  ranges across and within files, one that begins behind a header that was not
  updated, one topic or all, and a refused range; three requests to pause, resume or seek, at any moment. Sessions
  share nothing but the list and its limit, so one is enough for these
  properties.
* ControlServer: one client, a queue of two, three payloads, so that the oldest is
  pushed out while the writer holds another; the peer stalls, resumes and goes at
  will. Clients share only the list and the snapshot, which treat each alike.
* Lifecycle: three signals (the third forces the exit), one request to start or stop
  the feed against the core's own calls, two feed threads: the core's start and the
  request's make no more.
* SymbolRegistry: three symbols (the table moves twice), two threads, two runs of the
  process; symbols and threads are symmetric. The replay run has two symbols.

CHECK_DEADLOCK is off because the bounded inputs end and the processes stop.

### Fairness

Weak fairness of each thread's steps: the scheduler runs every thread, and every
wait of the code is a poll with a sleep or a join. There is none for the
environment: clients, operators and requests may do nothing. Where a property
needs more, it says so: `ProducersProgress` assumes a consumer that dequeues,
`LiveSpec` of Pipeline a subscriber that reads. The Publisher's `LiveSpec` lets
the write to a connected peer go through eventually, and reads report the end of
a closed connection. In Replayer the return of publish (`PublishFrame`) is not fair:
a client that does not read may hold it for ever. In ControlServer the peer may
stall for ever, no handshake has to finish and nobody has to call stop; in Lifecycle
signals, requests, failures and `NeverReturns` come or do not come.

## 4. Proofs

Every invariant and every action property that a passing run checks, and both
refinements, are theorems of their specifications, for every value of the
constants that satisfies the named assumption of the module. Nothing else is
assumed. The bounds of the runs (frames, signals, restarts, ticks) are constants
too, so the theorems hold however large they are.

Each proof module has one inductive invariant `IInv`, the properties as parts of it
where they are inductive together, and the parts below where they are not; one
lemma per part and step (`...Step`) or per group of actions, by what it leaves alone
(`...Keeps`), and short theorems at the end.

`BackpressureProofs`, from `ConstantsAssumption`:

* `TypeCorrect`. Inductive with `WorkLeft`: a producer inside a batch has an item
  left, or `todo` would go below zero.
* `CommittedEnqueuesFit`: `CommittedFit` counts, per controller, the producers
  whose last depth read lets them enqueue. A step that joins them must know that
  the depth it read leaves room for everyone already there. `IInv` adds `SawFull`
  (a producer that went into the wait saw at least high, so it commits only by a
  fresh read) and states the bound per controller (`Fit`), so that the steps of
  other controllers' producers frame it away.
* `EnqueuesBounded`: the action property, as an enqueue is made by a committed
  producer.
* `CountIsSettled`: `CountSettles` says that a word equals a remainder, which
  forgets how often the word has wrapped. The inductive form, `CountBalanced`, says
  that controllers active, plus releases to be retracted, minus activations to
  be announced, is the count plus some number of whole words. `WordWraps` and
  `BalanceKept` are the arithmetic.

`PipelineProofs`, from `ConstantsAssumption`: `TypeCorrect`, `StreamsIntact`,
`RecorderFollows` and `Refinement`. IInv needs `Routed` (no worker has events of a
symbol that is not its own: otherwise two workers could swap two of them),
`Holding` (a batch is in hand exactly while a thread hands it on), `StoppedInOrder`
(the publisher is stopped after the distribution thread, so that no frame is
recorded that publish refused) and `DroppedWereNumbered`. The lemmas about queues
say what taking the head, appending and moving a batch do to the set and the order
of a symbol's numbers. `Refinement` maps an emission to `Produce`, the write of a
frame to `Deliver`, a failed normalisation to `Drop`, and all else to stutters; that
the frame written is the least in flight is StreamIntact.

`RecorderProofs`, from `ConstantsAssumption`:

* `FramesAccounted` needs `InBatch` (the thread's place in its batch).
* `DegradedIsEarned` needs `FailuresEarned`: a frame counts two failures at most, one
  for the open and one for the write, and is one ahead in between.
* `HeadersAreSound` and `IndexIsSound` follow from `DiskOk`, a statement on each
  file. It is kept because of what holds of the file that is open: `OpenFile` (its
  size is current_file_bytes_ unless force_roll has overwritten it, only its last
  frame reaches beyond the roll size, its entries lead to their frames) and
  `OpenIndex` (the frames since the last entry). Together they say that a cut at the
  roll size takes one frame at most.
* `ContentsFit`: the mapping is never smaller than what was written to it.

`PublisherProofs`, from `ConstantsAssumption`, for any number of clients and events:

* `TypeCorrect`; `LimitHolds`, `clients_` never exceeds MAX_CONNECTIONS.
* `JoinsAreSound`, the safety part of the disconnects: who joins a write thread waits
  for one that was told to stop and is not joining itself, and nobody else joins it.
* `AbortIsEarned`: the process comes to std::terminate in one way only, the self-join
  after MAX_CONSECUTIVE_FAILURES failed writes to a peer that is gone.
* `StoppedDrains`, the action property `StoppedOnlyDrains`, by cases over the steps; it
  needs the types only.

IInv adds `Breaker` (a write thread that lives has failed less often than the limit),
`OpenIsRunning` (`running_` and the socket go down together) and `MutexHeld` (who holds
`clients_mutex_`).

`ReplayerProofs`, from `ReplayerConstants` and `IndexAssumption`: `TypeCorrect`;
`ReplaysFaithfully`; `StaysSilent`, the action property `StoppedIsSilent`. Per session,
IInv says where its threads are (`InStep`), which frame is in hand (`InHand`), that
what was sent comes before the `Cursor` (`Ordered`) and that nothing wanted has been
passed over (`Complete`), unless the next read ends playback as damaged. At the start
`Complete` rests on the search through the index, `LowerBoundPasses`: whatever the
index, sorted or not, the entry before the one std::lower_bound returns is earlier
than the target, so where timestamps are sorted the seek passes nothing. This is
an induction over the length of the range searched. The induction theorems of the
library cannot be applied here, so it is by the least counterexample (`LeastNatural`,
from `WFMin`): the lengths at which the claim fails are a set of naturals.

`ControlServerProofs`, from `ControlServerAssumption`, whether or not a close ends an
accept: `TypeCorrect`; `StaysFresh`, needing `Numbered` (what a client has was offered to
it, once, in the rounds so far); `StopCloses`, needing `Locked` (stop holds the
list's mutex), `Served` (a client that is served is listed or about to be),
`DownIsLeaving` and `Untouched`.

`LifecycleProofs`, from `LifecycleAssumption`: `TypeCorrect`, needing `Counted` (handlers
count themselves once); `ExitsClean`. Components are off in the order of stop
(`StillOn`, `NothingYet`). For the feed's thread, `OneCaller` says what holds between
and inside the calls of start and stop as long as they do not overlap, with
`OneRequest` and `MainInFeed` for who may be inside, and `LastCall` that the
destructor's stop comes after all of them.

`SymbolRegistryProofs`, from `RegistryAssumption`:

* `TypeCorrect`, `IdentifiersAgree`, `LiveTopicsRight` from one inductive invariant.
  IdsAgree needs `TablesAgree` (what `symbol_to_id_` has, `symbols_` leads back from),
  because a thread may be answered from the map alone; LiveTopicRight needs
  `ViewKnown` (the distributor looks up frames of this run only), and the type of a
  published name needs `ViewInRange` (the slot of a view stays, as symbols_ only
  grows).
* `Refinement`: a found symbol and an added one are `Ask` of SymbolIds
  (`FoundRefines`, `RegisterRefines`), a first lookup that finds nothing is a
  stutter, a restart is `Forget`.

What the proofs taught about the models: the feed must be started at least once
(`MaxFeedStarts`) for the pipeline's types; the frame a forced roll cuts may have an
index entry, which a smaller instance of Recorder did not show; and a replay is
complete only if the headers it chooses files by are up to date.

Left to TLC: liveness (fairness and ENABLED are out of the prover's reach):
`StopJoins`, `ProducersProgress`, `EventuallyRecorded`, `ShutdownCompletes`,
`DisconnectCompletes`, the `StopReturns` of three modules,
`PublishReturnsToTheLiving`, `PlaybackEnds`, `QueuedIsTaken`, `BrokenIsUnlisted`,
`ShutdownEnds`; and the three runs that expect a violation.

## 5. Plan

1. Proofs: what makes the gauges of Backpressure right in the absence of a stop; that
   the files Recorder leaves satisfy `IndexAssumption` of Replayer, as a theorem
   rather than an argument; the parts of the liveness arguments that are safety
   (what a waiting thread waits for is always within reach).
2. Publisher: several topics and patterns; several publishing threads (the
   distribution thread and replay sessions share one controller).

## 6. Abstractions and what is not modelled

* `size_approx` returns the exact size. moodycamel's own implementation is
  external, taken as one FIFO sub-queue per producer; a restarted feed thread
  counts as the same producer.
* `ProducersProgress` speaks of the producers of a queue together. With several, one
  that is paused polls every 100us and may in principle miss each moment the queue
  is low; the code gives no guarantee without assumptions on timing.
* Prices, sizes, names, topics and log output are data that no property looks at.
* The IO threads are joined before PubServer::stop runs, as `run()` and `main`
  arrange it. A synchronous write to a closed socket fails.
* The recorder does not guarantee that frames are sorted by time, as symbols are
  handled by different workers; a frame later than the range then ends playback
  early, which is why ReplayFaithful asks for completeness under `InOrder`.
* Replacing the stream at the end of a file while a seek uses it is a memory-level
  race; the model has the races on the position only. Pacing is left out.
* Files found by a session do not change during it.
* Lifecycle: two handlers that interrupt the main thread inside each other are left
  out; a component other than the feed starts in one step, and stops in one or never.
* Publisher: ClientConnection::stop clears `running_` (`pub_server.cpp:58`) and closes the
  socket (`:63`) in one step; an acknowledgement by the read handler is one step.
* Pipeline: an enqueue that fails for want of memory (`normalizer.cpp:198`) is left out.
* ControlServer: spurious wake-ups are left out, as nothing may rely on them.
* Not modelled: MetricsCollector (counters nobody reads back, percentiles of
  floating-point samples), Config (a JSON file read before any thread exists), the
  byte layout of frames and CRC32 (pure functions whose outcome Recorder and
  Replayer use), request parsing and the bodies of answers, the web UI,
  dashboards, benchmarks, scripts.
