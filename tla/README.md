# TLA+ models of xverif

`xverif` is a tool box for hardware verification. Its core is **xdebug**: a C++
program that answers queries about a design database and a waveform through
long-lived *engine* processes. A Python layer, **xverif_mcp**, keeps xdebug and
xcov loops alive for MCP clients and LSF jobs. The other tools (xcov, xbit,
xentry, xloc, xsva, xwaveform) are command line programs.

This directory holds specifications of xdebug, the TLC models that check small
instances of them, and the proofs TLAPS checks for every instance.
`PROJECT.json` maps each definition to the source lines it models.

## 1. Inventory

Paths are relative to `src/`; `xd` stands for `xdebug/src`.

| Component | State | Operations | Hard behaviour | Correct when | Module |
|---|---|---|---|---|---|
| File exchange (`xd/core/transport`) | directories requests, claims, responses, done, failed | send, claim, complete, stale scan, gc | rename races, crashes, deadlines, several engines | a request runs at most once; a refusal or withdrawal is final; nothing disappears; calls return | FileExchange |
| Native session lifecycle (`xd/engine/session`) | registry record, generation marker, endpoint, flock lease, processes | open, close, kill, gc, timeout containment | crashes between any two steps, pid reuse, remote hosts, failing writes | one engine per name, removal only after death, every wait bounded | NativeSession |
| Front end (`xd/api`, `xd/session`, `xd/backend`) | loop state, cleanup tokens, session catalog | read a line, dispatch, open, query, close, gc, expiry, batch | lost and late helper answers, other front ends on the same names | one reply per line in order; the undo of an open is its own; a batch is honest | SessionFrontend, SerialServer |
| Analysis cache (`xd/waveform/cache`) | results, indexes, cursors, tombstones, bytes | begin, grow, publish, fail, evict, invalidate | two budgets, deadlines inside builds and evictions | the charge is exact, no stale index or cursor | AnalysisRepository, AnalysisCache |
| AXI tracker (`xd/waveform/axi`) | open writes and reads, early data, counters | consume a sample, finish | data before address, several open transactions per id, reset | addresses and write responses accounted for, counters exact, data in address order, order per id, valid phases apart | AxiTracker |
| Clock sampling (`xd/waveform/common/clock_sampling.cpp`) | - | scan, expression scan, point queries | changes at the time of an edge, window borders, several names of one signal | all routes find the same edges and read the same values there, where a scan follows the signal | ClockSampling |
| APB, stream, event and signal analyzers (`xd/waveform`) | scan state | analyses and the actions on them | waits, back-pressure, packets cut by a window, early stops, limits | answers agree with the samples and with each other | ApbAnalysis, StreamAnalysis, StreamActions, EventAnalysis, SignalAnalysis |
| AXI and APB queries (`xd/engine/service/actions/protocol`) | cursors | query, statistics, outliers, export | bounded selection, paging, filters over X | agree with the transaction list | ProtocolQueries |
| Expressions, literals, filters (`stream_expr`, `logic_value`, `value_filter`) | - | parse, evaluate, render, match | unknown bits, widths, precedence | sound for every resolution of X | FourState |
| Driver and X tracing (`xd/combined`, `trace_x_origin.cpp`) | visited sets | chain, tree, X search | loops, limits, merged chains | a limit is reported; of every source that is not reported, one of the same identity is | TraceSearch |
| Session stores (`xd/waveform/{list,cursor}`, config managers) | one JSON file each | load, set, add, move, delete | writes that fail before or after the rename | always readable; only named entries change | WaveStores, StoreConfigs |
| Artifact publisher | temporaries and targets | stage, link, sync, roll back | concurrent exports, kill at any step, a rollback that fails | success: the set is whole; failure: nothing stays but what could not be unlinked | ArtifactPublisher |
| Schemas, rendering, logging | - | - | - | - | - |
| Python layer, LSF, ssh bridge; xcov, xbit, xentry, xloc, xsva, xwaveform | - | - | - | - | - |

**Interaction.** A front end runs a stdio loop; each session action and each
query starts a short-lived *helper*. The session manager in the helper spawns
*engines* and guards each name by a lease. Requests reach an engine over a
socket or the file exchange. The engine runs one action at a time: the
analyzers sample the waveform, keep results in the analysis cache, read their
configurations from the session stores and publish exports as artifact sets.
A timed-out request makes the helper contain the engine, and makes the
dispatcher undo an open whose outcome it does not know.

## 2. Modules

    FileExchange    <- FileExchangeProofs, MCFileExchange
    AxiTracker      <- AxiTrackerProofs, MCAxiTracker
    NativeSession   <- NativeSessionProofs, MCNativeSession
    SessionFrontend <- SessionFrontendProofs, MCSessionFrontend
                                               (implements SerialServer)
    SequenceFilters <- AnalysisRepository <- AnalysisCache <- AnalysisCacheProofs
    ArtifactPublisher <- ArtifactPublisherProofs
    SequenceFilters, StoreConfigs <- WaveStores <- WaveStoresProofs
    WaveStores, ArtifactPublisher <- MCStores
    SequenceFilters <- SequenceFiltersProofs <- AnalysisCacheProofs, WaveStoresProofs
    FourState <- EventAnalysis, SignalAnalysis, ProtocolQueries (+ ApbAnalysis)
    StreamAnalysis <- StreamActions
    ClockSampling, ApbAnalysis, StreamActions, FourState, EventAnalysis,
    SignalAnalysis, ProtocolQueries, TraceSearch <- MCAnalysis

### FileExchange

Each member of `Requests` is one call of `file_exchange_send_request`, each
member of `Workers` one engine process in `file_transport_loop`. The
directories are sets (`requests`, `claims`, `done`, `failed`) and a function
(`responses`); a step is one link, rename or unlink with the local computation
around it. Publication links a finished temporary file, so a request or a
response appears whole, and only if none was there.

| Code | Actions |
|---|---|
| file_exchange_send_request | SendRejected, Send, SendFailed, Poll, ReadResponse, ReadFails, Consume, TimeOut, Withdraw |
| file_transport_loop | Start, IdleExit, Heartbeat, NothingToClaim, HandlerReturns |
| file_exchange_scan_stale_claims | FindStale, RespondStale, MoveStale, ScanDone |
| file_exchange_claim_one, fail_claim | ClaimOne, Validate, FailRespond, FailMove, StampAndRun |
| file_exchange_complete_claim | CompleteRespond, CompleteMove |
| cleanup_ttl_dir | Fresh, applied where gc runs |
| environment | CallerCrash, WorkerCrash, Tick |

Abstracted: JSON, the id's random part (ids are never reused), the location of
temporary files. Both history TTLs are one constant. The clocks of caller and
engines agree; skew between hosts is not modelled.

Worth knowing when reading the properties: a response written after the caller
gave up stays in `responses/` (gc looks at done/ and failed/ only); a call that
returned `write_failed` may still be executed, because a failing fsync does
not take the published file back; a claim whose worker died between answer and
move is later filed as stale although it was answered - FirstResponseWins is
what keeps the caller from seeing that.

### AxiTracker

One sample is consumed in three kinds of step that `pc` forces into order:
`Consume` (reset, address handshakes, buffering of write data), `DrainBeat`
(one turn of the loop of drain_w_beats) with `DrainDone`, and `Respond` (B and
R handshakes, snapshot). `Finish` is finish(). Open transactions are sets
ordered by `seq`, which is the order of the deques. Data, strobes and response
codes are left out: nothing branches on them. The samples are those
process_edge can produce.

### NativeSession

One session name: its record, marker, endpoint, lease and the process table.
A helper's `pc` walks through `ensure_session`, `close_session`,
`cleanup_session_locked`, `cleanup` (gc), `terminate_on_timeout` and the
destructor of the session manager, one step for each registry write, marker
write, fork, signal and bounded wait.

| Code | Actions |
|---|---|
| ensure_session, spawn_server, wait_for_server | OpenReserve, ReserveFails, WriteMarker, MarkerFails, Spawn, SpawnFails, RecordPid, ServerReady, ChildExited, StartTimeout, Finalize, FinalizeFails |
| close_session, kill_session, cleanup | Close, GcSnapshot, GcClose |
| cleanup_session_locked | Mark, SendQuit, QuitFails, RemoteWait, WaitOver, WaitTimeout, Check, SendSignal, GiveUp, Purge, Remove |
| terminate_on_timeout | RequestTimesOut, Contain, ContainRemote, ContainCheck, ContainTombstone and the waits above |
| write_atomic_file, artifact removal | StoreFails, PurgeFails |
| ~SessionManager, end of a helper | DestroyClose, DestroyReap, HelperExits, HelperCrashes |
| engine and kernel | EngineServes, EngineHangs, EngineEnds, AlienStarts, AlienEnds |

A failing registry write may have happened: write_atomic_file reports an error
of the directory fsync after its rename. `StoreFails`, `ReserveFails` and
`PurgeFails` leave both outcomes open. A local engine that ends may unlink the
socket of its name whoever serves it then.

### SessionFrontend and SerialServer

Front ends share the session records and nothing else. One action is one helper
call or one read of the catalog; what a helper does under the lease
(NativeSession's subject) is one step with every outcome its caller can see.
Batches may contain batches: the ones a front end is in are a stack of frames,
the innermost last. `Token` are the ownership tokens clients send with
session.open; those the dispatcher draws itself are 32 random bytes, here
numbers, which no client comes up with. `Request` are the requests of the input
lines and of the children of batches.

| Code | Actions |
|---|---|
| run_stdio_loop | ReadLine, WriteReply, Eof |
| Dispatcher::dispatch, dispatch_impl | Dispatch, Lookup, ReplyInvalid |
| session.open, compensate_failed_session_open | Probe, OpenReserve, OpenEnd, Publish, Compensate |
| session.close, doctor, gc, idle expiry | Close, CloseAll, Doctor, Expire, Expired, GcDoctor, GcForce |
| queries | Query, QueryExpired |
| handle_batch | ChildDone, BatchDeadline |
| environment | EngineDies, Tick, FileChanges |

`SerialServer` is what the loop promises to the program at the other end of
its pipes: requests are taken one at a time, each gets exactly one reply that
names it, replies come in order, and what was taken is answered. The refinement
`ServesSerially` maps `pending` to the line a front end is serving and `replied`
to the ids on its standard output. `Safety` is what SerialServer may do, `Spec`
adds that it answers; ServesSerially is the whole of `Spec`.

### AnalysisRepository and AnalysisCache

The repository is a record and each of its methods an operator from record to
record, so that `AnalysisCache` can call several in one step as the analyzers
do. `fuel` is the number of deadline checkpoints a call passes before
RequestDeadlineExceeded is thrown out of its eviction loop, leaving what was
done. Access sequence numbers are only compared, so each map keeps its keys in
order of last access. An eviction loop is a fold over its candidates in that
order, one `evict_round` or `release_round` for each. Sizes are inputs; counters do not overflow at the sizes
used.

### Stores and artifacts

`WaveStores` follows one store file, chosen in Init, through every operation
that reads or replaces it. A write fails before the rename, or after it with
the new file in place. `StoreConfigs` holds the validation and the conversion of
configurations to and from their JSON; text fields are absent, bad or ok.
Where the code erases from a vector or rebuilds it from a std::map, the model
says `Filtered` (SequenceFilters) and `Increasing`.
`ArtifactPublisher` makes every system call of publish_atomic_artifact_set a
step, for two engines with overlapping targets that may be killed at any point.
`staged` are a publisher's temporaries on the disk. Each unlink of `~Rollback` may
fail, which the code ignores: of a target (`stuck`), of a temporary (`kept`). A
temporary whose close failed is unlinked at once, and stays, unknown to the
rollback, if that fails as well. So "all or nothing" cannot be said of a failed
export without exception; `ArtifactSetWhole` says that nothing stays but what an
unlink refused to remove.

### Analyzers and queries

These are sequential algorithms, written as operators. `MCAnalysis` grows an
input (samples, value changes, transactions, an expression or a design) one
element at a time; `Ask` is the moment requests are made about it, possible for
every input, and each property is `[][Ask => ...]_vars`: at that step it
compares different routes through the code with each other and with a
definition that looks at the whole input at once. `mode` says which analyzer
the input is for:

| mode | Input | Compared |
|---|---|---|
| clock | value changes of a clock and a signal | scan of a window, scan of all, expression scan, point resolver, budgets |
| apb | bus samples | the access rule, indexes, lookups, cursor walks, apb.query and apb.export |
| flow, packet, interleaved, late | stream samples for four kinds of configuration | cached base, legacy scan, a reference; totals, truncation flags and rows of the actions |
| expr | a syntax tree | parse of its print; evaluation under X against every resolution; literals and rendering |
| event | samples with slices | matches, limits, groups, previews; order comparisons |
| window, bit, bus, counter, shake | signal samples | window.verify, changes, statistics, pulses, counters, handshakes, stalls |
| txn | recorded AXI transactions | lookups, outliers, filters, pages, statistics, cursor, export |
| design | three signals with drivers and values | chain against tree, limits against the full walk, X sources against reachability |

`ClockSampling` scans a sequence of aliases, several of which may be the same
signal or the clock, as callers pass them. ClockSampleScanner keeps one value for
each alias and stores a change in the first that has the signal (`store_value`);
a clock change goes to none. So `WindowIndependent` promises that a window shows the
values of the full scan for the aliases that are `Followed`, and what the others show
instead: their value before the window. The run samples a signal, the clock and the
signal again. ClockExpressionSampleScanner keeps values by signal and follows all its
aliases.

In `TraceSearch` an X search merges chains of the same identity, as the code does,
and the run has a boundary with two unknown ports. `XOriginsFound` therefore speaks
of every source only where no two chains of one identity lead apart (`Forked`), and
elsewhere of a reported chain with the identity of each source's chain.

Simplifications: std::sort is stable where the code leaves ties open; the
per-id outstanding statistics are left out; the FSDB iterator and the NPI
database are inputs. Code that no action reaches is not modelled: the second
expression parser (event_expr.cpp), run_trace_bfs, get_latest_event, and the
preview branch of axi.export.

## 3. Runs

Each passing run finishes within four minutes with two workers. Deadlock
checking is off because each system may stop: every call returned, the input is
complete, or the bound on generations is used up.

| Run | Question | Bounds and why they are enough |
|---|---|---|
| FileExchangeWorkers | safety with competing engines, crashes, failing writes | one request and two workers: every property speaks of one request, and two workers are what a claim race or a stale scan of somebody else's claim needs; three clock ticks put each step before, at and after deadline and claim timeout |
| FileExchangeLive | every call returns; a crashed worker's claim is resolved | one request, two workers that may both die, no I/O faults |
| AxiChannels | matching, counters, order and times on both directions | two ids, bursts shorter and longer than announced, four samples: two open transactions of one id, early data, interleaving, a stalled phase after a handshake and a reset |
| NativeQuiet | one engine per name, cleanup completes, gc spares the healthy, the lease is released | two helpers, two pids, two generations: an old and a new incarnation of the name and a helper that still works on the old one; no crashes |
| NativeCrash | what holds under crashes, pid reuse, failing writes, a remote helper | as above, one helper remote |
| AnalysisCacheBudget | accounting, ownership of indexes, cursors, hard limit | two configurations of one name, two stream digests, budgets that hold two small results; deadlines at the first, second or no checkpoint |
| AnalysisCacheTimeout | *violated*: nothing is building when no request runs | as above |
| FrontendSessions | compensation, cleanup reports, batches, refinement of SerialServer | two front ends, one name, two lines and one line; one environment event; two generations: an open that is undone while another takes the name |
| FrontendGc | *violated*: gc and expiry remove what they judged | two front ends that open or collect |
| Stores | stores readable, only named entries change, artifact sets whole up to failing unlinks | two names, three entries; two publishers that share one of two targets |
| Analysis | all analyzers and queries | three samples, five instants, two transactions, three signals: an event before, in and after each other one |
| WindowVerdict | *violated*: a verdict of window.verify holds for the whole window | three samples, two conditions |

What the properties say is in the comment above each of them. The findings:

- **A deadline leaves a key building.** A build catches std::bad_alloc only; the
  deadline's exception leaves the reservation and its bytes, and every later
  request for the key is refused as a re-entrant build.
- **session.gc closes a session it did not judge.** An opening record is
  unhealthy; gc closes by name, without generation, what has meanwhile become
  active.
- **window.verify stops too early.** With every eventually seen, the scan stops,
  although always or never conditions are still open.

Further behaviour met while modelling, in which the code does what no document
forbids, or which is recorded here instead of in a run:

- The file loop sets `last_active` before it runs a request: after a request
  longer than the idle timeout the engine leaves at once (server.cpp:632).
- The pid is compared with the session before SIGTERM only; SIGKILL follows
  without a second look (session_manager.cpp:918).
- A helper that dies after the fork and before the pid is stored leaves an
  engine whose endpoint the next open of the name accepts (:786), and one that
  dies before the generation marker leaves a record no cleanup removes
  (xdebug_design_paths.cpp:233). With crashes on, OneEnginePerName and
  CleanupCompletes do not hold for these reasons; NativeCrash checks what must
  hold nevertheless. A remote `retire` removes a record without proof that the
  engine is gone, as the code documents.
- Order comparisons in event expressions pad bit strings to the wider *text*:
  a 4-bit value of 15 is found >= 'h10, since "1111" is compared with "10000"
  from the left (event_analyzer.cpp:272). `OrderNumeric` states when the
  comparison is numeric.
- stream.config.load stores the configuration before it tells the cache: a
  deadline at either checkpoint of notify_stream_config_changes leaves the old
  digest's entries charged until they are evicted (analysis_repository.cpp:1110,
  :1134). They are keyed by digest, so no query is answered from them.
- event.find with mode first stops early and still reports scan_complete.
- apb.query and axi.query drop transactions whose address is unresolved by a
  filter without a count; parse_hex_value (apb_analyzer.cpp:45) keeps the known
  digits before an X.
- first_high_time takes time 0 for "not seen yet": a signal high from the start
  reports its next high change (signal_analysis.cpp:963).
- The publisher's catch-all turns a deadline into an artifact error
  (atomic_artifact_publisher.cpp:208).
- ClockSampleScanner::scan stores a change for the first alias of its signal and
  never for the clock (clock_sampling.cpp:359, :370). A second alias of a signal, or
  the clock sampled as a signal, keeps its value of begin - 1, so what is read
  there depends on where the scan begins. Callers do not remove duplicates: an event
  configuration may name the reset signal, two AXI roles one signal. The expression
  scanner drops duplicates before it scans (:417), and with them the name: a clock
  expression with two names of one signal fails as "clock dependency missing"
  (stream_analyzer.cpp:454). The models of the analyzers take samples as inputs, that
  is, they are about configurations that name distinct signals.
- trace.x_origin merges chains whose identity (hops without ports and inputs) is the
  same (trace_x_origin.cpp:665): with two unknown ports at one boundary one source is
  dropped, a chain that ended in a loop may take the place of one that found a source,
  and a merged chain that was cut off at a depth limit is not mentioned. The answer
  stays complete.
- publish_atomic_artifact_set ignores failing unlinks in its rollback
  (atomic_artifact_publisher.cpp:182): a failed export may leave temporaries or
  targets, and does not say so.
- In the driver searches, a force on a connected input port stops
  trace.active_driver but not the chain; references get no edge from their
  parent; a depth cut among references is not flagged; at_fsdb_start is lost when
  the X run has several changes; a max_trace_signals cut inside a merged chain
  leaves the answer complete.

### Fairness

- FileExchange: time passes; a caller in send_request keeps polling, since its
  loop contains only bounded file operations and usleep; a live engine keeps
  turning its loop and its handler returns. Crashes, failures and new calls are
  never forced, so CallReturns also covers a directory nobody serves.
- NativeSession: a helper inside an operation keeps stepping, since each of its
  waits has a limit in the code. Neither engines nor other helpers are assumed to
  do anything, and a helper may crash. Waiting for the lease itself is not
  limited; LeaseReleased says that its holder lets go.
- SessionFrontend: a front end that serves a line keeps going, since a helper
  call ends with an answer or with the process runner's deadline. Lines, end of
  input and engine deaths are not forced.

## 4. Proofs

TLAPS checks eight modules of proofs: one for each of FileExchange, AxiTracker,
NativeSession, SessionFrontend, ArtifactPublisher, AnalysisCache and WaveStores,
and SequenceFiltersProofs with the lemmas the last two share. Every invariant and
every action property (`[][A]_vars`) that a passing run checks of these components
is a theorem, and so is the safety part of the refinement. The assumptions are
the ASSUMEs of the models: the types of the constants, that `None` and its like are
no members of the other sets, and TokenAssumption. Sets of requests, workers, ids,
samples, helpers, pids, front ends, names, targets, keys and documents, timeouts,
budgets and the bounds that keep TLC finite are arbitrary. Three theorems about
NativeSession have further hypotheses, given below.

Each of the invariants below was checked by TLC on the run of its component
before it was proved. Each proof has one step per action; lemmas on the shape
of a step (what it leaves alone, what it may move) carry what several actions
share.

*FileExchange.* Type correctness needs `LocalsOK`: a worker's local variables
fit its program counter. AtMostOneRun is not inductive, since it says nothing
about where the file is. The inductive invariant is `RequestLifecycle`, for each
request the conjunction of

- `BeforeClaim`: while the request is in requests/, not sent or withdrawn, no
  claim, worker or response knows it;
- `OneHolder`: at most one worker holds it, and the worker's pc tells whether
  its handler was entered;
- `Definite`: it ran at most once, not at all if it was refused, once if it was
  answered.

`CallerLifecycle` and `WorkerLifecycle` prove preservation, `FrameLemma` and
`UntouchedLemma` handle the actions that do not concern the request. RunOnce,
WithdrawalFinal, RefusalDefinite and AnswerGenuine follow. FirstResponseStays is
an action property and needs only the types. NoRequestLost needs `TraceInv`
besides: gc drops files by *their* age, NeverLost speaks of the age of the
*request*, so `Dated` follows the times through claim stamps and renames (no
file or claim of a request is older than the request), and `Accounted` says
where the request is.

*AxiTracker.* `TrackerInv` holds types, sequence numbers that are distinct and
not above next_seq, exact counters and the balance of AW, AR and B handshakes
(W and R beats have none: a reset does not count the beats it drops). The counters
need the distinctness: a set that replaces a transaction by its updated copy
keeps its size only if the copy is not already in it. `StepMoves` says what any
step does to the open and completed transactions of a direction (some opened
with fresh numbers, at most one completed, or all dropped); `MovesDistinct` and
`MovesExact` show once that such a move keeps the numbers distinct and the
counters exact. `OrderInv` carries DataInAddressOrder and SameIdOrder, which
support each other (the oldest complete write of an id is its oldest open one
because data arrives in address order), and the times: of open transactions, of
buffered beats, which are in order of arrival and later than the beats already
attributed, and of the remembered begins of valid phases. `PhaseInv` is what keeps
the phases apart: every handshake so far was before the phase that is tracked now.
For write data this is said of the buffered beats too, and it needs that a write is
filled after all older ones, also those answered meanwhile. TimesAreOrdered follows
from both.

*NativeSession.* `SessionInv` holds under crashes, failed writes, pid reuse and
remote helpers. `GensDrawn` says that no generation is in use that was not
drawn, so a new one is really new; `LeaseHeld` that the lease is exclusive and
held exactly at the steps that change the session; `RecordInv` what the record
promises anybody; `HolderInv` what the holder of the lease may rely on at each of
its steps: that its copy is still the record's generation, that a pid it knows is
the only one with an engine of it, that after the checks no engine is left. The
copy is what the code works with after the record was written, and the record is
what a crash leaves: neither is enough alone. ActiveIsCleanable,
CleanupProvesDeath and TombstoneIsSound follow.

The other three properties do not hold in general, for the reasons listed in
section 3 (a helper that dies between the reservation and the marker, or between
the fork and the record of the pid; a remote retire). Their theorems say what
must be excluded. CleanupAlwaysCompletes assumes ~HelpersCrash and ~IoFaults,
and adds `MarkerFits`: only a helper that is about to write the marker sees one
of another generation. OneEngineOnly and GcIsHarmless assume
RemoteHelpers = {} besides, and add `QuietInv`: every engine is named by the
record or the holder's copy (`EnginesKnown`), once a session is finalized its
engine has started and serves the endpoint (`ServedInv`), and a gc that judged an
active record stale finds no engine if that record is still there (`GcInv`).
Pid reuse is not excluded anywhere.

*SessionFrontend.* `FrontInv` is the types of the loop, `Held` (a front end whose
helper opens a session has the lease and the record), `TokInv` (a drawn token is
never drawn again, has one holder, and marks records of its holder's name only)
and `RepliesInv`. The last is about replies that were written long ago: it says
that the token of a reply that reports cleanup is `Dead`, carried by no record and
by no open that has yet to reserve. Dead tokens stay dead, whereas "no record carries
it now" is not inductive; for a batch it describes each frame of the stack.
BatchIsHonest and CleanedIsGone follow; CompensationIsOwn needs Held and TokInv
for the undo's step. FrontServesSerially shows each action to be a step of
SerialServer or a stutter.

*ArtifactPublisher.* `PublisherInv` says what the place in the call tells about
the two lists the rollback works on (`ListsFit`), and that the targets a publisher
owns and the temporaries it has on the disk are those its rollback would unlink, up to
the ones that could not be (`FilesFit`, `StagedFit`). PublishIsAtomic follows.

*AnalysisCache.* `CacheInv` is the invariant of the repository, `RepoInv`, with
what the analyzers add: the key each cursor name is bound to, and that an index
under construction is in its map (`JobInv`). No part of RepoInv is inductive without
the others:

- `Linked`: a result has the generation of its key, a cursor no newer one, an index
  that of its ready owner. CursorBound alone breaks in the step that analyzes an
  evicted key again: that the new generation is not below the cursor's follows only
  from gens, which keeps the entry as long as a cursor needs it;
- `Tallied`, `Described`, `Charged`: the counters are the totals over the maps, the
  metadata is that of the counted records, the charge that of the three. The code
  subtracts with a floor at zero (`Less`); only exact totals show that the floor is
  never reached;
- `NotYetResident`: what is being built has no resident bytes, so that
  abandoning it, which gives back its estimate only, keeps the totals;
- `Typed`: among other things, no key has two tombstones.

An eviction loop is a fold. The induction over the candidates is done once, as
first-order induction over the prefixes of the sequence, and the sums over entries
as induction over the subsets of a finite set (`PeelingExists`,
`PeelingInduction`): both work on sets, so no lemma needs an operator as parameter.
`ObjectsWithinHard` then needs no more than that each
growth is preceded by an answer of make_hard_room about the charge of that moment.
`CacheAssumption` and `BudgetAssumption` say that sizes, budgets and metadata
sizes are natural numbers and that the soft budget is within the hard one, which
analysis_cache_config_from_environment enforces. Saturating additions are exact in
the model, so the theorems speak of totals below 2^64.

*WaveStores.* `StoreInv` says of every entry what its parser demands (`EntryOk`), of
the file that identities are unique and at most one cursor is active (`Identified`,
`OneActive`). It speaks of the *set* of entries, and of the sequence only that it
lists the set without repetition (`Listing`): a filter, an append, a merge into a
map and a move to the end are then operations on sets. `GoodReadable` shows that a
store with the invariant is readable. The round trips are lemmas about StoreConfigs:
`EventWritten` and `StreamWritten` show that the entry made of any accepted document
is accepted by the parser of the store, and, for streams, that writing what was
read gives the same entry; without the latter the next operation would refuse the
file as not canonical. For APB and AXI the code itself parses the entry before it
stores it. `Proper` is what an outcome of a mutation must satisfy; `UpdateStep` shows
once that store_update with a proper outcome keeps StoreInv and NamedEntriesChange,
whether the write succeeds, fails or fails after the rename. `StoresAssumption` says
that names are positive numbers (0 is a name that is not valid), that leaves are
signals, and that a stream document has a name field.

What stays with TLC:

- liveness: CallReturns, StaleClaimResolved, LeaseReleased and the fairness of
  SerialServer in ServesSerially; the prover does not reason about ENABLED;
- the analyzers (`Analysis`): what a recursive algorithm returns for every
  input; FourState, EventAnalysis and ApbAnalysis, and what uses them, also
  contain RECURSIVE definitions;
- the three violated properties, which are counterexamples.

## 5. Not modelled

- The request schemas (runtime_schema_validator.cpp), renderers and builders of
  text output, and logging: stateless conversions of JSON and text.
- Queries answered by the proprietary NPI design database (`xd/design`), which
  is outside the repository; TraceSearch takes its answers as inputs.
- Operands wider than two bits in the run of the expression evaluator: that wider
  than 63 bits compares as unknown (stream_expr.cpp:97) is in FourState, no input
  reaches it.
- Size estimates, unit conversion of times, the layout of CSV and JSON rows,
  packed aggregate values.
- session.touch, diagnose_session's details, kill_all over several names, the
  time between fork and exec in which a child shares the lease's descriptor, and
  a signal refused with EPERM.
- The Python layer (loop sessions, JSONL process, wrapper, MCP server, ssh
  bridge, LSF) and the command line tools: programs of their own around or
  beside xdebug.

## 6. Running

    tlc -workers 2 -config NativeCrash.cfg MCNativeSession.tla
    tlapm NativeSessionProofs.tla

The module of each configuration is listed in `PROJECT.json` under `runs`.
