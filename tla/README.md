# A verification project for grpctestify

grpctestify runs `.gctf` files: texts that describe gRPC calls and what they must
answer. This directory holds TLA+ models of the parts of it where order, timing
and failure matter, the TLC configurations that check them on small instances,
and TLAPS proofs of what matters most. Every definition that stands for code is
listed, with the lines it stands for, under `map` in `PROJECT.json`.

## The system

| Component | State it keeps | Operations | Talks to |
|---|---|---|---|
| Parser, AST (`crates/apif-parser`, `crates/apif-ast`) | none | text to a chain of documents, each a list of sections with attributes | everything |
| Validator (`apif-parser/validator.rs`) | none | rejects documents no runner should see | run, check, LSP |
| Document runner (`src/execution/runner.rs`, `run_one`) | position in the document, request channel, spawned call, response stream, deferred expectations, failures, last message and error, variables, captured response | send a REQUEST, read for a RESPONSE, ASSERTS or ERROR, extract, drain, give a verdict | transport through a channel and a task handle |
| Call transport (`src/grpc`, `crates/apif-grpc-transport`) | none of its own | `call_stream` for native gRPC, gRPC-Web, Connect | the server |
| Client caches (`tonic/client.rs`, `channel.rs`, `descriptor.rs`) | channels, descriptor pools, a mutex for loading one | make a client: look up or create a channel, look up or load a pool | every test, the server's reflection |
| Chain, retry, snapshot (`run_single_test`, `ChainAccumulator`, `update_test_file`) | attempt, accumulated result, variables, the file | run documents in order, retry transport failures, rewrite the file | runner, file system |
| Suite (`run_tests`) | fixtures, work queue, tests in flight, results, reporters | set-up, bounded-parallel tests, tear-down, reports, exit code | test run, reporters |
| Bench (`src/commands/bench.rs`) | workers, request budget, deadlines, histogram, metrics | closed and open load models, warm-up, stop reasons | runner, sources |
| Data sources (`crates/apif-source-row`) | row cursor, state of a CROSS join and cache, each under a mutex; index | next row, look-up, reset, build index | bench, suite |
| 2Q cache (`crates/apif-twoq-cache`) | hot and cold maps, a queue of keys for each | get, insert, remove, evict | sources |
| HTTP call (`src/grpc/web.rs`, the HTTP arm of `client.rs`) | a decoder's buffer, messages, trailers and error parsed so far | choose the exchange, decode frames as chunks arrive or after the last, fall back, find the status | runner, the server |
| Comparison (`crates/apif-assert/src/comparator.rs`) | none | does a message answer what a section expects | runner |
| Assertions, query, optimizer | none | evaluate or rewrite an expression | runner, check, LSP |
| Plugins (`crates/apif-plugins`) | loaded scripts, trust store | load, confirm, run, install | assertions, reporters |
| Reporters (`crates/apif-report`, `src/report`) | accumulated results | `on_test_start`, `on_test_end`, `on_suite_end` | suite |
| Language server (`src/lsp`) | text, version, parse and caches of a document, each map under its lock | open, change, save, close, requests, publish diagnostics | parser, validator |
| Web server (`src/serve`) | project, history file, watcher stamps | run, save, list, watch | runner, file system |
| Commands (`explain`, `inspect`, `fmt`, ...) | none | read, print or rewrite one file | parser |

What is hard here:

* the runner, the spawned call and the server advance independently; the request
  channel is bounded; a reader awaits the call while the call may await the
  requests; a read times out while a late answer is on its way;
* streams are over- or under-delivered, and several sections share one stream;
* expectations are deferred, repeated, retried, skipped and attached, and a test
  must not pass with one of them lost;
* tests run in parallel between two barriers, fixtures fail, reporters fail;
* a transport failure is retried from the start, with fresh variables, and a
  response captured on the way may be written back to the test file;
* the file is rewritten by the line numbers of an earlier parse;
* bench workers keep to a request budget, a rate and a deadline while calls are late,
  tasks panic and the user interrupts;
* workers share a source of rows, whose locks are taken and released between the
  steps of one call; a cache evicts what another caller has just looked up;
* an HTTP body is cut into chunks anywhere, may end anywhere, and carries the status in
  one of three places;
* tests start together and want the same channel and the same descriptors;
* the handlers of the language server overtake each other at every lock;
* arrays without an order are matched item by item, and the first match is not
  always the right one.

What makes each part correct: the runner passes a test only on checks it made, in
the order of the stream, and always ends; a unit retries only what may be retried
and mixes nothing of two attempts; a suite runs tests only in an environment that
was set up and tears down last, whatever fails, and its exit code says what
happened; a snapshot is a test that passes on the answer it was taken from and
changes nothing else; the bench counts each request once and stops where it was
told to; a shared row source deals each row once; a cache never returns a value of
another key or revision and stays within its limits; an HTTP call delivers the server's
messages and its status, however the bytes arrive.

## The modules

    Document ── Runner ── RunnerProperties ── MCRunner
                  └─────── Runner_proofs (with RunnerProperties)
    SuiteSpec ◄─refines─ SuiteRun ── MCSuiteRun
                            └─────── Suite_proofs (with TestRun, Snapshot)
    TestRun ── MCTestRun
    Snapshot ── MCSnapshot
    Comparison ── MCComparison
    HttpCall ── MCHttpCall
       └─────── HttpCall_proofs
    ClientCaches ── MCClientCaches
       └─────────── ClientCaches_proofs
    BenchSpec ◄─refines─ BenchClosed ── MCBenchClosed
        ▲                   └────────── BenchClosed_proofs
        └──────refines── BenchOpen ── MCBenchOpen
                             └─────── BenchOpen_proofs
    TwoQCache ── RowSource ── MCRowSource
                    └──────── RowSource_proofs
    LanguageServer ── MCLanguageServer
       └───────────── LanguageServer_proofs

The levels of a test meet at single steps. What `SuiteRun` calls a test, from
`StartTest` to `EndTest`, is a whole behaviour of `TestRun`; what `TestRun` calls
`RunDocument` is a whole behaviour of `Runner`, after `ClientCaches` made its client;
what `Runner` calls a comparison that holds is `compare` of `Comparison`, and what it
calls an exchange over HTTP a behaviour of `HttpCall`. Each level
keeps of the one below only its outcome, and assumes of it only that it ends: of
`Runner`, `EndsUnlessStalled` shows it for every server but one that
`Termination` (below) is about. `Snapshot` opens up the step of `TestRun` that writes
the file (`Conclude`). A worker of `BenchClosed` or a task of `BenchOpen` takes its
row from `RowSource` and runs its document; the bench sees that a call ends or
panics. `RowSource` composes its callers with the cache: it EXTENDS `TwoQCache`, its
callers take the cache's actions, and an invariant ties the two (`busy =>
cache_locked`).

### Document, Runner, RunnerProperties: `run_one`

`Document` is a parsed document: a sequence of sections with what they send or
expect, their attributes, `with_asserts`, and the attribute inheritance and
RPC-mode inference that the runner asks of it.

`Runner` is one call of `run_one` against one server. Its actors are

* the runner: one action for each stretch of `run_one` between two awaits, guarded
  by `pc`. `Start`, `SkipSection` and `EnterSection` walk the sections;
  `SendRequest`, `SendFails`, `RequestSent` are a REQUEST; `DeferResponse`,
  `EnterReader`, `StreamReady`, `StreamStartFails` are the way from the request
  side to the response stream; `StartResponse` to `AttachResponse` are a RESPONSE
  with its drain and its attached ASSERTS; the `Assert...` and `Error...` actions
  are the outcomes of those sections; `FinishSections` to `GiveVerdict` are the
  tail and the verdict;
* the spawned call: `PullRequest`, `HeadersArrive`, `CallSucceeds`, `CallFails`,
  `DropRequests`, with the differences between native gRPC and the HTTP protocols
  (who collects the requests first, who returns before the response is complete,
  who drops the receiver);
* the server: it may send any message, trailers or an error, or stall, at any time
  that the protocol allows.

`chan` is the tokio channel with its bound, `wire` the items received and not
read, `captured` the response kept for a snapshot. `due` and `met` are history
variables: the expectations the runner came to and the ones it found to hold. They
exist because the code has no such count; the properties are about them. Payloads
are model values; a comparison holds or not, which is all the runner sees of it.

`RunnerProperties` states what a run promises. `NoSilentPass` compares the ledger
with an independent count of what the sections of the document state;
`EveryCheckHeld` compares what was reached with what was settled;
`VerdictFollowsStream` (`PassedInOrder` and `FailedForCause`) compares the verdict of a
`Streamlined` document, one that checks the stream with RESPONSE sections alone and whose
last one runs once, with the server's own list of messages; `SnapshotComplete` the captured response with it.
`Accountable` names the three places over HTTP where the code parts a check from its
section: the ASSERTS of an empty ERROR when an error has no status, expectations put off
past the last RESPONSE, and attached ASSERTS in an HTTP bidi document.

### SuiteSpec and SuiteRun: `run_tests`

`SuiteSpec` is the promise, with no schedule in it: units (set-ups, tests,
tear-downs) that each end once, in an order given by `Before`, and an exit code.
`SuiteRun` is the code: a loop over directories, a `buffer_unordered` stream of
`parallel_jobs` tests that ends when it is drained, a second loop, the reporters
one after the other, the exit. Names follow the source (`active_dirs`,
`dir_setup_vars`, `dirs_setup_failed`, `item_skipped_by_setup`,
`total_reported`, `parallel_jobs`). `PromiseKept` says that `SuiteRun` implements
`SuiteSpec`; the mapping is the identity on the variables they share.

### TestRun: one file, row or fixture

The chain of documents of a unit, its attempts, the variables they share and the
accumulated result (`acc`, the code's `ChainAccumulator`); `current` is the document
that is next. What becomes of a document is one of six `Causes`, which differ in three
ways: whether the chain goes on (`Fails`), whether the failure is one of transport
(`FailureKind`) and whether `run_one` hands over what it buffered (`Responds`). It does
when the runner heard the server out or the transport broke, not when a document is
rejected before its call, a REQUEST has an unresolved placeholder, or a call refused at
its start was expected to fail; the accumulator then keeps the response of an earlier
document (`LastResponse`). `SnapshotOfLastAttempt` says what this leaves of a
promise: what is written is the last response the last attempt heard, and a test that passes
leaves nothing it heard unwritten. That it may be the answer to a call before the last
is a disagreement (`FinalResponseWritten`, below). Each variable bound
carries the attempt and the document that bound it, and each run of a document is
kept in `log`, so that the properties can say where a value came from.
`Effective` is the precedence of attributes, OPTIONS and command line. Its Init, Next and
Spec are `TestInit`, `TestNext` and `TestSpec`, and those of `Snapshot` likewise, so that
one module can prove about both and `SuiteRun`.

### Snapshot: `update_test_file`

A file (`disk`) is a sequence of lines: headers, attributes, blanks, lines of JSON, other
text; `Words` are the texts of lines that are not JSON. The parser is a fold over them, as
the loop over tokens in the source: `Found` is what `ParseLine` makes of one line after
the other (`Opened` at a header, `AddLine` for content), `EndLine` where a section is
taken to end, and `Sections` the result. `Updated` is `update_test_file`, section by
section as in the source, with its three cursors. Two tests of one file and an editor act
on it (`ParseFile`, `Read`, `Replace`, `GiveUp`; `Edit`), because `run` keeps a path given
twice and because the file is read again after the call. `last` remembers a write made by
a test whose parse nobody has overtaken; the properties are about such writes.

They have one more premise, `HeldAdjacent`: the attributes of the file that was written
over stand directly above a header or another attribute. It is the layout of every guide.
The source counts a section's end in lines of content, so an attribute with content
between it and its header makes the end of the section before fall short, and the
properties do not hold (see the disagreements). `RestIsKept` says what a write leaves
alone: `ReadThrough` reads a text with no notion of where sections end, and keeps what
stands outside the bodies a snapshot is for. `SnapshotHolds` is about those bodies:
`ReplaysItsAnswer`, that the new file passes on the answer it was written from, and
`ChangesNothingAgain`, that writing the same answer over it leaves it as it is.

### Comparison: `validate_message`, `compare_recursive`

JSON values are records; the comparison is written as in the source: wildcard first,
then by type, objects with defaults that may be missing, arrays in order or by a fold
that takes items one at a time, numbers exactly, within a tolerance or within
rounding noise (one part in `Noise` here, 1e-9 in the code). `Answers` says what an
expected message is without saying how to look for it: by an injection from expected
items to items. `RightVerdict` has two parts. `PassesOnlyAnswers` compares the two on 350,000 cases; the converse
holds only where arrays have an order (see the disagreements).

### HttpCall: a call over gRPC-Web or Connect

One call from its requests to the items of its stream. `path` is the way the source
branches: several requests at once, gRPC-Web, unary Connect, a Connect stream. `Chunk`,
`BodyEnds` and `BodyBreaks` are the connection: a chunk is cut at any byte, and the body
may end or break at any. `PopFrame` is the loop over complete frames, one step for each;
`WebAnswer`, `StreamAnswer`, `UnaryAnswer`, `MultiAnswer` and `HttpError` are what each
way makes of the end of the body, with its fallbacks. A frame has a size, a name for its
message and the encodings it can be read in; bytes of payloads, compression and base64
come down to that. `DeliveredAsSent` is about the messages, `StatusSurvives` about the
status: `ends`, `said` and `SaidInFull` are where a server may give it. What a body holds
and what a test was given are recursive functions (`Offset`, `Legible`, `Delivered`).
`Runner` keeps of all this that the items come when the exchange is over.

### ClientCaches: `GrpcClient::new`

A client is made in steps between which others run: `GetChannel`, `CreateChannel`
(check, then create, then insert, and the wholesale `clear` of a full cache), `GetPool`,
`Lock`, the second look-up, then `LoadFile` or reflection. Reflection is `Seed`,
`Fetch` and `FetchAll`: a stack of names to ask for, replies of one file or of a file
with all its imports, a request that fails and is passed over, the retry with the
full list of services. `Build` makes a pool only of files closed under import.
`loads` and `losses` are history variables: pools loaded, and pools loaded while a
request had failed.

### BenchSpec, BenchClosed, BenchOpen: the load models of `run_benchmark`

`BenchSpec` is the promise, without workers or clock: at most a budget of
requests, each of which ends counted, dropped because it was late in a mode that
drops, or lost with its task; one report, when all have ended, of those counted.
`BenchClosed` is the closed loop. A worker is `Spawn`, then `Head` (deadline,
shutdown, share), the sleep until its slot, `Send`, `Finish`; `Join` merges metrics,
`Report` derives the stop reason. Time is `Tick`, which may come between any two
steps; the rate of the schedule is a gap between requests for each tick.
`BenchOpen` is the open model: `NextArrival` and `SpawnRequest` are the scheduler,
`Acquire` to `Record` a request's task with its semaphore, `Drain` and `Abort` the end
under each `duration_stop`. Both have `Panic` and `Shutdown`. `PromiseKept` in each is
`BenchSpec`, its liveness included, under a mapping that sums over workers or counts
tasks. A sum over workers (`Total`) is the number of pairs of a worker and a number up to
its count (`Units`): what is moved from one count to another is moved between sets.

### TwoQCache and RowSource: the rows of a data-driven run

`TwoQCache` is the cache with one step for each iteration of its eviction loops, so
that a loop that cannot end would be seen; `Get`, `Insert` and `RemoveKey` start an
operation, `Return` ends it. `RowSource` is `next_row` as several workers call it:
each lock of the source (cross state, reader, dimension cache) is a place a caller
stops at, so `Check` and `Combine`, or `Read` and `Rewind`, may be separated by other
callers. `dealt` is a history of what the calls returned. `RowsDealt` has two parts:
`DealtInOrder`, that a caller alone is dealt what each pass over the file yields
(`Pass`: every row that fits, with every `Combination`, which is the digits of its
number), and `DealtOnce`, that callers who share a source are dealt rows of it, joined
as it says (`Joint`), none of them twice before the first rewind.

### LanguageServer: one open document

`Receive` is the editor: it edits, saves, closes and asks. `Proceed` runs a handler from
one await to the next; a handler's `at` names the await it is at, and each map that the
source locks on its own is a step of its own (`invalidate_docs`, `invalidate_versions`,
...). A text is its number, so that "kept under the version of another text" can be
said. `overtaken` remembers which messages met, since the properties promise an order
only to messages that did not.

## The runs

| Run | Instance | Shows |
|---|---|---|
| `runner` | 14 documents, one of each shape the guides describe; native gRPC in its four kinds and HTTP bidi; every mix of `--write`, exchange capture and `--no-assert`; messages `a`, `b`; two status codes; channel of 1; at most 2 items from the server. 776,000 states | the runner's safety properties, that it ends, and no deadlock, with a server that may do anything |
| `suite` | 2 directories, 4 work lists of up to 4 items with doomed ones, all sets of fixtures, 2 reporters, `--parallel` 0 and 2. 19,000 states | the suite's properties, `Exits`, and that it implements `SuiteSpec` |
| `test_run` | chains of 1 to 3 documents, each kind of unit, 3 ways to ask for a retry, 2 to forbid it, with and without `--write` and capture. 44,000 states | the unit's properties |
| `snapshot` | 5 layouts, 4 answers, one- and two-line messages, 2 tests and an editor, 2 changes of the file. 214,000 states | what a snapshot keeps and that it replays |
| `comparison` | every pair of scalars, of arrays of up to 3 items, of objects and of nested values, under each option. 353,000 states | a message passes only if it answers |
| `http_call` | both protocols, every mode, with descriptors, without and with the wrong ones, 0 to 2 requests; bodies of up to 3 frames of up to 2 bytes, framed, unframed or in base64; statuses in the body, the headers, both and neither, in full in a last message or not; HTTP errors. 550,000 states | messages in order and whole, the server's status, every call ends |
| `client_caches` | 2 clients, 2 calls each, 7 configurations over 4 files that import each other, a cache of 1 channel, 1 failed request. 286,000 states | one load for each pool, complete pools, every client made or refused |
| `bench_closed` | 2 workers, 1 and 2 documents, time and count, with and without a rate. 815,000 states | budget, pace, deadline, the promise |
| `bench_open` | up to 4 arrivals, 1 and 2 permits, flat and varying rates, a window of no length, all three `duration_stop`. 42,000 states | arrivals as scheduled, the promise |
| `rows` | 1 caller past two passes and 2 callers past one, every join, with index and without, a cache of 1 and 1. 18,000 states | each row dealt once and in order, a sound cache, calls that return |
| `language_server` | 2 messages at once, 3 edits, 1 save, 1 request, close; the second edit does not parse. 329,000 states | no cache keeps a text under another's version, the last edit wins, nothing deadlocks |
| `rows_race` | two callers of a CROSS join | the disagreement below |

### Bounds, and why they are enough

`REQUEST_CHANNEL_BUFFER = 1` makes a full channel the common case (the code has
more room and so blocks later, in the same way). `MaxItems = 2` lets the server
send fewer messages than expected, as many, and one more, for documents that
expect at most two; a wrong message needs a second payload and no third. Two
status codes tell the retried one from the rest. Two directories and two workers
are the least with a set-up that fails for one and not for the other, and tests
that overlap; `--parallel 0` is the boundary the code clamps. One retry separates
"first", "last" and "one too many" attempts. A message of two lines next to one of
one line makes files grow and shrink under a snapshot; two changes are a write
overtaken by another or an edit, and an edit before a write.

A cache of one hot and one cold key evicts on nearly every look-up, and three
keys, one unknown to the dimension, meet each of its cases. One channel in the cache
makes every second server clear it; two services that share imports and one failed
request are the least for a pool that misses a file. A worker's third request is the
first that could come too soon after a late one, so the closed bench has time for
three; the clock stops at `MaxTime` unless somebody sleeps longer, so that every sleep
ends. An open schedule of four arrivals passes an idle stretch and a rate that starts
at zero. Two messages at once are enough for the document and the caches of the
language server, three edits for an edit before, during and after a request. Heads and
payloads of up to two bytes have an inside to cut in and, empty, none; three frames are
a frame before and after any message. Arrays of three items are the least in which a
greedy match can starve a later item and still have one to spare.

`CHECK_DEADLOCK FALSE` is said where the system may stop: of the suite and of a unit,
whose processes exit, of `Snapshot` and `LanguageServer`, whose editor stops at its
bound, of the benches after their report, of `ClientCaches` when the calls of its
bound are made, and of `Comparison`, which compares once. `Runner`, `RowSource` and
`HttpCall` stutter explicitly when they are done and are checked for deadlock.

### Fairness

* `Runner`: weak fairness of the runner's own task, of the task that pulls
  requests and of the return of `call_stream`: tokio runs every ready task. A call
  that has its first request and is still waiting for its headers (gRPC), or for its
  exchange (HTTP), eventually fails: the endpoint and the HTTP client carry the test's
  timeout. A call that waits for a request has none. Nothing is assumed of the server. The reads of the runner have timeouts of their own,
  which are steps of the runner. A unary gRPC call whose headers have arrived is
  covered by none of these: `EndsUnlessStalled` leaves out a server that stalls there,
  and `Termination` says what it would be without.
* `SuiteRun`: the task of `run_tests` runs, and each test in flight ends.
* `BenchClosed`, `BenchOpen`: tasks run, time passes, and a call ends (within `MaxCall` in
  the closed loop: the transport's timeout). The semaphore of the open model is first
  come, first served, hence strong fairness of `Acquire`. A panic or an
  interrupt need never come.
* `RowSource`: each caller's steps and the eviction loop.
* `ClientCaches`: strong fairness of each client, because they contend for the load mutex
  and tokio's is fair; a server answers a request or fails it.
* `LanguageServer`: each handler proceeds. The editor need not send anything.

## What is proved

The theorems hold for every value of the constants: any set of documents, any
buffer, any number of directories, tests, workers, callers, messages and reporters,
chains of any length. Their assumptions are the named ASSUMEs of the modules, which TLC
evaluates in every run. Most say no more than what the constants are (documents are
sequences of sections over the payloads, the buffer is positive, a chain is not empty).
Four say more:

* `OpenAssumption`: `MaxArrivals`, the size of the function that holds the arrivals,
  is no less than the requests asked for or the length of the window. It is a bound of
  the model, and says that the bound is not what stops a schedule;
* `PoolKeyAssumption`: two configurations with one pool key ask one server, or read
  one file, for the same services. `build_cache_key` (`descriptor.rs:74-96`) makes the
  key of the path of a file, or of an address and the target service;
* `RowAssumption`: the callers of a source are finitely many, as the workers of a run are;
* `HttpAssumption`: a frame of no bytes has no status, and messages of one name are the
  same bytes, so that one looks like a status exactly if the other does. Names stand for
  bytes in the model, and this says so.

Every invariant below was an invariant of a TLC run before it was proved.

`Runner_proofs` proves

* `TypeCorrect`. Typing alone is not inductive: that what a section sends or
  expects is a payload needs `InSection`, that the runner executes a section of the
  document and of the type its `pc` says. `chan` fits its buffer because only
  `SendRequest` appends, where there is room.
* `EveryCheckHeldCorrect`. The property speaks of the end of a run and is not
  inductive. The invariant is `Ledger`: while nothing has failed, what has been
  settled, plus what is deferred, plus what the RESPONSE being read has still to
  take, is what has been reached. Every action moves an expectation from one of these
  places to another or records a failure. At a clean verdict the last two are
  empty.
* `NoSilentPassCorrect`. What has been settled is what was reached (`EveryCheckHeld`);
  that what was reached is what the document states is `ReachedInv`: between two sections
  it is the sum over the sections before (`Reached`, which knows that attached ASSERTS ran
  with the section they follow), and in an iteration it is that, and the iterations
  before, and what this one has come to. A RESPONSE put off has reached its expectations
  when it is passed, and only HTTP bidi puts any off (`Deferring`). The
  sum is a recursive function over the sections; `SumExists` shows that it is the sum,
  by `SetInduction`: the set of lengths up to which it is so holds 0 and is closed under
  successor.
* `VerdictFollowsStreamCorrect`. What the sections expect is a concatenation, again a
  recursive function (`ConcatenationExists`), and so is the place a run is at:
  `Position`, the length of what the sections before, the iterations before and this
  iteration expect. `OrderInv` says that of as many messages all but those waiting
  (`Pending`: deferred, or still to be taken by the RESPONSE being read) have come as
  expected (`Agrees`), and that while a section is still to read, the wire holds what the
  server sent after them (`Outstanding`). It needs that only the last reader drains, and
  that no iteration comes after its drain. `CauseInv` says that a run with nothing but
  mismatches and missing messages against it has been refuted: the server sent another
  message in some place, or ended too early, and nothing it sends later changes that.
* `SnapshotCompleteCorrect`. The invariant `CaptureInv` says that what the server sent is
  what was captured followed by the messages still on the wire (`Unread`), until the
  drains have emptied it; for HTTP, `AnswerInv` adds that sections read only whole
  answers.
* `FailFastCorrect`, an action property, from `StreamInv`: once a read has timed out and
  while sections are run, there is neither a stream nor a call to await one from.
* `RequestsOpenCorrect`. A reader closes the request side only past the last
  REQUEST; the invariant `RequestsInv` says that a closed side means no REQUEST
  from the current section on.

`Suite_proofs` proves the invariants of `SuiteRun` and `PromiseCorrect`, that
`run_tests` implements `SuiteSpec`. The invariant ties the position of each loop to
the set of units that have ended: a set-up or tear-down has ended exactly when its
loop is past it, a test exactly when it has been pulled and is not in flight.
From it come the order of the units, the count that the reporters were promised
(an injection from units to numbers, by cardinality of tagged sets), and each step
of the refinement.

Of `TestRun`, the module proves type correctness, `VariablesFlowForward`,
`ResultOfLastAttempt` and `RetriedForTransportAlone` from one inductive invariant: every entry of `log` belongs
to an attempt not later than the current one, every variable to the seed or to an
earlier document of this attempt, every attempt given up ended in a transport
failure, the accumulated verdict is that of the last document run, and the response held
is the last of those this attempt heard (`Buffered`), none only when it heard none.

Of `Snapshot`, it proves `RestIsKeptCorrect` and `SnapshotHoldsCorrect`: for every file whose
attributes stand above headers, of any length and whatever its bodies hold, for every
answer, and any number of tests of the file and of edits between their steps. The steps
only decide which lines are written over which: the invariant `SnapshotInv` is that a test
whose parse nobody has overtaken holds the sections of the file as it is (`TaskOK`), and
that the file after such a write is `Updated` of the one before (`LastOK`). All else is
about that operator.

* A file with its attributes in place has a `Layout`: for each section a gap (attributes
  and nothing else), a header, a body without attributes; and some lines before the first. The
  parser finds its sections where the layout has them (`SectionsLaid`).
* What `Updated` writes has the same gaps and headers and, for some sections, another body
  (`Relaid`). So reading it through gives what it gave (`RestOfUpdated`).
* A body that is written is parsed as the messages it is written for and nothing else
  (`BodyIs`), whether they are kept apart by a blank line or not.
* Written again from the same answer each body is the same (`WrittenAgain`): the messages dealt
  to the RESPONSEs by count are those it holds, since a RESPONSE reads as many messages as
  it was given, or all that are left. The trailing blanks do not drift: they are counted
  from a line of the new file in the lines of the old one, which by then are the same.
* That the file passes (`Replays`) is to compare two running counts, of the messages dealt
  (`msg_idx`) and of those the runner reads (`ReadBy`).

Every operator here is a fold over lines, messages or sections. For each, a lemma by
`SetInduction` shows that a function with its recursion exists; what it does at one more
line is then a step of its own, and every later lemma uses that.

`BenchClosed_proofs` proves, for any number of workers, any schedule of rates and calls of
any length,

* `ClosedTypeOK` and `ClosedLoad`, that no worker bursts and that none sends twice after
  its deadline. For the pace, `next_slot` is what a worker remembers of the past: two
  requests ago plus an interval is never later than it, and an interval sampled for the
  next request is never shorter than the shortest. For the deadline, a worker that is at
  its head with a late request behind it must stop, which needs that the clock and the
  shutdown flag never go back.
* `ClosedBudget`. What a worker has sent and what is left of its share make its share
  (`BudgetInv`), the shares of all make the count asked for (`ShareTotal`: as many
  workers get one more as the division leaves over), and a worker stops short only of a
  run that says it was cut short (`StopInv`).
* `ClosedImplements`, that the closed loop is a load run as `BenchSpec` has it: each
  request is recorded, dropped, under way or lost with its worker, and the metrics of the
  workers joined are in the count (`TallyInv`); with the lemmas on `Total`, each step
  is one of `BenchSpec` or a stutter.

`BenchOpen_proofs` proves `OpenTypeOK` and, for any schedule and any number of permits,
`OpenIntended`: never more in flight than permits, and each request due when the schedule
says, whatever the permits, the tasks and the clock do. The invariant `ScheduleInv`
describes the arrivals by their own recurrence, without the scheduler: each begins where
the one before ends, and the cursor is where the next begins. `OpenImplements` is the
refinement of `BenchSpec`; there the counts are cardinalities of sets of tasks, and each
step moves one task between them.

`RowSource_proofs` proves the cache and the source that shares it. `CacheInvariant` and
`CacheIsSound` are of the cache on its own (`CacheSpec`), for any keys and limits. The
queue of each map lists its keys once each, whatever is removed from the middle of it
(`Removed`, `touch`: lemmas on sequences without repetition); so a map over its limit has
a queue that is not empty, by the cardinality of its domain, and the loop makes
progress; and the key looked up stays the last of the hot queue, which the loop stops
short of since the limit is positive. `RowCacheSound` and `RowTypeOK` are of the source
with any number of callers: the cache works for the one caller that holds its mutex, for
a key that caller has (`LockOK`), and the indices of a CROSS join stay within the
combinations. `RowsDealtCorrect` is the whole of `RowsDealt`. For callers who share a
source its invariant has `Coherent`, that the maps of the cache hold rows of the dimension
under their own keys, and `Onwards`, that the rows dealt and the rows in the hands of
callers are distinct rows before the cursor. For a caller alone it is `OrderOK`: the
caller's place in the pass (`Place`) is the number of items of the rows behind the cursor
and the number of the combination its CROSS join is at; what was dealt is whole passes and
that many items of the next; and a rewind comes only at the end, of a pass that is empty
or from the place where one ends. The combinations are numbers in mixed radix: `advanced`
goes from the digits of one number to those of the next, or ends after the last
(`Advances`), which is by `SetInduction` over the dimensions. That `counts`, `rests` and
`Rows` are the functions their recursions describe is proved in the same way.

`HttpCall_proofs` proves `DeliveredAsSentCorrect` and `StatusSurvivesCorrect`, for answers of
any number of frames of any size, cut at any byte. The invariant is about the body while
it is read: what was taken off the buffer is whole frames, so that the next byte is the
first of a head (`Offset` grows with the frames); the messages are `Legible` of the frames
taken; the error and the trailers are empty until the end of the stream was taken, and
from then those of that frame. A body that came whole and was read as frames leaves
nothing in the buffer (`WholeRead`), and then the messages are all there are. Each way to
end a call has a lemma for its messages and one for its status; the largest is gRPC-Web's,
where the status may be in the body, in the headers or in the last message
(`WebStreamTold`). The attempt corrected the property: a status that came with details is
not replaced by a last message that looks like one, be it in the headers or in the body,
and `SaidInFull` said so of the body alone. The answers of the run now have that case.

`ClientCaches_proofs` proves

* `PoolsLoadedOnce`: a pool is loaded once. The count is one exactly for the pools in the
  cache, and whoever loads holds the mutex and saw the key missing under it;
* `ChannelCacheBounded`: between look-up and insertion others insert, and the bound still
  holds because the clear and the insertion are under one lock;
* `PoolsAreComplete`: a pool loaded without a failed request has every file of what it was
  loaded for and nothing else. The invariant of the reflection loop (`Complete`) is that
  whatever a kept file imports is kept, or asked for, or on the stack. The loops over a
  reply and over the imports of a file are recursive functions; what they keep
  (`KeepsAll`) is proved by `SetInduction`. `CachesTypeOK` follows.

`LanguageServer_proofs` proves, for any number of messages under way, of edits, saves and
requests, `ServerTypeOK`, `ServerKeepsVersions` and `ServerSettles`: no cache keeps
anything under the version of another text, and with nothing overtaken the server
comes to rest on the last edit. `Ordered` places each handler by its message. `Quiet` follows the one
message that changes the document while nothing is overtaken, from the place it is at to
what the maps must hold there. `Versioned` has, beside the maps, what a request took into its hand before
its await: text and version of one edit, or a text without a version.

### What is only model-checked

* Liveness (`EndsUnlessStalled`, `Exits`, `CallsReturn`, `MessagesHandled`,
  `EveryCallReturns`, and the fairness of `BenchSpec` in the two `PromiseKept`, whose
  safety is proved): the prover has neither fairness nor ENABLED.
* `RightVerdict` of `Comparison`: values nest, and the module has RECURSIVE operators,
  which take the SMT backend away.

## Where the code and its documentation part

One has a run that shows it, and an entry under `findings`: `rows_race`. `driven.rs:1`
calls the unwraps of the sources audited; two callers of one CROSS join pass `Check`
together, one takes the last combination, and the other unwraps None. Its panic poisons
the mutex and every later caller panics too.

The models state others as properties that TLC finds violated. None has a run of its
own; to see one, give the configuration of the MC module the constants below and the
property alone:

| Property | Constants | What the code does |
|---|---|---|
| `PassMeansAllChecked`, MCRunner | `Docs <- DeferredDocs`, `Settings <- PlainHttp` | over HTTP bidi, expectations put off past the last RESPONSE are never compared (`runner.rs:1458`), though "the test fails if ... any message doesn't match" (`streaming.md:29-30`) |
| `RepeatedResponsePasses`, MCRunner | `RepeatedDocs`, `PlainStream` | a repeated last RESPONSE drains the stream in its first iteration (`runner.rs:1655`; `attributes.md:44`) |
| `PassMeansSameCount`, MCRunner | `StreamDocs`, `PlainStream` | messages beyond the last expected one do not fail a test (`runner.rs:1683`; `streaming.md:29`) |
| `Termination`, MCRunner, `FairSpec` | `UnaryDocs`, `PlainUnary` | a unary server that stalls after its headers hangs the test (`runner.rs:1242`; "per-test timeout", `command-line.md:70`) |
| `EndsUnlessStalled`, MCRunner | `EarlyReaderDocs`, `PlainHttp` | over HTTP a RESPONSE between two REQUESTs of a client stream waits for a call that collects its requests until the runner closes them (`runner.rs:1242`, `client.rs:134`): both wait for ever. The call was spawned so that it can wait for requests "without deadlocking this task" (`runner.rs:1170-1171`) |
| `EveryReporterFlushed`, MCSuiteRun | `Works <- SmallWorks` | a reporter that fails ends the run before the others write (`run.rs:999`; "logged and skipped; it does not abort the run", `plugins/reporters.md:42`) |
| `FinalResponseWritten`, MCTestRun | as they are | a document that gives no response (its REQUEST has an unresolved placeholder, `runner.rs:1342`; a refused call it expected, `runner.rs:2523`) leaves an earlier document's in the accumulator (`runner.rs:770`), and the file is rewritten with it (`run.rs:1209`), where "only the final call's response (the one that matters for snapshotting) is kept" (`runner.rs:743-746`) |
| `BrokenCallsKeepTheFile`, MCTestRun | as they are | a failed transport still carries a partial response (`runner.rs:2513`), which is written (`run.rs:1209`), though it "must not rewrite the file with an empty/partial response" (`runner.rs:2480-2483`) |
| `OnlyWriteModeWrites`, MCTestRun | `Settings <- CaptureSettings` | buffering exchanges for a report rewrites the test files (`run.rs:1209`; `command-line.md:78`) |
| `WrittenFileParses`, MCSnapshot | as they are | `--write` puts the bare status message where the parser takes only JSON (`file.rs:84`; `content_parser.rs:79-82`) |
| `EveryRequestSent`, MCBenchOpen | `Configs <- TwoDocs` | with several documents the open model sends a request for each pass over them (`bench.rs:1502`), not the "total number of requests" (`args.rs:344`) |
| `ParseOfItsVersion`, MCLanguageServer | as they are | the parse and its version are stored under two locks (`server.rs:643`), and two handlers may leave the parse of one text under the version of another, which the snapshot was made to prevent (`server.rs:594-595`) |
| `EveryStatusSurvives`, MCHttpCall | as they are | the answer to several requests is read without its HTTP status and without the status in its headers (`client.rs:144`, `163`), where an immediate error has it (`web.rs:1306-1309`) |
| `CutIsNoSuccess`, MCHttpCall | as they are | a body that ends before its trailers is a call that succeeded (`web.rs:1463`) |

Others were met while modelling:

* a greedy match of arrays without an order may reject a message that answers: expected
  `["*", "a"]` against `["a", "b"]`, numbers within rounding of two expected ones, objects
  that may leave out a default. Whether it does depends on the order of the message's
  items, which `basic-concepts.md:103` says is ignored. Hence `PassesOnlyAnswers` has the
  converse only for ordered arrays, and `ShuffledAnswerPasses` takes the expected
  items themselves;
* the drain of a repeated last RESPONSE takes messages a later iteration expects (above),
  and HTTP deferrals that no RESPONSE picks up are compared with nothing: a verdict of
  such a document says little of how the stream begins. `VerdictFollowsStream` has
  `DrainsOnce` and the deferrals as premises;
* an edit that overlaps a save may be stored under the version of the other, and a
  late edit may leave a text behind a closed document: `KeptOfItsVersion` has them
  as premises. Diagnostics carry no version, so overlapping edits may leave the older
  ones on the screen;
* a data frame that cannot be read or decompressed is passed over (`web.rs:1374`), and the
  messages before an error are not put on the stream (`client.rs:250`); an unframed
  answer to a Connect stream is read from its sixth byte on (`web.rs:1674`), and one cut
  right after the head of its first frame is an empty message; a unary Connect answer in
  frames is understood in JSON and refused in protobuf;
* a reflection request that fails is passed over, and the pool it leaves incomplete is
  cached when it happens to be closed under import (`losses`). One stream of
  reflection that stalls holds the load mutex against every other test;
* a worker that panics takes its metrics with it and the report does not say so
  (`bench.rs:1595`, `1700`); `requests % docs` requests are not sent; a rate that
  is zero for good makes a scheduler bounded by count look for an arrival without an
  await, past any deadline or shutdown; a closed worker at a rate near zero sleeps past its deadline for up to the
  interval it sampled; a rate of 0 is no pace at all; in the open model under a count,
  `duration_stop: close` aborts what is in flight although nothing expired
  (`bench.md:81`); a `sample_rate` of 0 still samples the first request;
* a CROSS join deals its combinations without the values of a LEFT join; an INNER join
  filters and adds none; two workers that see the end rewind the file twice, and one
  that finds it exhausted again right after its rewind gets no variables;
* over HTTP an empty last RESPONSE drains an exchange that ended in an error without
  looking at it: the test passes, and its snapshot holds neither the messages the
  server sent before nor the error. `SnapshotComplete` has the premise that no RESPONSE
  is empty (`Contentful`); a proof attempt without it found the case;
* an attribute and its header with a blank or a comment between them: the section
  before ends a line short (`core.rs:183`; the comment above it says the bound is always
  right), and a snapshot of it drops the attribute. `HeldAdjacent` excludes such files;
* two snapshots of one file that overlap write by stale line numbers;
* the snapshot of a chain puts the last document's response into the first
  document's sections (`runner.rs:746`), and a standalone ASSERTS, which reads a
  message, is not counted when messages are dealt to the RESPONSEs;
* `#[skip]` is inherited by later sections (`attributes.md:95`), a standalone ASSERTS
  is evaluated on one message (`streaming.md:30`), the ASSERTS of an empty ERROR
  are skipped when an HTTP call fails at once (`error.md:9`), interleaved ASSERTS over
  HTTP bidi wait for a call that waits for requests (`command-line.md:70`);
* an error while the client is made is never retried (`command-line.md:71`), a
  whole-test retry is not reported as one (`report-formats.md:55`), and the
  `#[retry]` of a first section counts as the whole test's.

## What is not modelled

* Of the runner: connection set-up, headers and metadata, dry run, coverage,
  timing, the text of messages. Of the transport: headers and metadata,
  the bytes of encodings and compression, TLS.
* Of a snapshot: the layout of JSON, header options other than `with_asserts`,
  chains.
* Of the bench: option parsing, the shapes of schedules (a schedule is a function
  from time to gap), warm-up, the histogram, thresholds, the text of reports. Of the
  sources: file formats, filters, the building and freshness of an index, more than one
  joined dimension that is not CROSS.
* Of the language server: reopening a document, the cache of endpoints, what an answer
  contains; handlers are up to four in the code.
* Parsing, validation, assertions, queries, the optimizer and formatting are
  functions of text with no state between steps, most of them long tables of cases;
  the models start from parsed documents. That is most of the source, and why the
  map covers a small share of its lines: what is modelled is where order, timing and
  failure matter.
* Plugin scripts are external. The commands that print or generate text have no
  state. `components` in `PROJECT.json` lists every part with its reason.

## What comes next

1. `History` (`src/serve`): the history file under its lock, the watcher's stamps.
2. The freshness of an index (`apif-source-row`), rebuilt while another process reads it.
3. Reopening a document in `LanguageServer`; its parse under one lock, once the code has it.
4. The passes of the validator and of the optimizer over an abstract syntax, against a
   reference semantics.
5. A proof of `PassesOnlyAnswers`, with `compare_recursive` as a recursive function over the
   depth of a value. All eight modules that may hold theorems are in use; it would share one.
