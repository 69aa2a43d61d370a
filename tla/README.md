# A TLA+ model of the Musli scraper service

The scraper service takes scraping jobs over HTTP, stores them in a Postgres
table, queues them in RabbitMQ, and has a pool of workers scrape the pages with
a headless browser.  The modules here model the control of that program: who
writes which row when, where a message can be, who waits for whom.  Paths below
are relative to the repository.

## 1. Inventory

| part | code | state | operations |
|---|---|---|---|
| job service | `internal/services/job_service.go` | none of its own; writes the table, publishes to the queue | create, process, cancel, retry, clean up, list, metrics, callback |
| job table | `db/migration`, `db/query`, `db/sqlc` | `scraping_jobs`: status, progress, retry_count, error, results | the UPDATE/INSERT/DELETE statements; every UPDATE but RetryJob's is by id alone |
| queue manager | `internal/queue/rabbitmq.go` | one AMQP connection and channel; main queue with a TTL of 5 minutes, dead letter queue | PublishJob (no confirms), ConsumeJobs (prefetch 1, Ack / Nack without requeue, a copy with Retry + 1) |
| worker pool | `internal/worker/worker.go` | mutex, running flag, contexts, wait groups, counters | Start, Stop, Shutdown, GetStatus, health check, metrics collection, the worker loop |
| bridge | `job_bridge_service.go` | none; a second program on the same table and exchange | every 10 s publish up to 10 pending rows |
| crawler | `internal/scraper/crawler.go` | visited URLs, pending jobs, page summary, page count | CrawlPages, one level at a time |
| page engine, extractor | `internal/scraper/engine.go`, `extractor.go` | a browser | load a page, find headers, cut the content between them |
| callback delivery | `job_service.go` (`sendCallback`, `sendHTTPCallback`) | one goroutine per completed job, no record | post the results, retry |
| HTTP handlers, main | `internal/handlers`, `cmd/server/main.go` | none | routes to the service; clean-up task; start-up and shutdown order |
| config, storage, models | `internal/config`, `internal/storage`, `pkg/models` | read once | - |

How they interact: a creation request inserts a pending row and then publishes
a message (two calls, no transaction).  A worker's consumer receives the
message, reads the row, refuses it unless it is pending, marks it as
processing, scrapes, writes progress, and completes or fails it: five or six
database calls, each of which can fail.  An error sends a copy with Retry + 1
to the end of the queue, up to Retry 3, and the original to the dead letter
queue.  Cancel, retry, the clean-up task and the bridge act on the same rows
at any time between those calls.

What is hard: the pending check and the start of a job are separate calls;
messages are duplicated (bridge, RetryJob, redelivery), lost (no confirms),
expired; calls commit and lose their replies; the process dies between two
calls; shutdown cancels the context the handlers still need; Stop holds the
mutex that the goroutine it waits for needs; callbacks run beside everything
else and time out against late answers.  `PROJECT.json` lists each of these
at its line, under "hazards", with the properties aimed at it.

What makes each part correct:

* job service, queue, table: no job is executed by two workers at once or
  executed again after it was executed; a pending job is never forgotten; the
  final status is the one the executing worker wrote; the columns of a row fit
  together; retries end; jobs settle.
* callbacks: a receiver is told only what is and stays true, a bounded number of
  times; nothing is given up untried; every goroutine ends.
* worker pool, main: the process ends after a signal, although Stop, handlers and
  the health checker may hang; nothing is
  closed under a running handler unless a timeout passed; requests are answered on
  the way; the published metrics add up and are never ahead of the workers.
* crawler: each URL at most once, within the limit, at its shortest depth,
  nothing missed, and it ends.
* extractor: a module's content is the text between its header and the next one
  of the same or a higher level, as far as it is in elements beside the header;
  such text is not lost, and no text is in two modules of one parent unless one
  holds the other.
* list of jobs: a client that pages through it sees every job once, as far as
  the jobs created and deleted meanwhile allow, and comes to an end.

## 2. Modules

| module | role |
|---|---|
| `JobBoard` | abstract specification: what a client may rely on about a job |
| `JobPipeline` | table + broker + requests + bridge + workers; refines `JobBoard` |
| `MCJobPipeline` | symmetry |
| `Callbacks` | the callback goroutines, the network and the receiver, composed with `JobPipeline` |
| `WorkerPool`, `MCWorkerPool` | lifecycle, mutex and metrics of the pool; the MC module serves a finding |
| `Server` | the main goroutine from start-up to exit, composed with `WorkerPool` |
| `Crawler`, `MCCrawler` | one multi-page crawl; the MC module holds a reference definition |
| `Listing` | a client that pages through `GET /api/jobs` while jobs come and go |
| `Headers`, `MCHeaders` | how the extractor cuts a page into modules; the MC module builds small pages |
| `JobPipeline_proofs` | types and deliveries; one message and one executor per job |
| `JobRows_proofs` | theorems about the rows: consistent, executed, tracked, not forgotten, left alone; the rounds of a message |
| `JobBoard_proofs` | the pipeline implements the board, and what the board promises |
| `Callbacks_proofs` | the composition is a pipeline; what a receiver hears, and how often |
| `Server_proofs`, `Crawler_proofs`, `Listing_proofs`, `Headers_proofs` | theorems about the module of that name (`Server_proofs` also about `WorkerPool`, `Crawler_proofs` about the reference of `MCCrawler`) |

### JobPipeline

One action is one call to the database or to the broker, with everything the
goroutine does up to its next call.

| variable | in the code |
|---|---|
| `rows` | `scraping_jobs`; a job without a row is "absent" |
| `msgs` | the main queue: where each message is, which job, which Retry |
| `dlq` | the jobs that have a message in the dead letter queue |
| `channel` | the server's one AMQP channel; it is never reopened |
| `stopping` | `rwp.ctx` is cancelled |
| `creator`, `retrier` | how far a CreateScrapingJob / RetryJob request is |
| `bridge` | rows the bridge has read and not yet published |
| `pc`, `held`, `job` | the worker's place in ConsumeJobs / ProcessJobFromQueue / executeJob, its unsettled delivery and its job |

`Env` says which environment events an instance includes (cancellations,
clean-up, RetryJob, the bridge, TTL, failing calls, calls whose reply is lost,
results that cannot be encoded, lost publishes, connection loss, shutdown, crash).  It is a parameter because
the properties differ in what they survive: each run and theorem names it.

Abstractions: a page, its results and error texts are flags; ages are left out,
so clean-up may delete any finished row; the order and priorities of the queue
are left out, so any queued message may be delivered next (a superset of the
broker's choices); a delivery buffered in a consumer when the connection is lost
is gone for the worker; receiving a delivery and reading the row are one step
(`GetJob`), so the connection is not lost between the two; creations,
cancellations and retries begin before the pool is stopped, though a request that
outlives the timeout of the HTTP shutdown could come later; progress is one of the
four values the code writes.
The migration inserts a sample job whose options (`"timeout": "60s"`) do not
parse into a `time.Duration`: `SeededJobs` stands for such rows, and they are the
way into the "failed to parse options" path.  RetryJob has no HTTP route; it is
modelled as a call of the service.  A malformed message cannot arise from the
two publishers and is left out, and so is the branch without a queue manager,
which `main` rules out.

A crash (`Crash`) is the death of the server process and its restart: requests
and handlers are gone, unacked messages are queued again, the bridge, a program
of its own, goes on.  There is one moment at which a crash or a lost connection
does what nothing repairs: after the copy of a failed message was published and
before its original is rejected (`CopyUnsettled`);
without "midcopy" in `Env` both failures come at any other time only (`MayFail`).

### Callbacks

`executeJob` starts a goroutine when it has completed a job whose row has a
callback URL.  `Work` is a step of the pipeline (`Step`) that does so, `Die` and
`Disconnect` are its two failures; the goroutine is `Post`, `GiveUp`, `TimeOut`.

| variable | in the code |
|---|---|
| `hook` | `callback_url`: none, usable, or rejected by `http.NewRequest` |
| `calls` | the goroutines of `sendCallback`, with the attempt each is at; `spoilt` is history |
| `inFlight` | requests that left the process |
| `accepted` | how often the receiver took the results of a job |

The context of the goroutine is `context.Background()`, so neither the end of the
job nor the stop of the pool ends it, only the end of the process.  `TimeOut`
may come while the request is still on its way: a late request may still be
accepted.  The sleep between attempts only takes time.

### Server

`main` is the place of the main goroutine: start-up, serving, and the shutdown in
the order of the code, the HTTP server first and then the deferred calls, the last
one registered first: pool, AMQP connection, browser, database.  `late` records
which of its waits ended with a timeout.  `Alive` guards every other goroutine:
when main returns the process is gone.  A failure at start-up is
`logger.Fatal`, which runs no deferred call.  Requests come in while main is
serving only, but those in progress go on; one accepted on an open connection
while the HTTP server drains is left out.  The three closing calls after
Shutdown are taken to return: the queue's and the browser's are calls to other
programs, and `pgxpool.Close` waits for connections that are in use.

### WorkerPool

A goroutine is a program counter, `sync.RWMutex` is a record of writer, waiting
writer and readers (a waiting writer keeps new readers out).  Stop is four
steps, since it holds the mutex while it waits for the health checker.  What
GetStatus does once it holds the read lock, the collector's lock and the broker's
queue length included, is one step.  A job is
one interval of a worker's time; what happens inside is `JobPipeline`.

### Crawler

The visited set, the pending jobs, the page count and the summary are the fields
of `CrawlState`.  What a page yields is chosen when it is loaded: a failure, or
any set of links.  As no URL is loaded twice, this covers every site.  The jobs
of a level are a set, so the code's order, that of the links, is one of the
orders of the model.  `links` is a history variable for the properties.

### Listing

One request is three steps: the handler parses limit and offset (`Begin`), the
service reads the rows (`ListRows`, or `ListRefused` when Postgres rejects a
negative OFFSET) and counts the table (`CountTotal`).  Either query may fail
(`ListFails`, `CountFails`): the answer is then a 500, as it is for a refused
OFFSET, and the client gives up.  `CreateJob` and
`CleanupJobs` may come between any of them.  Offsets are `int32` in the code: both
the narrowing of the parameter and `offset + limit` wrap around at `Width` bits.
The client asks for the next page at `offset + page_size` while `has_more` is
true; it is the environment, and `seen`, `repeats`, `first`, `due`, `mark` and
`deleted` are its history.

Abstractions: jobs are numbered by `created_at`, which is taken to be different
for each, since the query has no second sort key; every row converts (the code
leaves out rows that do not); the status of a row is left out, so any job may be
deleted.

### Headers

A page is the sequence of its nodes in document order, elements and texts, each
with the last node inside it; an element has a level, the digit of a tag that is
`h` and a digit (so 0 for `<h0>`), and a greater number for every other tag.
`Text`, the text of an element, is made of the texts inside it.  `ExtractModule` is one
round of the loop of `extractModuleTitlePairs`.  `Collected` is what
`extractContentBetweenHeaders` walks through: it takes all elements inside the
header's parent, finds the header again by its text, and stops at a tag of the same
or a higher level.  `Content` is what it writes: the whole text of each element it
collected, whatever of it lies beyond the end of the section.  Texts that are bare in
the parent are no elements and are never written, unless an element that is
collected is around them.  `FindNextBoundary` is computed by the code too and
handed on, but not used.  Where a page has no header the module is its whole text.

The properties say where this amounts to the section between header and boundary.
`Unmistaken` sets apart the headers whose text an earlier element of the same
parent has, and pages with `<h0>`.  `Overhangs` is the text beyond the boundary
that an element holding the boundary brings along.  `InElementBeside` is the text
that is in elements beside the header; other text may be lost.

Abstractions: calls to the browser succeed and the page does not change during
the extraction; a text is not empty, visible, and belongs to one node; a content is
the set of the texts in it, not the joined and cleaned string, which repeats a text
for each collected element around it; identifiers, types and tags of modules are
left out.

## 3. Runs

All runs finish, each within three minutes on two cores.

| run | environment / instance | shows |
|---|---|---|
| `pipeline_board` | 2 jobs, 2 workers, 3 messages; cleanup, ttl, dberr, dblost, puberr, publost, stop, connloss, crash | one executor per job, the invariant behind it, JobPipeline refines JobBoard, and rows left behind are left alone, through all failures together |
| `pipeline_tracked` | 2 jobs, 2 workers; cancel, cleanup, encerr, puberr, connloss, midcopy | types; consistent rows; pending jobs are tracked |
| `pipeline_forgotten` | 1 job, 1 RetryJob request; cancel, cleanup, retry, ttl, dberr, encerr, stop | dropped messages of a pending job leave a trace |
| `pipeline_settles` | a created and a seeded job, 2 workers, 3 messages; bridge, encerr | with two messages of a job in the workers' hands and republished while they run: processing jobs are executed, jobs settle, the queue drains |
| `callbacks` | 1 job, 2 workers, 2 messages, 3 attempts; cleanup, dberr, dblost, connloss, stop, crash | what a receiver hears, how often, and that every callback ends |
| `server` | 2 workers, 1 reader, 1 job each | from start-up to exit: the process ends, requests are answered, handlers are drained, Stop meets no request, metrics cohere |
| `crawl` | 7 pages, depth 2, limit 4 | once, within the limit, breadth first, complete, and exactly the reference's pages |
| `listing` | 5 jobs, integers of 5 bits | what a walk through the list may skip or repeat, whose offset is refused, and that a walk ends, with queries that fail |
| `headers` | all pages of 5 nodes | what of a section is in its module and what else, sections of one parent nest, which text is kept |

Runs that are violated, each on a statement of the repository (see "findings"
in `PROJECT.json`):

* `finding_cancel`: a job that is canceled while a worker scrapes it ends as
  completed.
* `finding_stop`: a stopped pool leaves a job in processing for ever.
* `finding_stop_deadlock`: Stop and a health check wait for each other.

### Bounds, and why they are enough

* Two jobs and two workers: every conflict the code can have is between two
  workers, or a worker and a request, about one job; the second job shows that
  the messages of one job do not affect another.  Duplicates multiply the
  states, so the run with RetryJob has one job and the run with the bridge one
  created and one seeded job.
* `Msgs` bounds the messages alive at once.  Each job has one message and each
  worker may hold one while it publishes a copy, so jobs + workers is enough
  where nothing duplicates.  `Room` keeps the bridge and RetryJob from using the
  last identities: one is left for each job still to be published and one for
  copies.  So with the three messages of `pipeline_settles` the bridge publishes a
  job again while another message of it is queued or executed, and both workers can
  hold one; the bridge waits, as it does between its polls, while all identities
  but one are in use.  A worker waits for an identity at most until another has
  rejected the original of its copy.  With the four messages of
  `pipeline_forgotten` a job has up to three messages and a copy.
* `pipeline_board` has three messages for its two jobs and two workers: where
  nothing duplicates, a job has a second message only while its copy is
  published, so one worker at a time can do that; the fourth identity is in
  `pipeline_tracked`.
* `MaxCalls` = 2 callbacks and `CallbackRetries` = 3, the default: retries and
  late requests of one callback overlap, and a second goroutine for the one job
  could be started if the job were completed twice.
* The retry limit of the code, 3, is kept, so a message goes round three times.
* `MaxJobs` = 1 in `server`: a worker's counters change once while the collector
  is reading.  One reader of the status beside the health checker is enough to
  have a reader queue behind a waiting writer.
* `MaxLinks` = 2 and five pages that may be followed give diamonds, cycles, and
  pages reached on two levels.  A page limit of 4 is met in mid-level by the
  sites with five reachable pages and by none of the others, so both ends of a
  crawl occur.  Every page also has the links that may not be followed
  (`FewLinks`): they change nothing but the set of links.
* In `listing` integers have 5 bits, so an `int32` is one of -16..15.  Offsets 14
  and 16 stand for those near 2^31: 14 is legal and wraps when the limit is
  added, 16 is negative once it is stored.  Five jobs and page sizes of 1 to 3
  give walks of one to five pages, and there are always fewer jobs than
  offsets, as in the code.
* In `headers` five nodes are enough for a header of either level before, after
  or inside another, in the same parent or not, with text inside the headers, beside
  them and bare between them, and for an element that holds a boundary and text
  beyond it; a title may be the text of another element.  The theorems hold for every
  page, and pages of six nodes pass too, which takes three minutes.
* Liveness runs use no symmetry.

### Fairness

A goroutine that can step does (weak fairness per worker, per request and of the
bridge).  The scraper is assumed to return: `scrollToBottom` on a page that
always grows would break this, and nothing in the code bounds it.  Delivery of
each message is strongly fair: the broker's queue is first in first out, so a
message is not passed over for ever, although each delivery to another worker
disables it for a moment.  Clients, expiry, failures and shutdown are never
forced.  A callback's goroutine goes on and its timers fire; nothing is asked of
the network or the receiver.  In `Server` the main goroutine goes on and its
timeouts pass, and so do the requests for the status (strong fairness of their
last step, which needs the mutex that the collector takes again and again: a
`sync.Mutex` gives every waiter its turn) and the collector.  That is all: Stop may hang, the health checker may never run, a handler may never
return and the signal may never come.  `finding_stop_deadlock` uses the stronger
fairness of `WorkerPool`, in which every goroutine goes on, to show that
Stop hangs even so; there, leaving a `select` whose `Done` case is ready is
strongly fair, since Go chooses between ready cases at random.
In `Listing` a request that was begun is answered and the client goes on asking
(weak fairness of `Walk`); nobody is made to create or delete jobs, and that the
walk ends rests on `MaxJobs`: a client slower than the service takes new jobs
never reaches the end of the list.

## 4. Proofs

`tlapm` checks every theorem for all values of the constants under the named
assumptions of the modules.

* `TypeCorrect`: `Spec => []TypeInv` for every `Env`.  `TypeOK` alone is not
  inductive: that a message taken from the queue names a job needs
  `DeliveryInv`, what a consumer holds is unacked, held by nobody else, and is
  the message of the job its worker is at.
* `SingleAlways`, `OneExecutor`: if `Env` has none of bridge, retry and
  midcopy (`NoDuplicates`), then `Spec => []SingleInv` and
  `Spec => []AtMostOneExecutor`.  The pending check and the start are two
  steps, so the row cannot be the reason; the messages are.  `SingleInv` says
  that an unpublished job has no message that could start it and a published
  one at most one, where the original of a message whose copy was published no
  longer counts: its worker is about to reject it (`Carries`).  A crash gives the
  message back to the queue: what its worker had claimed is then not pending or
  not started.  The proof goes action by action; `CarriesFrame` and
  `SingleFrame` deal with the actions that leave messages and program counters
  alone, `RequeuedType`, `PublishType` and `PublishFrame` with the broker.
  With the bridge or RetryJob there are duplicates and the property is false.
* `RowsConsistent`: under the same assumption, what the columns of a row say
  fits together.  It rests on `SingleInv`: `RowInv` adds that a job that is
  pending or claimed by a worker has neither results nor an error
  (`Unfinished`), which one claimant keeps and two would not.
* `ProcessingExecuted`: a row in processing has a worker, if no call of a worker
  is lost on its way (`Reliable`: no dberr, dblost, stop, crash), whatever
  duplicates there are.
* `PendingTracked`: a pending job is about to be published or has a message that
  brings a worker to it, if the broker drops nothing it was given and the server
  neither fails nor stops (`Lossless`).  `TrackInv` adds that nothing knows
  of a job before it is created (`Fresh`), and that a worker past the pending
  check has a job that is not pending, so that it may settle its message.
* `NeverForgotten`: a pending job that was published has a message in the queue or
  in the dead letter queue, or something is about to publish it.  It
  survives what `PendingTracked` does not: database errors, expiry, shutdown,
  RetryJob and its duplicates.  What it needs (`Answered`) is that the service
  learns what became of its calls and that channel and process live: a row
  that was inserted or reset whose reply is lost, a publish that is lost or
  fails after the reset, or a crash between insert and publish forgets a job.
  A message that is about to be acknowledged is no trace of its job, so the
  invariant (`ForgetInv`) does not count it (`Remains`): the job was made final
  by its worker, and when it is pending again, RetryJob is about to publish it or
  has left a message of its own.
* `UnattendedLeftAlone`: in every environment a job that is not pending, that no
  worker has and no request is about to write (`Unattended`), is changed by a
  cancellation or the clean-up only, and no worker takes it up, however many
  messages of it are about.  It needs no invariant but the types: a handler writes
  the row of its own job (`WriterElsewhere`), and has passed the pending check for
  it.  This is why a row that a crash left in processing is never run again,
  and why it stays there.
* `RoundsEnd`: in every environment a message carries at most 3 rounds, or as many
  as RetryJob may be called if that is more.  ConsumeJobs has the one limit and
  RetryJob the other, and RetryJob reads its count before it resets the row: the
  invariant says that the count it carries was allowed (`RoundsInv`).
* `PipelineImplementsBoard`: `Spec => ImplementsBoard`, if nothing publishes a
  job twice and nothing cancels one (`Uncanceled`; a cancellation of a running
  job is overwritten, which is `finding_cancel`).  Every action of the pipeline is
  an action of the board or a stutter (`BoardNext`, one step per action; a crash is
  `Abandon`).  `BoardInv` ties a worker's place to its row: who is about to
  start a job finds it pending, who executes it finds it processing.  These are
  two calls after the check, and rest on `SingleInv`.  `OneRunnerAlways` proves the
  promise of the board by itself, and `PipelineKeepsPromise` puts the two
  together.
* `CallbacksKeepPipeline`: every behaviour of `Callbacks` is one of `JobPipeline`,
  so the theorems above hold of the composition too.  `CallbackTypes` and
  `CallbackEndsAccounted` hold in every environment: `CallInv` says that each
  attempt before the present one was spoilt.  `ToldStaysTrue` and
  `NoticesAreBounded` assume `Uncanceled`: that a job is completed once, and so has
  one callback, is what the board says of it (`OverStays`).  `NoticeInv` is a
  balance: what was accepted, what is on its way and what may still be sent are
  together never more than `CallbackRetries`; the number accepted alone is not
  inductive, as late requests are accepted after the retries that replaced them.
* `ServerTypes`, `ReturnedCancelled`, `GracefulDrained`, `MetricsCohere`: for every
  number of workers and requests.  `ShutdownInv` orders Stop and Shutdown: past
  the cancellation the context is cancelled, a Stop that ended without its
  timeout has seen every worker leave, and none comes back.  `MetricsInv`
  says that the counters of each worker and the collector's partial sums add
  up, as the total does only because its parts do.
* `MetricsLag`: the aggregate never counts a job that no worker has counted, for
  every finite number of workers.  The sum (`MapThenSumSet`) is a fold over a set, whose
  theory has to be built first: a solution of its equation exists for finite sets,
  the order of the elements does not matter, and the sum grows with its parts.
  Each is an induction over the size of a set, carried out by a least
  counterexample, since the induction theorems of the library cannot be used.
* `NoRequestMeetsStop`: when Stop runs, no request for the status is in progress,
  unless the HTTP server's wait timed out.  It is what keeps the deadlock of
  `finding_stop_deadlock` from taking requests with it.  `OrderInv` is the order of
  main: Stop begins only when the HTTP server was shut down, which waited for the
  requests, and none begins later.
* `StopExcludesReaders`: while Stop holds the mutex nobody reads.  `MutexInv`
  says of every place of every goroutine what it holds.
* `CrawlTypes`, `LoadedOnce`, `WithinLimit`: the crawl's types, that no URL is
  loaded twice, and that limit and count hold, for every site, depth and limit.
  `VisitOnce` and `CountOnce` say what one more entry of the summary changes.
* `DepthIsDistance`, `CrawlIsComplete`: pages are listed at their distance, and
  none is missed.  `LevelInv` is the order of a breadth-first search: the pending
  jobs belong to one level, each was found on a page one level up, and what a
  listed page leads to is visited or has a job.  `ShortestVisit`, `LevelVisit`
  show that one more page keeps it, whatever its links.
* `VisitsTheReachable`: a crawl in which everything loads, and that nothing cut
  short, visits exactly what the recursive reference `Within` of `MCCrawler` gives,
  for every site and depth.  That the recursive function has a solution is itself
  proved (`ReachExists`); the levels agree by a least counterexample on the depth.
  It assumes that the pages inside are those that may be followed.
* `EveryStepAdvances`: `Spec => CrawlAdvances`, the ranking argument behind
  `CrawlEnds`: every step ends the crawl, begins a level, leaves fewer jobs on its
  level, or goes one level down, of which there are Depth + 1.  With finitely many
  pages a crawl has no infinite run of steps; that a step is then taken is fairness.
* `ListingTypes`, `NearOffsetsAccepted`, `RepeatsAreBounded`, `SkipsAreBounded`: for
  every number of jobs, every page size and every width.  The properties
  speak of the pages already received; the invariants of where the walk goes on:
  a received job that stands behind that place will be repeated and was pushed
  there by a new one (`RepeatInv`), a job before it that was not received was
  moved there by a deletion (`SkipInv`).  `MovedUp` is the lemma on the way: a
  deletion moves at most as many jobs past a place as it deletes.
* `SectionsAgree`, `SectionsNested`: for every page.  The text of a module is from
  after its header and before `FindNextBoundary`, but for the rest of an element
  that holds the boundary, and what lies between in elements beside the header is
  all there; two sections of one parent share text only if the one holds the other.
  Invariant: every module with a header has the content `Content` computes
  (`SectionsAlways`).  The rest is about operators: `BoundaryIsFirst`, the
  boundary is the least header that closes the section, which needs that a set of
  numbers has a least member (`Least`, `Greatest`, from the well-foundedness of <
  in the library); `ParentIsInterval`, the nodes around a header are consecutive and
  no element among them is around it; `CollectedIsBetween`, so that the boundary
  found in the whole page and the end found inside the parent cut at the same
  place; `Apart`, text that overhangs a section does not reach the next header of
  the parent, since an element that did would be around that header.
* `ModulesTyped`, `TextKept`: a module has a header of its page and a content, and
  every text that `TextIsKept` speaks of is in a module: all of a page without
  headers, and otherwise what is in an element beside the last header before it.
  `KeptInv`: each header the loop is done with has its module unless its section is
  empty, and none is taken back.

Every invariant and every action property that a passing run checks is proved.
Only model-checked:

* Liveness (`JobSettles`, `QueueDrains`, `CallbackEnds`, `ProcessExits`,
  `RequestsAnswered`, `CrawlEnds`, `WalkEnds`): TLAPS does not reason about fairness
  and ENABLED here.  `EveryStepAdvances` is the part of `CrawlEnds` that needs neither.
* The three findings are about what does not hold.

## 5. What the model shows besides

* After a crash a row stays in processing for ever: the redelivered message
  finds it not pending and is dead-lettered, and no code reads stale rows.
  `ImplementsBoard` shows that it is at least never run twice, and
  `UnattendedStands` that nothing but CancelJob changes it, in any environment.
* The pool does not reconnect: after a lost connection every worker returns and
  `PendingIsTracked` says only that the messages are still in the queue.
* Start after Stop would return nil and its workers leave at once, their context
  being cancelled for good.  Nothing starts a pool twice, nor does the model.
* RetryJob never looks at the status: a request for a job that is processing or
  completed resets it to pending and queues it again.  No route calls it yet.
* RetryJob whose publish fails leaves a pending row without a message.
* The page limit counts successes, so the number of page loads is unbounded by it.
* A crash after the copy of a failed message was published and before the original
  was rejected leaves two messages.  If the attempt ended in a database error
  that left the job pending, two workers can execute it.  `CopyUnsettled` is
  this window; `SingleInv`, `AtMostOneExecutor` and `ImplementsBoard` hold with
  crashes and database errors at any other time.
* Callbacks leave no record: those under way when the process ends are never
  sent, the redelivered job does not send them again, and a failed job has none.
  A receiver may hear the same results several times, and nothing in the request
  tells it so.  With `CALLBACK_RETRIES` = 0 nothing is sent at all.
* CancelJob and RetryJob overwrite a completed row, so with them a receiver was
  told what is no longer so; `ToldIsTrue` is checked without them and without
  the bridge.
* A failure at start-up after the browser was launched ends the process with
  `logger.Fatal`: no deferred call closes the browser.
* When Stop or Shutdown returns with its timeout, handlers go on while their
  connection, browser and database are closed.
* A status request that came while Stop is deadlocked would wait for ever; it is
  the order of the shutdown, HTTP first, that keeps this from happening.
* `QUEUE_MAX_RETRIES` is read by nothing: the limit in `ConsumeJobs` is the
  literal 3.
* `crawl_depth` in the results is the requested depth, not the one reached.
* The second of two headers with the same text in one parent gets the content of
  the first; `Unmistaken` leaves it out of the properties.
* Text can be lost by the extractor: before the first header, bare in the parent of
  its header, or outside that parent (a header alone in a `<div>` has no content).
  The comments of `extractor.go:118` ("Extract content between this header and the
  next boundary") and `:175` ("content goes to end of document") say otherwise: the
  content never leaves the header's parent, and it goes beyond the boundary with an
  element that holds it.  `SectionIsBetween` and `TextIsKept` are stated for what
  the code does.
* `<h0>`, and it alone among the other tags, ends a section though it is no header.
* CancelJob meets more than CompleteJob: FailJob overwrites a canceled row too, and
  a cancellation between the pending check and StartJob is turned into processing.
* An offset so large that `offset + limit` wraps makes `has_more` true on an empty
  page; the next request is then refused, its offset being negative once it is
  stored.
* The sample job of the migration appears in the list, while
  `GET /api/jobs/{id}` fails on its options.

## 6. Not modelled

Loading and scrolling pages, metadata and the classification of content
(sequential browser calls and formatting; `scrollToBottom` has no bound, and
a model of it would have to invent the page), the list by status, metrics
queries and the queue status (single reads), the payload of a callback,
configuration (read once), the connection pool, logging, HTTP plumbing, and the
unused `internal/server` package.  `Transaction` and `Cleanup` of the storage and
several generated queries have no caller.

## 7. Plan

Done: JobBoard, JobPipeline (all operations), Callbacks, WorkerPool, Server,
Crawler, Listing, Headers, and the theorems above.  Left:

1. What holds of the rows when jobs are canceled and published twice: which of
   the conjuncts of `RowConsistent` survive duplicates.
2. Ranking arguments for the other liveness properties, as `EveryStepAdvances` is
   for the crawl: for callbacks the attempts, for the pipeline the rounds and
   the place of each worker.
3. A limit on scrolling in the code, after which the page engine would be worth a
   module.
