----------------------------- MODULE WorkerPool -----------------------------
(***************************************************************************)
(* RabbitMQWorkerPool: Start, Stop and Shutdown, the read-write mutex they *)
(* share with GetStatus, the health checker and its wait group, the        *)
(* metrics collector, and the life of the worker goroutines.  What a       *)
(* handler does with a job is in JobPipeline; here a job is one interval   *)
(* of a worker's time that ends well or badly.                             *)
(***************************************************************************)
EXTENDS Naturals, FiniteSets, FiniteSetsExt

CONSTANTS
    Workers,        \* one goroutine each, config.WorkerCount of them
    Readers,        \* HTTP requests that call GetStatus
    MaxJobs         \* bound on the jobs one worker handles

ASSUME PoolAssumption == /\ IsFiniteSet(Workers)
                         /\ MaxJobs \in Nat
                         /\ "health" \notin Readers

VARIABLES
    mu,             \* rwp.mu, a sync.RWMutex
    isRunning,
    cancelled,      \* rwp.ctx, the parent of the workers' contexts
    connected,      \* the delivery channels of the consumers are open
    hcCancelled,    \* hc.ctx
    hcWg,           \* counter of hc.wg
    health,         \* where the health checker's goroutine is
    stop,           \* where the goroutine that runs Stop is
    shutdown,       \* where the caller of Shutdown is
    reader,         \* where each GetStatus call is
    run,            \* where each worker's run() is
    stats,          \* each worker's counters
    collector,      \* collectMetrics: workers still to read, and the sums
    metrics         \* the pool's aggregated counters

lifecycle == <<isRunning, cancelled, hcCancelled, stop, shutdown>>
checker == <<hcWg, health>>
workers == <<run, stats, connected>>
collecting == <<collector, metrics>>
vars == <<mu, lifecycle, checker, reader, workers, collecting>>

-----------------------------------------------------------------------------
(* The mutex.  Lock announces the writer, which keeps new readers out, and *)
(* then waits for the readers that are in.                                 *)

FreeMu == [writer |-> FALSE, waiting |-> FALSE, readers |-> {}]

CanRLock == ~mu.writer /\ ~mu.waiting
RLocked(r) == [mu EXCEPT !.readers = @ \cup {r}]
RUnlocked(r) == [mu EXCEPT !.readers = @ \ {r}]

-----------------------------------------------------------------------------
(* Start                                                                   *)

ZeroStats == [processed |-> 0, succeeded |-> 0, failed |-> 0]
IdleCollector(at) == [at |-> at, todo |-> {}, sum |-> ZeroStats]

\* The whole of Start runs under the mutex and never blocks.  main calls it
\* once, before anything else can.
Start ==
    /\ mu = FreeMu
    /\ ~isRunning
    /\ stop = "off"
    /\ isRunning' = TRUE
    /\ run' = [w \in Workers |-> "idle"]
    /\ health' = "spawned"
    /\ collector' = IdleCollector("select")
    /\ UNCHANGED <<mu, cancelled, connected, hcCancelled, hcWg, stop,
                   shutdown, reader, stats, metrics>>

-----------------------------------------------------------------------------
(* Shutdown runs Stop in a goroutine and waits for it or for a timeout.    *)

BeginShutdown ==
    /\ isRunning
    /\ shutdown = "up"
    /\ stop = "off"
    /\ shutdown' = "waiting"
    /\ stop' = "lock"
    /\ UNCHANGED <<mu, isRunning, cancelled, hcCancelled, checker, reader,
                   workers, collecting>>

ShutdownDone ==
    /\ shutdown = "waiting"
    /\ stop = "done"
    /\ shutdown' = "returned"
    /\ UNCHANGED <<mu, isRunning, cancelled, hcCancelled, stop, checker,
                   reader, workers, collecting>>

\* Mutant of ShutdownTimeout: the force cancel is missing.
ShutdownTimeoutNoCancel ==
    /\ shutdown = "waiting"
    /\ shutdown' = "returned"
    /\ UNCHANGED <<mu, isRunning, cancelled, hcCancelled, stop, checker,
                   reader, workers, collecting>>

\* Mutant of ShutdownTimeout: it waits for Stop after all.
ShutdownTimeoutAfterStop ==
    /\ shutdown = "waiting"
    /\ stop = "done"
    /\ shutdown' = "returned"
    /\ cancelled' = TRUE
    /\ UNCHANGED <<mu, isRunning, hcCancelled, stop, checker, reader,
                   workers, collecting>>

ShutdownTimeout ==
    /\ shutdown = "waiting"
    /\ shutdown' = "returned"
    /\ cancelled' = TRUE
    /\ UNCHANGED <<mu, isRunning, hcCancelled, stop, checker, reader,
                   workers, collecting>>

-----------------------------------------------------------------------------
(* Stop                                                                    *)

StopAnnounce ==
    /\ stop = "lock"
    /\ ~mu.writer /\ ~mu.waiting
    /\ mu' = [mu EXCEPT !.waiting = TRUE]
    /\ stop' = "locking"
    /\ UNCHANGED <<isRunning, cancelled, hcCancelled, shutdown, checker,
                   reader, workers, collecting>>

\* Lock returns; isRunning holds, so the health checker is told to stop.
StopLocked ==
    /\ stop = "locking"
    /\ mu.readers = {}
    /\ mu' = [FreeMu EXCEPT !.writer = TRUE]
    /\ hcCancelled' = TRUE
    /\ stop' = "health"
    /\ UNCHANGED <<isRunning, cancelled, shutdown, checker, reader, workers,
                   collecting>>

\* healthChecker.Stop waits for the checker's goroutine, the mutex held.
StopCancelWorkers ==
    /\ stop = "health"
    /\ hcWg = 0
    /\ cancelled' = TRUE
    /\ stop' = "workers"
    /\ UNCHANGED <<mu, isRunning, hcCancelled, shutdown, checker, reader,
                   workers, collecting>>

StopReturn ==
    /\ stop = "workers"
    /\ isRunning' = FALSE
    /\ mu' = FreeMu
    /\ stop' = "done"
    /\ UNCHANGED <<cancelled, hcCancelled, shutdown, checker, reader,
                   workers, collecting>>

\* Mutant of StopDrained: nobody waits for the workers' wait group.
StopUndrained == StopReturn
\* The workers' wait group is done, ...
StopDrained == (\A w \in Workers : run[w] = "exited") /\ StopReturn
\* ... or WorkerShutdownTimeout has passed.
StopTimeout == StopReturn

-----------------------------------------------------------------------------
(* The health checker.                                                     *)

\* Mutant of HealthStart: wg.Add(1) is forgotten.
HealthStartUncounted ==
    /\ health = "spawned"
    /\ health' = "select"
    /\ UNCHANGED <<mu, hcWg, lifecycle, reader, workers, collecting>>

HealthStart ==
    /\ health = "spawned"
    /\ hcWg' = hcWg + 1
    /\ health' = "select"
    /\ UNCHANGED <<mu, lifecycle, reader, workers, collecting>>

HealthTick ==
    /\ health = "select"
    /\ health' = "rlock"
    /\ UNCHANGED <<mu, hcWg, lifecycle, reader, workers, collecting>>

HealthRLock ==
    /\ health = "rlock"
    /\ CanRLock
    /\ mu' = RLocked("health")
    /\ health' = "status"
    /\ UNCHANGED <<hcWg, lifecycle, reader, workers, collecting>>

\* The rest of GetStatus and of the check; the collector's lock is needed
\* on the way.
HealthChecked ==
    /\ health = "status"
    /\ collector.at # "reading"
    /\ mu' = RUnlocked("health")
    /\ health' = "select"
    /\ UNCHANGED <<hcWg, lifecycle, reader, workers, collecting>>

HealthExit ==
    /\ health = "select"
    /\ hcCancelled
    /\ hcWg' = hcWg - 1
    /\ health' = "exited"
    /\ UNCHANGED <<mu, lifecycle, reader, workers, collecting>>

-----------------------------------------------------------------------------
(* GetStatus from an HTTP request.                                         *)

StatusCall(r) ==
    /\ reader[r] = "idle"
    /\ reader' = [reader EXCEPT ![r] = "rlock"]
    /\ UNCHANGED <<mu, lifecycle, checker, workers, collecting>>

StatusRLock(r) ==
    /\ reader[r] = "rlock"
    /\ CanRLock
    /\ mu' = RLocked(r)
    /\ reader' = [reader EXCEPT ![r] = "status"]
    /\ UNCHANGED <<lifecycle, checker, workers, collecting>>

StatusReturn(r) ==
    /\ reader[r] = "status"
    /\ collector.at # "reading"
    /\ mu' = RUnlocked(r)
    /\ reader' = [reader EXCEPT ![r] = "idle"]
    /\ UNCHANGED <<lifecycle, checker, workers, collecting>>

-----------------------------------------------------------------------------
(* The workers.  select takes any ready case, so a delivery may still be   *)
(* handled after the context is cancelled.                                 *)

BeginJob(w) ==
    /\ run[w] = "idle"
    /\ connected
    /\ stats[w].processed < MaxJobs
    /\ run' = [run EXCEPT ![w] = "busy"]
    /\ UNCHANGED <<mu, lifecycle, checker, reader, stats, connected,
                   collecting>>

\* updateJobStats under the worker's own mutex.
\* Mutant of Counted: a failed job is counted as processed only.
CountedOnce(s, ok) ==
    [processed |-> s.processed + 1,
     succeeded |-> IF ok THEN s.succeeded + 1 ELSE s.succeeded,
     failed |-> s.failed]
Counted(s, ok) ==
    [processed |-> s.processed + 1,
     succeeded |-> IF ok THEN s.succeeded + 1 ELSE s.succeeded,
     failed |-> IF ok THEN s.failed ELSE s.failed + 1]

FinishJob(w) ==
    /\ run[w] = "busy"
    /\ \E ok \in BOOLEAN :
          stats' = [stats EXCEPT ![w] = Counted(stats[w], ok)]
    /\ run' = [run EXCEPT ![w] = "idle"]
    /\ UNCHANGED <<mu, lifecycle, checker, reader, connected, collecting>>

\* ConsumeJobs returns; nobody starts the worker again.
Exit(w) ==
    /\ run[w] = "idle"
    /\ cancelled \/ ~connected
    /\ run' = [run EXCEPT ![w] = "exited"]
    /\ UNCHANGED <<mu, lifecycle, checker, reader, stats, connected,
                   collecting>>

LoseConnection ==
    /\ connected
    /\ connected' = FALSE
    /\ UNCHANGED <<mu, lifecycle, checker, reader, run, stats, collecting>>

-----------------------------------------------------------------------------
(* The metrics collector reads the workers one after the other, its own    *)
(* mutex held, and replaces the sums at the end.                           *)

Plus(a, b) == [processed |-> a.processed + b.processed,
               succeeded |-> a.succeeded + b.succeeded,
               failed |-> a.failed + b.failed]

\* Mutant of CollectBegin: the sums start from the last ones.
CollectBeginUnreset ==
    /\ collector.at = "select"
    /\ collector' = [at |-> "reading", todo |-> Workers, sum |-> metrics]
    /\ UNCHANGED <<mu, lifecycle, checker, reader, workers, metrics>>

CollectBegin ==
    /\ collector.at = "select"
    /\ collector' = [at |-> "reading", todo |-> Workers, sum |-> ZeroStats]
    /\ UNCHANGED <<mu, lifecycle, checker, reader, workers, metrics>>

CollectRead(w) ==
    /\ w \in collector.todo
    /\ collector' = [at |-> "reading", todo |-> collector.todo \ {w},
                     sum |-> Plus(collector.sum, stats[w])]
    /\ UNCHANGED <<mu, lifecycle, checker, reader, workers, metrics>>

CollectEnd ==
    /\ collector.at = "reading"
    /\ collector.todo = {}
    /\ metrics' = collector.sum
    /\ collector' = IdleCollector("select")
    /\ UNCHANGED <<mu, lifecycle, checker, reader, workers>>

CollectExit ==
    /\ collector.at = "select"
    /\ cancelled
    /\ collector' = IdleCollector("exited")
    /\ UNCHANGED <<mu, lifecycle, checker, reader, workers, metrics>>

-----------------------------------------------------------------------------

Init ==
    /\ mu = FreeMu
    /\ isRunning = FALSE
    /\ cancelled = FALSE
    /\ connected = TRUE
    /\ hcCancelled = FALSE
    /\ hcWg = 0
    /\ health = "off"
    /\ stop = "off"
    /\ shutdown = "up"
    /\ reader = [r \in Readers |-> "idle"]
    /\ run = [w \in Workers |-> "off"]
    /\ stats = [w \in Workers |-> ZeroStats]
    /\ collector = IdleCollector("off")
    /\ metrics = ZeroStats

Stop == \/ StopAnnounce \/ StopLocked \/ StopCancelWorkers
        \/ StopDrained \/ StopTimeout
HealthChecker == HealthStart \/ HealthRLock \/ HealthChecked \/ HealthExit
GetStatus(r) == StatusRLock(r) \/ StatusReturn(r)
Collect == (\E w \in Workers : CollectRead(w)) \/ CollectEnd

Next ==
    \/ Start \/ BeginShutdown \/ ShutdownDone \/ ShutdownTimeout
    \/ Stop
    \/ HealthChecker \/ HealthTick
    \/ \E r \in Readers : StatusCall(r) \/ GetStatus(r)
    \/ \E w \in Workers : BeginJob(w) \/ FinishJob(w) \/ Exit(w)
    \/ LoseConnection
    \/ CollectBegin \/ Collect \/ CollectExit

Spec == Init /\ [][Next]_vars

\* Goroutines that can step do so, timers fire, handlers return.  Ticks, new
\* jobs, new requests and the signal to shut down need never come; of two
\* ready cases select takes each one infinitely often.
Fairness ==
    /\ WF_vars(ShutdownDone) /\ WF_vars(ShutdownTimeout)
    /\ WF_vars(Stop)
    /\ WF_vars(HealthStart) /\ WF_vars(HealthRLock) /\ WF_vars(HealthChecked)
    /\ SF_vars(HealthExit)
    /\ \A r \in Readers : WF_vars(StatusRLock(r)) /\ WF_vars(StatusReturn(r))
    /\ \A w \in Workers : WF_vars(FinishJob(w)) /\ SF_vars(Exit(w))
    /\ WF_vars(Collect)

FairSpec == Spec /\ Fairness

-----------------------------------------------------------------------------
(* Properties.                                                             *)

Stats == [processed : Nat, succeeded : Nat, failed : Nat]

TypeOK ==
    /\ mu \in [writer : BOOLEAN, waiting : BOOLEAN,
               readers : SUBSET (Readers \cup {"health"})]
    /\ isRunning \in BOOLEAN /\ cancelled \in BOOLEAN
    /\ connected \in BOOLEAN /\ hcCancelled \in BOOLEAN
    /\ hcWg \in Nat
    /\ health \in {"off", "spawned", "select", "rlock", "status", "exited"}
    /\ stop \in {"off", "lock", "locking", "health", "workers", "done"}
    /\ shutdown \in {"up", "waiting", "returned"}
    /\ reader \in [Readers -> {"idle", "rlock", "status"}]
    /\ run \in [Workers -> {"off", "idle", "busy", "exited"}]
    /\ stats \in [Workers -> Stats]
    /\ collector \in [at : {"off", "select", "reading", "exited"},
                     todo : SUBSET Workers, sum : Stats]
    /\ metrics \in Stats

\* Once Shutdown has returned, timeout or not, the workers' context is
\* cancelled: no worker waits for jobs for ever in a process that believes
\* it has shut its pool down.
ReturnedMeansCancelled == shutdown = "returned" => cancelled

\* The sums, read worker by worker while the workers go on, still add up.
MetricsAddUp == metrics.processed = metrics.succeeded + metrics.failed

\* Nor are they ever ahead of what the workers have done.
MetricsNotAhead ==
    metrics.processed <=
        MapThenSumSet(LAMBDA w : stats[w].processed, Workers)

\* Stop itself returns and gives the mutex back.
StopReturns == stop = "lock" ~> stop = "done"

=============================================================================
