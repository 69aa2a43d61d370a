---------------------------- MODULE Server_proofs ----------------------------
(***************************************************************************)
(* Theorems about the server process and its worker pool, for every set of *)
(* workers and of HTTP requests.                                           *)
(***************************************************************************)
EXTENDS Server, FiniteSetTheorems, WellFoundedInduction, TLAPS

-----------------------------------------------------------------------------
(* How the pool is left.  Stop cancels the workers' context before it      *)
(* waits for them, so a Stop that is past that point implies it; and a     *)
(* Shutdown that returned without a timeout has seen Stop end, which,      *)
(* without its own timeout, has seen every worker leave.  A worker that    *)
(* has left stays away: Start runs once, before any Stop.                  *)

Drained == \A w \in Workers : run[w] = "exited"

ShutdownInv ==
    /\ stop \in {"workers", "done"} => cancelled
    /\ shutdown = "returned" => cancelled
    /\ stop = "done" /\ "pool" \notin late => Drained
    /\ shutdown = "returned" /\ "pool" \notin late => stop = "done"

\* The goroutine that runs Stop, and the caller of Shutdown.
LEMMA ShutdownSteps ==
    ASSUME ShutdownInv, Main \/ Stopping
    PROVE  ShutdownInv'
<1>1. CASE HttpDrained \/ CloseQueue \/ CloseEngineAndDatabase
  BY <1>1 DEF HttpDrained, CloseQueue, CloseEngineAndDatabase, ShutdownInv,
              Drained, vars, lifecycle, workers
<1>2. CASE HttpTimeout
  BY <1>2 DEF HttpTimeout, ShutdownInv, Drained, vars, lifecycle, workers
<1>3. CASE CallShutdown
  BY <1>3 DEF CallShutdown, BeginShutdown, ShutdownInv, Drained, workers
<1>4. CASE ReturnShutdown
  BY <1>4 DEF ReturnShutdown, ShutdownDone, ShutdownTimeout, ShutdownInv,
              Drained, workers
<1>5. CASE Stopping
  <2>1. CASE StopAnnounce /\ UNCHANGED late
    BY <2>1 DEF StopAnnounce, ShutdownInv, Drained, workers
  <2>2. CASE StopLocked /\ UNCHANGED late
    BY <2>2 DEF StopLocked, ShutdownInv, Drained, workers
  <2>3. CASE StopCancelWorkers /\ UNCHANGED late
    BY <2>3 DEF StopCancelWorkers, ShutdownInv, Drained, workers
  <2>4. CASE StopDrained /\ UNCHANGED late
    BY <2>4 DEF StopDrained, StopReturn, ShutdownInv, Drained, workers
  <2>5. CASE StopTimeout /\ late' = late \cup {"pool"}
    BY <2>5 DEF StopTimeout, StopReturn, ShutdownInv, Drained, workers
  <2> QED
    BY <1>5, <2>1, <2>2, <2>3, <2>4, <2>5 DEF Stopping
<1> QED
  BY <1>1, <1>2, <1>3, <1>4, <1>5 DEF Main

\* No other step touches where Stop and Shutdown are, and none brings a
\* worker back that has left.
LEMMA ShutdownFrame ==
    ASSUME ShutdownInv, UNCHANGED <<stop, shutdown, cancelled, late>>,
           stop # "off" /\ Drained => Drained'
    PROVE  ShutdownInv'
  BY DEF ShutdownInv

LEMMA ShutdownNext ==
    ASSUME ShutdownInv, [ServerNext]_serverVars
    PROVE  ShutdownInv'
<1>1. CASE Boot
  BY <1>1, ShutdownFrame DEF Boot, Start
<1>2. CASE BootFails \/ Interrupt \/ UNCHANGED serverVars
  BY <1>2, ShutdownFrame
     DEF BootFails, Interrupt, serverVars, vars, lifecycle, workers, Drained
<1>3. CASE Main \/ Stopping
  BY <1>3, ShutdownSteps
<1>4. CASE Goroutine(HealthChecker) \/ Goroutine(HealthTick)
  BY <1>4, ShutdownFrame
     DEF Goroutine, HealthChecker, HealthStart, HealthRLock, HealthChecked,
         HealthExit, HealthTick, lifecycle, workers, Drained
<1>5. ASSUME NEW r \in Readers, Request(r) \/ Goroutine(GetStatus(r))
      PROVE  ShutdownInv'
  BY <1>5, ShutdownFrame
     DEF Request, Goroutine, GetStatus, StatusCall, StatusRLock,
         StatusReturn, lifecycle, workers, Drained
<1>6. ASSUME NEW w \in Workers,
             Goroutine(BeginJob(w) \/ FinishJob(w) \/ Exit(w))
      PROVE  ShutdownInv'
  <2>1. run[w] \in {"idle", "busy"} /\ UNCHANGED <<lifecycle, late>>
    BY <1>6 DEF Goroutine, BeginJob, FinishJob, Exit
  <2>2. ~Drained
    BY <2>1 DEF Drained
  <2> QED
    BY <2>1, <2>2, ShutdownFrame DEF lifecycle
<1>7. CASE Goroutine(LoseConnection)
  BY <1>7, ShutdownFrame DEF Goroutine, LoseConnection, lifecycle, Drained
<1>8. CASE Goroutine(CollectBegin) \/ Goroutine(Collect)
              \/ Goroutine(CollectExit)
  BY <1>8, ShutdownFrame
     DEF Goroutine, CollectBegin, Collect, CollectRead, CollectEnd,
         CollectExit, lifecycle, workers, Drained
<1> QED
  BY <1>1, <1>2, <1>3, <1>4, <1>5, <1>6, <1>7, <1>8 DEF ServerNext

LEMMA ShutdownAlways == ServerSpec => []ShutdownInv
<1>1. ServerInit => ShutdownInv
  BY DEF ServerInit, Init, ShutdownInv
<1>2. ShutdownInv /\ [ServerNext]_serverVars => ShutdownInv'
  BY ShutdownNext
<1> QED
  BY <1>1, <1>2, PTL DEF ServerSpec

\* Once Shutdown has returned, with a timeout or without, the context of
\* the workers is cancelled.
THEOREM ReturnedCancelled == ServerSpec => []ReturnedMeansCancelled
<1>1. ShutdownInv => ReturnedMeansCancelled
  BY DEF ShutdownInv, ReturnedMeansCancelled
<1> QED
  BY <1>1, ShutdownAlways, PTL

\* A shutdown of the pool in which no timeout passed leaves no worker: the
\* browser and the database are not closed under a running handler.
THEOREM GracefulDrained == ServerSpec => []GracefulMeansDrained
<1>1. ShutdownInv => GracefulMeansDrained
  BY DEF ShutdownInv, GracefulMeansDrained, Drained
<1> QED
  BY <1>1, ShutdownAlways, PTL

-----------------------------------------------------------------------------
(* The metrics.  The sums can only add up if what they are made of does:   *)
(* every worker's counters, and the partial sums of the collector.  The    *)
(* types go along, and with them the wait group of the health checker,     *)
(* which counts its one goroutine.                                         *)

AddsUp(s) == s.processed = s.succeeded + s.failed

LockInv ==
    /\ mu \in [writer : BOOLEAN, waiting : BOOLEAN,
               readers : SUBSET (Readers \cup {"health"})]
    /\ reader \in [Readers -> {"idle", "rlock", "status"}]

ProcessInv ==
    /\ isRunning \in BOOLEAN /\ cancelled \in BOOLEAN
    /\ connected \in BOOLEAN /\ hcCancelled \in BOOLEAN
    /\ stop \in {"off", "lock", "locking", "health", "workers", "done"}
    /\ shutdown \in {"up", "waiting", "returned"}
    /\ main \in {"boot", "serving", "http", "pool", "queue", "closing",
                 "exited"}
    /\ late \subseteq {"http", "pool"}
    /\ main = "boot" => stop = "off"

CheckerInv ==
    /\ health \in {"off", "spawned", "select", "rlock", "status", "exited"}
    /\ hcWg = IF health \in {"select", "rlock", "status"} THEN 1 ELSE 0
    /\ main = "boot" => health = "off"

WorkersInv ==
    /\ run \in [Workers -> {"off", "idle", "busy", "exited"}]
    /\ stats \in [Workers -> Stats]
    /\ \A w \in Workers : AddsUp(stats[w])

CollectorInv ==
    /\ collector \in [at : {"off", "select", "reading", "exited"},
                      todo : SUBSET Workers, sum : Stats]
    /\ AddsUp(collector.sum)
    /\ metrics \in Stats
    /\ AddsUp(metrics)

MetricsInv ==
    LockInv /\ ProcessInv /\ CheckerInv /\ WorkersInv /\ CollectorInv

\* Each part depends on its own variables only.
LEMMA PartsFrame ==
    ASSUME MetricsInv
    PROVE  /\ UNCHANGED <<mu, reader>> => LockInv'
           /\ UNCHANGED <<lifecycle, connected, main, late>> => ProcessInv'
           /\ UNCHANGED checker /\ (main' = "boot" => main = "boot")
                 => CheckerInv'
           /\ UNCHANGED <<run, stats>> => WorkersInv'
           /\ UNCHANGED collecting => CollectorInv'
<1>1. UNCHANGED <<mu, reader>> => LockInv'
  BY DEF MetricsInv, LockInv
<1>2. UNCHANGED <<lifecycle, connected, main, late>> => ProcessInv'
  BY DEF MetricsInv, ProcessInv, lifecycle
<1>3. UNCHANGED checker /\ (main' = "boot" => main = "boot") => CheckerInv'
  BY DEF MetricsInv, CheckerInv, checker
<1>4. UNCHANGED <<run, stats>> => WorkersInv'
  BY DEF MetricsInv, WorkersInv
<1>5. UNCHANGED collecting => CollectorInv'
  BY DEF MetricsInv, CollectorInv, collecting
<1> QED
  BY <1>1, <1>2, <1>3, <1>4, <1>5

\* What one job does to the counters of its worker.
LEMMA CountedAddsUp ==
    ASSUME NEW s \in Stats, AddsUp(s), NEW ok \in BOOLEAN
    PROVE  Counted(s, ok) \in Stats /\ AddsUp(Counted(s, ok))
<1>1. CASE ok
  BY <1>1 DEF Stats, AddsUp, Counted
<1>2. CASE ~ok
  BY <1>2 DEF Stats, AddsUp, Counted
<1> QED
  BY <1>1, <1>2

\* Adding two sets of counters.
LEMMA PlusAddsUp ==
    ASSUME NEW a \in Stats, NEW b \in Stats, AddsUp(a), AddsUp(b)
    PROVE  Plus(a, b) \in Stats /\ AddsUp(Plus(a, b))
  BY DEF Stats, AddsUp, Plus

LEMMA ZeroAddsUp == ZeroStats \in Stats /\ AddsUp(ZeroStats)
  BY DEF ZeroStats, Stats, AddsUp

LEMMA MetricsInit == ServerInit => MetricsInv
<1> SUFFICES ASSUME ServerInit PROVE MetricsInv
  OBVIOUS
<1>1. LockInv
  BY DEF ServerInit, Init, FreeMu, LockInv
<1>2. ProcessInv /\ CheckerInv
  BY DEF ServerInit, Init, ProcessInv, CheckerInv
<1>3. WorkersInv /\ CollectorInv
  BY ZeroAddsUp DEF ServerInit, Init, IdleCollector, WorkersInv, CollectorInv
<1> QED
  BY <1>1, <1>2, <1>3 DEF MetricsInv

\* Steps of the main goroutine, of Stop and of Shutdown.
LEMMA MainMetrics ==
    ASSUME MetricsInv, Main \/ Stopping
    PROVE  MetricsInv'
<1>1. UNCHANGED <<reader, checker, run, stats, collecting>>
  BY DEF Main, HttpDrained, HttpTimeout, CallShutdown, ReturnShutdown,
         CloseQueue, CloseEngineAndDatabase, BeginShutdown, ShutdownDone,
         ShutdownTimeout, Stopping, StopAnnounce, StopLocked,
         StopCancelWorkers, StopDrained, StopTimeout, StopReturn,
         vars, checker, workers, collecting
<1>2. ProcessInv' /\ main' # "boot"
  <2>1. CASE Main
    <3>0. ProcessInv
      BY DEF MetricsInv
    <3>1. CASE HttpDrained \/ HttpTimeout
      BY <3>0, <3>1 DEF HttpDrained, HttpTimeout, vars, lifecycle, workers,
                        ProcessInv
    <3>2. CASE CallShutdown
      BY <3>0, <3>2 DEF CallShutdown, BeginShutdown, workers, ProcessInv
    <3>3. CASE ReturnShutdown
      BY <3>0, <3>3 DEF ReturnShutdown, ShutdownDone, ShutdownTimeout, workers,
                        ProcessInv
    <3>4. CASE CloseQueue \/ CloseEngineAndDatabase
      BY <3>0, <3>4 DEF CloseQueue, CloseEngineAndDatabase, vars, lifecycle,
                        workers, ProcessInv
    <3> QED
      BY <2>1, <3>1, <3>2, <3>3, <3>4 DEF Main
  <2>2. CASE Stopping
    <3>1. stop # "off"
      BY <2>2 DEF Stopping, StopAnnounce, StopLocked, StopCancelWorkers,
                  StopDrained, StopTimeout, StopReturn
    <3>2. main # "boot"
      BY <3>1 DEF MetricsInv, ProcessInv
    <3>3. ProcessInv'
      BY <2>2, <3>2
         DEF Stopping, StopAnnounce, StopLocked, StopCancelWorkers,
             StopDrained, StopTimeout, StopReturn, workers, MetricsInv,
             ProcessInv
    <3> QED
      BY <2>2, <3>2, <3>3 DEF Stopping
  <2> QED
    BY <2>1, <2>2
<1>3. LockInv'
  <2>1. CASE Main
    BY <1>1, <2>1, PartsFrame
       DEF Main, HttpDrained, HttpTimeout, CallShutdown, ReturnShutdown,
           CloseQueue, CloseEngineAndDatabase, BeginShutdown, ShutdownDone,
           ShutdownTimeout, vars
  <2>2. CASE Stopping
    <3>1. FreeMu \in [writer : BOOLEAN, waiting : BOOLEAN,
                      readers : SUBSET (Readers \cup {"health"})]
      BY DEF FreeMu
    <3>2. CASE StopAnnounce
      BY <1>1, <3>2 DEF StopAnnounce, MetricsInv, LockInv
    <3>3. CASE StopLocked
      BY <1>1, <3>1, <3>3 DEF StopLocked, MetricsInv, LockInv
    <3>4. CASE StopCancelWorkers
      BY <1>1, <3>4 DEF StopCancelWorkers, MetricsInv, LockInv
    <3>5. CASE StopDrained \/ StopTimeout
      BY <1>1, <3>1, <3>5
         DEF StopDrained, StopTimeout, StopReturn, MetricsInv, LockInv
    <3> QED
      BY <2>2, <3>2, <3>3, <3>4, <3>5 DEF Stopping
  <2> QED
    BY <2>1, <2>2
<1> QED
  BY <1>1, <1>2, <1>3, PartsFrame DEF MetricsInv

\* Steps of the health checker.
LEMMA CheckerMetrics ==
    ASSUME MetricsInv, Goroutine(HealthChecker) \/ Goroutine(HealthTick)
    PROVE  MetricsInv'
<1>1. UNCHANGED <<reader, lifecycle, connected, main, late, run, stats,
                  collecting>>
  BY DEF Goroutine, HealthChecker, HealthStart, HealthRLock, HealthChecked,
         HealthExit, HealthTick, workers, collecting
<1>2. CheckerInv'
  BY DEF MetricsInv, CheckerInv, Goroutine, HealthChecker, HealthStart,
         HealthRLock, HealthChecked, HealthExit, HealthTick
<1>3. LockInv'
  BY <1>1 DEF MetricsInv, LockInv, Goroutine, HealthChecker, HealthStart,
         HealthRLock, HealthChecked, HealthExit, HealthTick, RLocked,
         RUnlocked
<1> QED
  BY <1>1, <1>2, <1>3, PartsFrame DEF MetricsInv

\* Steps of a worker.
LEMMA WorkerMetrics ==
    ASSUME MetricsInv, NEW w \in Workers,
           Goroutine(BeginJob(w) \/ FinishJob(w) \/ Exit(w))
    PROVE  MetricsInv'
<1>1. UNCHANGED <<mu, reader, lifecycle, connected, main, late, checker,
                  collecting>>
  BY DEF Goroutine, BeginJob, FinishJob, Exit
<1>2. WorkersInv'
  <2>1. CASE BeginJob(w) \/ Exit(w)
    BY <2>1 DEF BeginJob, Exit, MetricsInv, WorkersInv
  <2>2. CASE FinishJob(w)
    <3>1. PICK ok \in BOOLEAN :
              stats' = [stats EXCEPT ![w] = Counted(stats[w], ok)]
      BY <2>2 DEF FinishJob
    <3>2. Counted(stats[w], ok) \in Stats /\ AddsUp(Counted(stats[w], ok))
      BY CountedAddsUp DEF MetricsInv, WorkersInv
    <3> QED
      BY <2>2, <3>1, <3>2 DEF FinishJob, MetricsInv, WorkersInv
  <2> QED
    BY <2>1, <2>2 DEF Goroutine
<1> QED
  BY <1>1, <1>2, PartsFrame DEF MetricsInv

\* Steps of the metrics collector.
LEMMA CollectorMetrics ==
    ASSUME MetricsInv,
           \/ Goroutine(CollectBegin) \/ Goroutine(Collect)
           \/ Goroutine(CollectExit)
    PROVE  MetricsInv'
<1>1. UNCHANGED <<mu, reader, lifecycle, connected, main, late, checker, run,
                  stats>>
  BY DEF Goroutine, CollectBegin, Collect, CollectRead, CollectEnd,
         CollectExit, workers
<1>2. CollectorInv'
  <2>1. CASE CollectBegin \/ CollectEnd \/ CollectExit
    BY <2>1, ZeroAddsUp
       DEF CollectBegin, CollectEnd, CollectExit, IdleCollector, MetricsInv,
           CollectorInv
  <2>2. ASSUME NEW w \in Workers, CollectRead(w)
        PROVE  CollectorInv'
    <3>1. Plus(collector.sum, stats[w]) \in Stats
             /\ AddsUp(Plus(collector.sum, stats[w]))
      BY PlusAddsUp DEF MetricsInv, CollectorInv, WorkersInv
    <3> QED
      BY <2>2, <3>1 DEF CollectRead, MetricsInv, CollectorInv
  <2> QED
    BY <2>1, <2>2 DEF Goroutine, Collect
<1> QED
  BY <1>1, <1>2, PartsFrame DEF MetricsInv

LEMMA MetricsNext ==
    ASSUME MetricsInv, [ServerNext]_serverVars
    PROVE  MetricsInv'
<1>1. CASE Boot
  <2>1. CheckerInv' /\ UNCHANGED <<mu, reader>>
    BY <1>1 DEF Boot, Start, CheckerInv, MetricsInv
  <2>2. ProcessInv'
    BY <1>1 DEF Boot, Start, ProcessInv, MetricsInv
  <2>3. WorkersInv' /\ CollectorInv'
    BY <1>1, ZeroAddsUp DEF Boot, Start, IdleCollector, WorkersInv,
                            CollectorInv, MetricsInv
  <2> QED
    BY <2>1, <2>2, <2>3, PartsFrame DEF MetricsInv
<1>2. CASE BootFails \/ Interrupt \/ UNCHANGED serverVars
  <2>1. UNCHANGED vars
    BY <1>2 DEF BootFails, Interrupt, serverVars
  <2>2. \/ ProcessInv' /\ main' # "boot"
        \/ UNCHANGED serverVars
    BY <1>2, <2>1 DEF BootFails, Interrupt, serverVars, vars, lifecycle,
                      workers, ProcessInv, MetricsInv
  <2> QED
    BY <2>1, <2>2, PartsFrame DEF MetricsInv, serverVars, vars, workers
<1>3. CASE Main \/ Stopping
  BY <1>3, MainMetrics
<1>4. CASE Goroutine(HealthChecker) \/ Goroutine(HealthTick)
  BY <1>4, CheckerMetrics
<1>5. ASSUME NEW r \in Readers, Request(r) \/ Goroutine(GetStatus(r))
      PROVE  MetricsInv'
  <2>1. UNCHANGED <<lifecycle, connected, main, late, checker, run, stats,
                    collecting>>
    BY <1>5 DEF Request, Goroutine, GetStatus, StatusCall, StatusRLock,
                StatusReturn, workers
  <2>2. LockInv'
    BY <1>5 DEF Request, Goroutine, GetStatus, StatusCall, StatusRLock,
                StatusReturn, RLocked, RUnlocked, LockInv, MetricsInv
  <2> QED
    BY <2>1, <2>2, PartsFrame DEF MetricsInv
<1>6. ASSUME NEW w \in Workers,
             Goroutine(BeginJob(w) \/ FinishJob(w) \/ Exit(w))
      PROVE  MetricsInv'
  BY <1>6, WorkerMetrics
<1>7. CASE Goroutine(LoseConnection)
  <2>1. ProcessInv'
    BY <1>7 DEF Goroutine, LoseConnection, lifecycle, ProcessInv, MetricsInv
  <2> QED
    BY <1>7, <2>1, PartsFrame DEF Goroutine, LoseConnection, MetricsInv
<1>8. CASE Goroutine(CollectBegin) \/ Goroutine(Collect)
              \/ Goroutine(CollectExit)
  BY <1>8, CollectorMetrics
<1> QED
  BY <1>1, <1>2, <1>3, <1>4, <1>5, <1>6, <1>7, <1>8 DEF ServerNext

LEMMA MetricsAlways == ServerSpec => []MetricsInv
<1>1. MetricsInv /\ [ServerNext]_serverVars => MetricsInv'
  BY MetricsNext
<1> QED
  BY <1>1, MetricsInit, PTL DEF ServerSpec

\* Types of the server process and its pool.
THEOREM ServerTypes == ServerSpec => []ServerTypeOK
<1>1. MetricsInv => ServerTypeOK
  BY DEF MetricsInv, LockInv, ProcessInv, CheckerInv, WorkersInv, CollectorInv,
         ServerTypeOK, TypeOK
<1> QED
  BY <1>1, MetricsAlways, PTL

\* The aggregated metrics, gathered worker by worker while the workers count
\* on, always add up.
THEOREM MetricsCohere == ServerSpec => []MetricsAddUp
<1>1. MetricsInv => MetricsAddUp
  BY DEF MetricsInv, CollectorInv, AddsUp, MetricsAddUp
<1> QED
  BY <1>1, MetricsAlways, PTL

-----------------------------------------------------------------------------
(* Sums over the workers.  The sum the metrics are compared with is a fold, *)
(* a recursive function on the sets of workers: that it has a solution is   *)
(* proved on the sets of 0, 1, 2, ... workers, the rest by looking at a     *)
(* smallest set for which it would be false.                               *)

Less == {p \in Nat \X Nat : p[1] < p[2]}

\* A family of sets of workers has a member that no smaller one is in.
LEMMA Smallest ==
    ASSUME NEW B \in SUBSET (SUBSET Workers), B # {}
    PROVE  \E s \in B : \A x \in s : s \ {x} \notin B
<1> DEFINE N == {Cardinality(s) : s \in B}
<1>1. \A s \in SUBSET Workers : IsFiniteSet(s) /\ Cardinality(s) \in Nat
  BY PoolAssumption, FS_Subset, FS_CardinalityType
<1>2. N \in SUBSET Nat /\ N # {}
  BY <1>1
<1>3. PICK n \in N : \A m \in N : <<m, n>> \notin Less
  <2> HIDE DEF N
  <2>1. IsWellFoundedOn(Less, Nat)
    BY NatLessThanWellFounded DEF OpToRel, Less
  <2> QED
    BY <1>2, <2>1, WFMin
<1>4. PICK s \in B : Cardinality(s) = n
  OBVIOUS
<1>5. ASSUME NEW x \in s, s \ {x} \in B PROVE FALSE
  <2>1. Cardinality(s \ {x}) = Cardinality(s) - 1
    BY <1>1, FS_RemoveElement
  <2>2. /\ Cardinality(s \ {x}) \in N /\ Cardinality(s \ {x}) \in Nat
        /\ Cardinality(s) \in Nat
    BY <1>1, <1>5
  <2>3. Cardinality(s \ {x}) < n
    BY <1>4, <2>1, <2>2
  <2> HIDE DEF N
  <2>4. <<Cardinality(s \ {x}), n>> \in Less
    BY <1>2, <2>2, <2>3 DEF Less
  <2> QED
    BY <1>3, <2>2, <2>4
<1> QED
  BY <1>5

Picked(s) == CHOOSE x \in s : TRUE

\* One step of the sum over a set s that g gives for smaller ones.
Added(st, g, s) ==
    IF s = {} THEN 0 ELSE st[Picked(s)].processed + g[s \ {Picked(s)}]

IsSum(st, g) == g = [s \in SUBSET Workers |-> Added(st, g, s)]

SumOf(st) == CHOOSE g : IsSum(st, g)

LEMMA PickedIn == \A s \in SUBSET Workers : s # {} => Picked(s) \in s
  BY DEF Picked

LEMMA SumIsFold ==
    ASSUME NEW st
    PROVE  MapThenSumSet(LAMBDA w : st[w].processed, Workers)
              = SumOf(st)[Workers]
  BY DEF MapThenSumSet, MapThenFoldSet, SumOf, IsSum, Added, Picked

Level(n) == {s \in SUBSET Workers : Cardinality(s) <= n}
Upto(st, n, g) == g = [s \in Level(n) |-> Added(st, g, s)]

\* The equation of the sum has a solution on the sets of every size.
LEMMA SumUpto ==
    ASSUME NEW st, NEW n \in Nat
    PROVE  \E g : Upto(st, n, g)
<1> DEFINE Bad == {k \in Nat : ~ \E g : Upto(st, k, g)}
<1>0. \A s \in SUBSET Workers : IsFiniteSet(s) /\ Cardinality(s) \in Nat
  BY PoolAssumption, FS_Subset, FS_CardinalityType
<1>1. CASE Bad = {}
  BY <1>1
<1>2. CASE Bad # {}
  <2>1. PICK k \in Bad : \A m \in Bad : <<m, k>> \notin Less
    <3>1. IsWellFoundedOn(Less, Nat)
      BY NatLessThanWellFounded DEF OpToRel, Less
    <3>2. Bad \in SUBSET Nat
      OBVIOUS
    <3> HIDE DEF Bad
    <3> QED
      BY <1>2, <3>1, <3>2, WFMin
  <2>2. CASE k = 0
    <3> DEFINE g == [s \in Level(0) |-> 0]
    <3>1. \A s \in Level(0) : s = {}
      <4> TAKE s \in Level(0)
      <4>1. IsFiniteSet(s) /\ Cardinality(s) = 0
        BY <1>0 DEF Level
      <4> QED
        BY <4>1, FS_EmptySet
    <3>2. \A s \in Level(0) : Added(st, g, s) = 0
      BY <3>1 DEF Added
    <3>3. g = [s \in Level(0) |-> Added(st, g, s)]
      <4> HIDE DEF g
      <4>1. g = [s \in Level(0) |-> 0]
        BY DEF g
      <4> QED
        BY <3>2, <4>1
    <3>4. Upto(st, 0, g)
      BY <3>3 DEF Upto
    <3> QED
      BY <2>1, <2>2, <3>4
  <2>3. CASE k # 0
    <3>1. k - 1 \in Nat /\ k \in Nat /\ k - 1 < k
      BY <2>1, <2>3
    <3>2. <<k - 1, k>> \in Less
      BY <3>1 DEF Less
    <3>3. k - 1 \notin Bad
      BY <2>1, <3>2
    <3>4. PICK g : Upto(st, k - 1, g)
      BY <3>1, <3>3
    <3> DEFINE h == [s \in Level(k) |-> Added(st, g, s)]
    <3>5. \A s \in Level(k - 1) : s \in Level(k) /\ g[s] = Added(st, g, s)
      BY <1>0, <3>1, <3>4 DEF Level, Upto
    <3>6. \A s \in Level(k - 1) : h[s] = g[s]
      BY <3>5
    <3>7. ASSUME NEW s \in Level(k), s # {}
          PROVE  s \ {Picked(s)} \in Level(k - 1)
      <4>1. Picked(s) \in s /\ IsFiniteSet(s) /\ Cardinality(s) <= k
            /\ Cardinality(s) \in Nat
        BY <1>0, <3>7, PickedIn DEF Level
      <4>2. Cardinality(s \ {Picked(s)}) = Cardinality(s) - 1
        BY <4>1, FS_RemoveElement
      <4>3. Cardinality(s \ {Picked(s)}) <= k - 1
        BY <3>1, <4>1, <4>2
      <4> QED
        BY <4>3 DEF Level
    <3> HIDE DEF h
    <3>8. \A s \in Level(k) : Added(st, h, s) = Added(st, g, s)
      BY <3>6, <3>7 DEF Added
    <3>9. h = [s \in Level(k) |-> Added(st, h, s)]
      BY <3>8 DEF h
    <3> QED
      BY <2>1, <3>9 DEF Upto
  <2> QED
    BY <2>2, <2>3
<1> QED
  BY <1>1, <1>2

LEMMA SumEquation ==
    ASSUME NEW st, NEW s \in SUBSET Workers
    PROVE  SumOf(st)[s] = Added(st, SumOf(st), s)
<1>1. Cardinality(Workers) \in Nat
  BY PoolAssumption, FS_CardinalityType
<1>2. Level(Cardinality(Workers)) = SUBSET Workers
  BY PoolAssumption, FS_Subset DEF Level
<1>3. PICK g : IsSum(st, g)
  <2>1. PICK g : Upto(st, Cardinality(Workers), g)
    BY <1>1, SumUpto
  <2> QED
    BY <1>2, <2>1 DEF Upto, IsSum
<1>4. IsSum(st, SumOf(st))
  BY <1>3, Zenon DEF SumOf
<1> DEFINE f == SumOf(st)
<1>5. f = [t \in SUBSET Workers |-> Added(st, f, t)]
  BY <1>4 DEF IsSum
<1> HIDE DEF f
<1>6. f[s] = Added(st, f, s)
  BY <1>5
<1> QED
  BY <1>6 DEF f

LEMMA SumIsNat ==
    ASSUME NEW st \in [Workers -> Stats], NEW s \in SUBSET Workers
    PROVE  SumOf(st)[s] \in Nat
<1> DEFINE Bad == {t \in SUBSET Workers : SumOf(st)[t] \notin Nat}
<1>1. CASE Bad # {}
  <2>1. PICK t \in Bad : \A x \in t : t \ {x} \notin Bad
    <3>1. Bad \in SUBSET (SUBSET Workers)
      OBVIOUS
    <3> HIDE DEF Bad
    <3> QED
      BY <1>1, <3>1, Smallest
  <2>2. SumOf(st)[t] = Added(st, SumOf(st), t)
    BY <2>1, SumEquation
  <2>3. CASE t = {}
    BY <2>1, <2>2, <2>3 DEF Added
  <2>4. CASE t # {}
    <3>1. Picked(t) \in t /\ t \in SUBSET Workers
      BY <2>1, <2>4, PickedIn
    <3>2. SumOf(st)[t \ {Picked(t)}] \in Nat
      BY <2>1, <3>1
    <3>3. st[Picked(t)].processed \in Nat
      BY <3>1 DEF Stats
    <3> QED
      BY <2>1, <2>2, <2>4, <3>2, <3>3 DEF Added
  <2> QED
    BY <2>3, <2>4
<1> QED
  BY <1>1

\* Any worker may be taken out of a sum first.
LEMMA SumWithout ==
    ASSUME NEW st \in [Workers -> Stats], NEW s \in SUBSET Workers, NEW w \in s
    PROVE  SumOf(st)[s] = st[w].processed + SumOf(st)[s \ {w}]
<1> DEFINE Bad == {t \in SUBSET Workers : \E v \in t :
                     SumOf(st)[t] # st[v].processed + SumOf(st)[t \ {v}]}
<1>1. CASE Bad # {}
  <2>1. PICK t \in Bad : \A x \in t : t \ {x} \notin Bad
    <3>1. Bad \in SUBSET (SUBSET Workers)
      OBVIOUS
    <3> HIDE DEF Bad
    <3> QED
      BY <1>1, <3>1, Smallest
  <2>2. PICK v \in t : SumOf(st)[t] # st[v].processed + SumOf(st)[t \ {v}]
    BY <2>1
  <2> DEFINE x == Picked(t)
             g == SumOf(st)
  <2>3. x \in t /\ t \in SUBSET Workers /\ t # {}
    BY <2>1, <2>2, PickedIn
  <2>4. g[t] = st[x].processed + g[t \ {x}]
    BY <2>3, SumEquation DEF Added
  <2>5. x # v
    BY <2>2, <2>4
  <2>6. v \in t \ {x} /\ x \in t \ {v}
    BY <2>2, <2>3, <2>5
  <2>7. t \ {x} \notin Bad /\ t \ {v} \notin Bad
    BY <2>1, <2>2, <2>3
  <2>8. g[t \ {x}] = st[v].processed + g[(t \ {x}) \ {v}]
    BY <2>3, <2>6, <2>7
  <2>9. g[t \ {v}] = st[x].processed + g[(t \ {v}) \ {x}]
    BY <2>3, <2>6, <2>7
  <2>10. (t \ {v}) \ {x} = (t \ {x}) \ {v}
    OBVIOUS
  <2>11. g[(t \ {x}) \ {v}] \in Nat
    BY <2>3, SumIsNat
  <2>12. st[x].processed \in Nat /\ st[v].processed \in Nat
    BY <2>2, <2>3 DEF Stats
  <2> DEFINE rest == (t \ {x}) \ {v}
             a == st[x].processed
             b == st[v].processed
             c == g[rest]
  <2>13. a \in Nat /\ b \in Nat /\ c \in Nat
    BY <2>11, <2>12
  <2>14. /\ g[t] = a + g[t \ {x}]
         /\ g[t \ {x}] = b + c
         /\ g[t \ {v}] = a + c
    BY <2>4, <2>8, <2>9, <2>10, Zenon
  <2> HIDE DEF a, b, c, g
  <2>15. g[t] = b + g[t \ {v}]
    BY <2>13, <2>14
  <2> QED
    BY <2>2, <2>15 DEF b, g
<1>2. CASE Bad = {}
  BY <1>2
<1> QED
  BY <1>1, <1>2

\* A sum does not shrink when its members grow.
LEMMA SumGrows ==
    ASSUME NEW st \in [Workers -> Stats], NEW new \in [Workers -> Stats],
           \A w \in Workers : st[w].processed <= new[w].processed,
           NEW s \in SUBSET Workers
    PROVE  SumOf(st)[s] <= SumOf(new)[s]
<1> DEFINE Bad == {t \in SUBSET Workers : ~(SumOf(st)[t] <= SumOf(new)[t])}
<1>1. CASE Bad # {}
  <2>1. PICK t \in Bad : \A x \in t : t \ {x} \notin Bad
    <3>1. Bad \in SUBSET (SUBSET Workers)
      OBVIOUS
    <3> HIDE DEF Bad
    <3> QED
      BY <1>1, <3>1, Smallest
  <2>2. /\ SumOf(st)[t] = Added(st, SumOf(st), t)
        /\ SumOf(new)[t] = Added(new, SumOf(new), t)
    BY <2>1, SumEquation
  <2>3. CASE t = {}
    BY <2>1, <2>2, <2>3 DEF Added
  <2>4. CASE t # {}
    <3> DEFINE x == Picked(t)
    <3>1. x \in t /\ t \in SUBSET Workers /\ x \in Workers
      BY <2>1, <2>4, PickedIn
    <3>2. SumOf(st)[t \ {x}] <= SumOf(new)[t \ {x}]
      BY <2>1, <3>1
    <3>3. SumOf(st)[t \ {x}] \in Nat /\ SumOf(new)[t \ {x}] \in Nat
      BY <3>1, SumIsNat
    <3>4. /\ st[x].processed <= new[x].processed
          /\ st[x].processed \in Nat /\ new[x].processed \in Nat
      BY <3>1 DEF Stats
    <3>5. /\ SumOf(st)[t] = st[x].processed + SumOf(st)[t \ {x}]
          /\ SumOf(new)[t] = new[x].processed + SumOf(new)[t \ {x}]
      BY <2>2, <2>4 DEF Added
    <3> HIDE DEF x
    <3>6. SumOf(st)[t] <= SumOf(new)[t]
      BY <3>2, <3>3, <3>4, <3>5
    <3> QED
      BY <2>1, <3>6
  <2> QED
    BY <2>3, <2>4
<1> QED
  BY <1>1
-----------------------------------------------------------------------------
(* The collector lags behind: what it has added up is no more than what the *)
(* workers it has read from have done by now.  The published total is such  *)
(* a sum over all of them.                                                 *)

AheadInv ==
    /\ collector.sum.processed <= SumOf(stats)[Workers \ collector.todo]
    /\ metrics.processed <= SumOf(stats)[Workers]

\* Workers only count up.
LEMMA StatsGrow ==
    ASSUME MetricsInv, [ServerNext]_serverVars
    PROVE  \A w \in Workers : stats[w].processed <= stats'[w].processed
<1>1. stats \in [Workers -> Stats]
  BY DEF MetricsInv, WorkersInv
<1>2. \A w \in Workers : stats[w].processed \in Nat
  BY <1>1 DEF Stats
<1>3. CASE stats' = stats
  BY <1>2, <1>3
<1>4. ASSUME NEW v \in Workers, FinishJob(v)
      PROVE  \A w \in Workers : stats[w].processed <= stats'[w].processed
  <2>1. PICK ok \in BOOLEAN :
            stats' = [stats EXCEPT ![v] = Counted(stats[v], ok)]
    BY <1>4 DEF FinishJob
  <2>2. Counted(stats[v], ok).processed = stats[v].processed + 1
    BY DEF Counted
  <2> QED
    BY <1>1, <1>2, <2>1, <2>2
<1>5. stats' = stats \/ \E v \in Workers : FinishJob(v)
  BY DEF ServerNext, Boot, BootFails, Interrupt, Main, HttpDrained, HttpTimeout,
         CallShutdown, ReturnShutdown, CloseQueue, CloseEngineAndDatabase,
         Stopping, StopAnnounce, StopLocked, StopCancelWorkers, StopDrained,
         StopTimeout, StopReturn, Start, BeginShutdown, ShutdownDone,
         ShutdownTimeout, Goroutine, HealthChecker, HealthStart, HealthRLock,
         HealthChecked, HealthExit, HealthTick, Request, GetStatus, StatusCall,
         StatusRLock, StatusReturn, BeginJob, Exit, LoseConnection,
         CollectBegin, Collect, CollectRead, CollectEnd, CollectExit,
         serverVars, vars, workers
<1> QED
  BY <1>3, <1>4, <1>5

\* What a step does to the collector and to the published metrics.
LEMMA CollectorSteps ==
    ASSUME [ServerNext]_serverVars
    PROVE  \/ UNCHANGED <<collector, metrics>>
           \/ collector'.sum = ZeroStats /\ metrics' = metrics
           \/ CollectEnd
           \/ \E w \in Workers : CollectRead(w)
  BY DEF ServerNext, Boot, BootFails, Interrupt, Main, HttpDrained, HttpTimeout,
         CallShutdown, ReturnShutdown, CloseQueue, CloseEngineAndDatabase,
         Stopping, StopAnnounce, StopLocked, StopCancelWorkers, StopDrained,
         StopTimeout, StopReturn, Start, BeginShutdown, ShutdownDone,
         ShutdownTimeout, Goroutine, HealthChecker, HealthStart, HealthRLock,
         HealthChecked, HealthExit, HealthTick, Request, GetStatus, StatusCall,
         StatusRLock, StatusReturn, BeginJob, FinishJob, Exit, LoseConnection,
         CollectBegin, Collect, CollectExit, IdleCollector,
         serverVars, vars, workers, collecting

LEMMA AheadNext ==
    ASSUME MetricsInv, MetricsInv', AheadInv, [ServerNext]_serverVars
    PROVE  AheadInv'
<1>1. /\ stats \in [Workers -> Stats] /\ stats' \in [Workers -> Stats]
      /\ collector.todo \in SUBSET Workers
      /\ collector'.todo \in SUBSET Workers
      /\ collector.sum \in Stats /\ metrics \in Stats
      /\ collector'.sum \in Stats /\ metrics' \in Stats
  BY DEF MetricsInv, WorkersInv, CollectorInv
<1>2. /\ collector.sum.processed \in Nat /\ metrics.processed \in Nat
      /\ \A w \in Workers : stats[w].processed \in Nat
  BY <1>1 DEF Stats
<1>3. \A s \in SUBSET Workers :
          /\ SumOf(stats)[s] \in Nat /\ SumOf(stats')[s] \in Nat
          /\ SumOf(stats)[s] <= SumOf(stats')[s]
  BY <1>1, StatsGrow, SumIsNat, SumGrows
<1>4. Workers \in SUBSET Workers /\ (Workers \ collector.todo) \in SUBSET Workers
      /\ (Workers \ collector'.todo) \in SUBSET Workers
  OBVIOUS
<1>5. metrics.processed <= SumOf(stats')[Workers]
  BY <1>2, <1>3, <1>4 DEF AheadInv
<1>6. collector.sum.processed <= SumOf(stats')[Workers \ collector.todo]
  BY <1>2, <1>3, <1>4 DEF AheadInv
<1>7. CASE UNCHANGED <<collector, metrics>>
  BY <1>5, <1>6, <1>7 DEF AheadInv
<1>8. CASE collector'.sum = ZeroStats /\ metrics' = metrics
  <2>1. collector'.sum.processed = 0
    BY <1>8 DEF ZeroStats
  <2>2. 0 <= SumOf(stats')[Workers \ collector'.todo]
    BY <1>3, <1>4
  <2> QED
    BY <1>5, <1>8, <2>1, <2>2 DEF AheadInv
<1>9. CASE CollectEnd
  <2>1. /\ Workers \ collector.todo = Workers
        /\ metrics' = collector.sum
        /\ collector'.sum.processed = 0
    BY <1>9 DEF CollectEnd, IdleCollector, ZeroStats
  <2>2. 0 <= SumOf(stats')[Workers \ collector'.todo]
    BY <1>3, <1>4
  <2> QED
    BY <1>6, <2>1, <2>2 DEF AheadInv
<1>10. ASSUME NEW w \in Workers, CollectRead(w) PROVE AheadInv'
  <2> DEFINE s == Workers \ collector'.todo
  <2>1. /\ w \in collector.todo /\ metrics' = metrics /\ stats' = stats
        /\ collector'.todo = collector.todo \ {w}
        /\ collector'.sum.processed =
              collector.sum.processed + stats[w].processed
    BY <1>10 DEF CollectRead, Plus, workers
  <2>2. w \in s /\ s \in SUBSET Workers /\ s \ {w} = Workers \ collector.todo
    BY <2>1
  <2>3. SumOf(stats)[s] = stats[w].processed + SumOf(stats)[s \ {w}]
    BY <1>1, <2>2, SumWithout
  <2>4. SumOf(stats)[s \ {w}] \in Nat
    BY <1>3, <2>2
  <2>5. collector.sum.processed <= SumOf(stats)[s \ {w}]
    BY <1>6, <2>1, <2>2
  <2> HIDE DEF s
  <2>6. collector'.sum.processed <= SumOf(stats)[s]
    BY <1>2, <2>1, <2>3, <2>4, <2>5
  <2> QED
    BY <1>5, <2>1, <2>6 DEF AheadInv, s
<1> QED
  BY <1>7, <1>8, <1>9, <1>10, CollectorSteps

\* The published number of processed jobs is never more than what the workers
\* have done, for any number of workers and in every interleaving of the
\* collector with them.
THEOREM MetricsLag == ServerSpec => []MetricsNotAhead
<1>1. MetricsInv /\ AheadInv => MetricsNotAhead
  BY SumIsFold DEF AheadInv, MetricsNotAhead
<1>2. ServerInit => AheadInv
  <2> SUFFICES ASSUME ServerInit PROVE AheadInv
    OBVIOUS
  <2>1. stats \in [Workers -> Stats]
    BY MetricsInit DEF MetricsInv, WorkersInv
  <2>2. /\ SumOf(stats)[Workers] \in Nat
        /\ SumOf(stats)[Workers \ collector.todo] \in Nat
    BY <2>1, SumIsNat
  <2>3. metrics.processed = 0 /\ collector.sum.processed = 0
    BY DEF ServerInit, Init, IdleCollector, ZeroStats
  <2> QED
    BY <2>2, <2>3 DEF AheadInv
<1>3. MetricsInv /\ MetricsInv' /\ AheadInv /\ [ServerNext]_serverVars
         => AheadInv'
  BY AheadNext
<1> QED
  BY <1>1, <1>2, <1>3, MetricsAlways, PTL DEF ServerSpec

-----------------------------------------------------------------------------
(* The order of the shutdown.  Stop runs only after the HTTP server is      *)
(* down, and the HTTP server goes down without a timeout only when every    *)
(* request is answered; none is handed out after that.                      *)

Quiet == \A r \in Readers : reader[r] = "idle"

OrderInv ==
    /\ main \in {"boot", "serving", "http"} => stop = "off"
    /\ main = "boot" => Quiet
    /\ main \in {"pool", "queue", "closing", "exited"} /\ "http" \notin late
          => Quiet

LEMMA OrderFrame ==
    ASSUME OrderInv, UNCHANGED <<main, late, stop, reader>>
    PROVE  OrderInv'
  BY DEF OrderInv, Quiet

LEMMA OrderMain ==
    ASSUME OrderInv, Boot \/ BootFails \/ Interrupt \/ Main
    PROVE  OrderInv'
<1>1. CASE Boot
  BY <1>1 DEF Boot, Start, OrderInv
<1>2. CASE BootFails \/ Interrupt
  BY <1>2 DEF BootFails, Interrupt, vars, lifecycle, OrderInv, Quiet
<1>3. CASE HttpDrained
  BY <1>3 DEF HttpDrained, vars, lifecycle, OrderInv, Quiet
<1>4. CASE HttpTimeout
  BY <1>4 DEF HttpTimeout, vars, lifecycle, OrderInv
<1>5. CASE CallShutdown
  BY <1>5 DEF CallShutdown, BeginShutdown, OrderInv, Quiet
<1>6. CASE ReturnShutdown
  BY <1>6 DEF ReturnShutdown, ShutdownDone, ShutdownTimeout, OrderInv, Quiet
<1>7. CASE CloseQueue \/ CloseEngineAndDatabase
  BY <1>7 DEF CloseQueue, CloseEngineAndDatabase, vars, lifecycle, OrderInv,
              Quiet
<1> QED
  BY <1>1, <1>2, <1>3, <1>4, <1>5, <1>6, <1>7 DEF Main

LEMMA OrderNext ==
    ASSUME MetricsInv, OrderInv, [ServerNext]_serverVars
    PROVE  OrderInv'
<1>1. CASE Boot \/ BootFails \/ Interrupt \/ Main
  BY <1>1, OrderMain
<1>2. CASE Stopping
  <2>1. stop # "off" /\ UNCHANGED <<main, reader>>
    BY <1>2 DEF Stopping, StopAnnounce, StopLocked, StopCancelWorkers,
                StopDrained, StopTimeout, StopReturn
  <2>2. "http" \notin late' => "http" \notin late
    BY <1>2 DEF Stopping
  <2> QED
    BY <2>1, <2>2 DEF OrderInv, Quiet
<1>3. ASSUME NEW r \in Readers, Request(r) \/ Goroutine(GetStatus(r))
      PROVE  OrderInv'
  <2>1. CASE Request(r)
    BY <2>1 DEF Request, Goroutine, StatusCall, lifecycle, OrderInv
  <2>2. CASE Goroutine(GetStatus(r))
    <3>1. reader[r] # "idle" /\ UNCHANGED <<main, late, stop>>
      BY <2>2 DEF Goroutine, GetStatus, StatusRLock, StatusReturn, lifecycle
    <3>2. ~Quiet
      BY <3>1 DEF Quiet
    <3> QED
      BY <3>1, <3>2 DEF OrderInv
  <2> QED
    BY <1>3, <2>1, <2>2
<1>4. ASSUME UNCHANGED <<main, late, lifecycle, reader>> PROVE OrderInv'
  BY <1>4, OrderFrame DEF lifecycle
<1>5. CASE Goroutine(HealthChecker) \/ Goroutine(HealthTick)
  BY <1>4, <1>5 DEF Goroutine, HealthChecker, HealthStart, HealthRLock,
                    HealthChecked, HealthExit, HealthTick
<1>6. ASSUME NEW w \in Workers,
             Goroutine(BeginJob(w) \/ FinishJob(w) \/ Exit(w))
      PROVE  OrderInv'
  BY <1>4, <1>6 DEF Goroutine, BeginJob, FinishJob, Exit
<1>7. CASE Goroutine(LoseConnection) \/ Goroutine(CollectBegin)
              \/ Goroutine(Collect) \/ Goroutine(CollectExit)
  BY <1>4, <1>7 DEF Goroutine, LoseConnection, CollectBegin, Collect,
                    CollectRead, CollectEnd, CollectExit
<1>8. CASE UNCHANGED serverVars
  BY <1>4, <1>8 DEF serverVars, vars
<1> QED
  BY <1>1, <1>2, <1>3, <1>5, <1>6, <1>7, <1>8 DEF ServerNext

\* Stop never finds a request for the status in progress or to come, unless
\* the HTTP server gave up waiting: the order of main's shutdown keeps the
\* requests out of reach of a Stop that hangs.
THEOREM NoRequestMeetsStop == ServerSpec => []RequestsMeetNoStop
<1>1. ServerInit => OrderInv
  BY DEF ServerInit, Init, OrderInv, Quiet
<1>2. MetricsInv /\ OrderInv /\ [ServerNext]_serverVars => OrderInv'
  BY OrderNext
<1>3. MetricsInv /\ OrderInv => RequestsMeetNoStop
  BY DEF MetricsInv, ProcessInv, OrderInv, Quiet, RequestsMeetNoStop
<1> QED
  BY <1>1, <1>2, <1>3, MetricsAlways, PTL DEF ServerSpec

-----------------------------------------------------------------------------
(* The mutex.  Who is in it, and who waits to be alone in it, is seen from  *)
(* the places of the goroutines.                                            *)

MutexInv ==
    /\ mu.writer <=> stop \in {"health", "workers"}
    /\ mu.waiting <=> stop = "locking"
    /\ mu.writer => mu.readers = {}
    /\ \A r \in Readers : r \in mu.readers <=> reader[r] = "status"
    /\ "health" \in mu.readers <=> health = "status"

\* While Stop is in the mutex, neither a request nor a health check is.
StopAlone ==
    stop \in {"health", "workers"} =>
        /\ health # "status"
        /\ \A r \in Readers : reader[r] # "status"

LEMMA MutexFrame ==
    ASSUME MutexInv, UNCHANGED <<mu, reader, health>>,
           \/ UNCHANGED stop
           \/ {stop, stop'} \subseteq {"health", "workers"}
           \/ {stop, stop'} \subseteq {"off", "lock", "done"}
    PROVE  MutexInv'
  BY DEF MutexInv

LEMMA MutexStop ==
    ASSUME MetricsInv, MutexInv, Stopping
    PROVE  MutexInv'
<1>1. /\ mu \in [writer : BOOLEAN, waiting : BOOLEAN,
                 readers : SUBSET (Readers \cup {"health"})]
      /\ UNCHANGED <<reader, health>>
  BY DEF MetricsInv, LockInv, Stopping, StopAnnounce, StopLocked,
         StopCancelWorkers, StopDrained, StopTimeout, StopReturn, checker
<1>2. CASE StopAnnounce
  <2>1. /\ stop = "lock" /\ stop' = "locking"
        /\ ~mu.writer /\ ~mu.waiting
        /\ mu' = [mu EXCEPT !.waiting = TRUE]
    BY <1>2 DEF StopAnnounce
  <2>2. /\ mu'.writer = FALSE /\ mu'.waiting = TRUE
        /\ mu'.readers = mu.readers
    BY <1>1, <2>1
  <2> QED
    BY <1>1, <2>1, <2>2 DEF MutexInv
<1>3. CASE StopLocked
  <2>1. /\ stop' = "health" /\ mu.readers = {}
        /\ mu' = [writer |-> TRUE, waiting |-> FALSE, readers |-> {}]
    BY <1>3 DEF StopLocked, FreeMu
  <2> QED
    BY <1>1, <2>1 DEF MutexInv
<1>4. CASE StopCancelWorkers
  BY <1>1, <1>4, MutexFrame DEF StopCancelWorkers
<1>5. CASE StopDrained \/ StopTimeout
  <2>1. /\ stop = "workers" /\ stop' = "done"
        /\ mu' = [writer |-> FALSE, waiting |-> FALSE, readers |-> {}]
    BY <1>5 DEF StopDrained, StopTimeout, StopReturn, FreeMu
  <2>2. mu.readers = {}
    BY <2>1 DEF MutexInv
  <2> QED
    BY <1>1, <2>1, <2>2 DEF MutexInv
<1> QED
  BY <1>2, <1>3, <1>4, <1>5 DEF Stopping

\* A reader comes in, or leaves.
LEMMA MutexReaders ==
    ASSUME MetricsInv, MutexInv, UNCHANGED stop,
           \/ /\ Goroutine(HealthChecker)
              /\ UNCHANGED reader
           \/ \E r \in Readers : Goroutine(GetStatus(r))
    PROVE  MutexInv'
<1>1. /\ mu \in [writer : BOOLEAN, waiting : BOOLEAN,
                 readers : SUBSET (Readers \cup {"health"})]
      /\ reader \in [Readers -> {"idle", "rlock", "status"}]
      /\ "health" \notin Readers
  BY PoolAssumption DEF MetricsInv, LockInv
<1>2. \A x : /\ RLocked(x).writer = mu.writer
             /\ RLocked(x).waiting = mu.waiting
             /\ RLocked(x).readers = mu.readers \cup {x}
             /\ RUnlocked(x).writer = mu.writer
             /\ RUnlocked(x).waiting = mu.waiting
             /\ RUnlocked(x).readers = mu.readers \ {x}
  BY <1>1 DEF RLocked, RUnlocked
<1>3. CASE Goroutine(HealthChecker) /\ UNCHANGED reader
  <2>1. CASE HealthStart \/ HealthExit
    BY <1>3, <2>1 DEF HealthStart, HealthExit, MutexInv
  <2>2. CASE HealthRLock
    <3>1. mu' = RLocked("health") /\ health' = "status" /\ ~mu.writer
      BY <2>2 DEF HealthRLock, CanRLock
    <3> QED
      BY <1>1, <1>2, <1>3, <3>1 DEF MutexInv
  <2>3. CASE HealthChecked
    <3>1. mu' = RUnlocked("health") /\ health' = "select"
      BY <2>3 DEF HealthChecked
    <3> QED
      BY <1>1, <1>2, <1>3, <3>1 DEF MutexInv
  <2> QED
    BY <1>3, <2>1, <2>2, <2>3 DEF Goroutine, HealthChecker
<1>4. ASSUME NEW r \in Readers, Goroutine(GetStatus(r)) PROVE MutexInv'
  <2>1. UNCHANGED health
    BY <1>4 DEF Goroutine, GetStatus, StatusRLock, StatusReturn, checker
  <2>2. CASE StatusRLock(r)
    <3>1. /\ mu' = RLocked(r) /\ ~mu.writer
          /\ reader' = [reader EXCEPT ![r] = "status"]
      BY <2>2 DEF StatusRLock, CanRLock
    <3>2. \A q \in Readers : reader'[q] = IF q = r THEN "status" ELSE reader[q]
      BY <1>1, <3>1
    <3> QED
      BY <1>1, <1>2, <2>1, <3>1, <3>2 DEF MutexInv
  <2>3. CASE StatusReturn(r)
    <3>1. /\ mu' = RUnlocked(r)
          /\ reader' = [reader EXCEPT ![r] = "idle"]
      BY <2>3 DEF StatusReturn
    <3>2. \A q \in Readers : reader'[q] = IF q = r THEN "idle" ELSE reader[q]
      BY <1>1, <3>1
    <3> QED
      BY <1>1, <1>2, <2>1, <3>1, <3>2 DEF MutexInv
  <2> QED
    BY <1>4, <2>2, <2>3 DEF Goroutine, GetStatus
<1> QED
  BY <1>3, <1>4

LEMMA MutexNext ==
    ASSUME MetricsInv, MutexInv, [ServerNext]_serverVars
    PROVE  MutexInv'
<1>1. CASE Boot
  <2>1. health = "off" /\ UNCHANGED <<mu, reader, stop>>
        /\ health' = "spawned"
    BY <1>1 DEF Boot, Start, MetricsInv, CheckerInv
  <2> QED
    BY <2>1 DEF MutexInv
<1>2. CASE BootFails \/ Interrupt \/ UNCHANGED serverVars
  BY <1>2, MutexFrame DEF BootFails, Interrupt, serverVars, vars, lifecycle,
                          checker
<1>3. CASE Main
  <2>1. CASE HttpDrained \/ HttpTimeout \/ CloseEngineAndDatabase
    BY <2>1, MutexFrame DEF HttpDrained, HttpTimeout, CloseEngineAndDatabase,
                            vars, lifecycle, checker
  <2>2. CASE CallShutdown \/ ReturnShutdown \/ CloseQueue
    BY <2>2, MutexFrame
       DEF CallShutdown, BeginShutdown, ReturnShutdown, ShutdownDone,
           ShutdownTimeout, CloseQueue, lifecycle, checker
  <2> QED
    BY <1>3, <2>1, <2>2 DEF Main
<1>4. CASE Stopping
  BY <1>4, MutexStop
<1>5. CASE Goroutine(HealthChecker)
  BY <1>5, MutexReaders
     DEF Goroutine, HealthChecker, HealthStart, HealthRLock, HealthChecked,
         HealthExit, lifecycle
<1>6. CASE Goroutine(HealthTick)
  BY <1>6 DEF Goroutine, HealthTick, lifecycle, MutexInv
<1>7. ASSUME NEW r \in Readers, Request(r) PROVE MutexInv'
  <2>1. /\ UNCHANGED <<mu, health, stop>> /\ reader[r] = "idle"
        /\ reader' = [reader EXCEPT ![r] = "rlock"]
    BY <1>7 DEF Request, Goroutine, StatusCall, lifecycle, checker
  <2>2. \A q \in Readers : reader'[q] = IF q = r THEN "rlock" ELSE reader[q]
    BY <2>1 DEF MetricsInv, LockInv
  <2> QED
    BY <2>1, <2>2 DEF MutexInv
<1>8. ASSUME NEW r \in Readers, Goroutine(GetStatus(r)) PROVE MutexInv'
  <2>1. UNCHANGED stop
    BY <1>8 DEF Goroutine, GetStatus, StatusRLock, StatusReturn, lifecycle
  <2> QED
    BY <1>8, <2>1, MutexReaders
<1>9. ASSUME NEW w \in Workers,
             Goroutine(BeginJob(w) \/ FinishJob(w) \/ Exit(w))
      PROVE  MutexInv'
  BY <1>9, MutexFrame DEF Goroutine, BeginJob, FinishJob, Exit, lifecycle,
                          checker
<1>10. CASE Goroutine(LoseConnection) \/ Goroutine(CollectBegin)
               \/ Goroutine(Collect) \/ Goroutine(CollectExit)
  BY <1>10, MutexFrame DEF Goroutine, LoseConnection, CollectBegin, Collect,
                           CollectRead, CollectEnd, CollectExit, lifecycle,
                           checker
<1> QED
  BY <1>1, <1>2, <1>3, <1>4, <1>5, <1>6, <1>7, <1>8, <1>9, <1>10
     DEF ServerNext

\* Stop changes the pool alone: a request that reads its status under the
\* read lock has left the mutex, or has not yet come in, for any number of
\* requests, and so has the health check that Stop waits for.
THEOREM StopExcludesReaders == ServerSpec => []StopAlone
<1>1. ServerInit => MutexInv
  BY PoolAssumption DEF ServerInit, Init, FreeMu, MutexInv
<1>2. MetricsInv /\ MutexInv /\ [ServerNext]_serverVars => MutexInv'
  BY MutexNext
<1>3. MutexInv => StopAlone
  BY DEF MutexInv, StopAlone
<1> QED
  BY <1>1, <1>2, <1>3, MetricsAlways, PTL DEF ServerSpec

=============================================================================
