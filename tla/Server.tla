------------------------------- MODULE Server -------------------------------
(***************************************************************************)
(* The server process: main starts the worker pool and the HTTP server,    *)
(* waits for a signal or for the HTTP server's error, and then runs the    *)
(* shutdown: the HTTP server first, then its deferred calls, the last one  *)
(* registered first: the worker pool, the AMQP connection, the browser,    *)
(* the database.  When main returns the process is gone, with every        *)
(* goroutine that is left.                                                 *)
(***************************************************************************)
EXTENDS WorkerPool

VARIABLES
    main,       \* where the main goroutine is
    late        \* which waits of the shutdown ended with their timeout

serverVars == <<vars, main, late>>

Alive == main # "exited"

-----------------------------------------------------------------------------
(* Start-up.                                                               *)

\* Database, browser and broker are there, and workerPool.Start succeeds.
Boot ==
    /\ main = "boot"
    /\ Start
    /\ main' = "serving"
    /\ UNCHANGED late

\* logger.Fatal ends the process at once: no deferred call runs.
BootFails ==
    /\ main = "boot"
    /\ main' = "exited"
    /\ UNCHANGED <<vars, late>>

-----------------------------------------------------------------------------
(* Shutdown.                                                               *)

\* Mutant of Interrupt: the HTTP server is left to the end of the process.
InterruptSkipHttp ==
    /\ main = "serving"
    /\ main' = "pool"
    /\ UNCHANGED <<vars, late>>

\* SIGINT, SIGTERM, or ListenAndServe returned.
Interrupt ==
    /\ main = "serving"
    /\ main' = "http"
    /\ UNCHANGED <<vars, late>>

\* httpServer.Shutdown takes no new request and waits for those in progress,
\* for 30 seconds at most.
HttpDrained ==
    /\ main = "http"
    /\ \A r \in Readers : reader[r] = "idle"
    /\ main' = "pool"
    /\ UNCHANGED <<vars, late>>

HttpTimeout ==
    /\ main = "http"
    /\ main' = "pool"
    /\ late' = late \cup {"http"}
    /\ UNCHANGED vars

\* The deferred workerPool.Shutdown.
CallShutdown ==
    /\ main = "pool"
    /\ BeginShutdown
    /\ UNCHANGED <<main, late>>

ReturnShutdown ==
    /\ main = "pool"
    /\ \/ ShutdownDone /\ UNCHANGED late
       \/ ShutdownTimeout /\ late' = late \cup {"pool"}
    /\ main' = "queue"

\* The deferred queueManager.Close: the consumers' delivery channels close.
CloseQueue ==
    /\ main = "queue"
    /\ connected' = FALSE
    /\ main' = "closing"
    /\ UNCHANGED <<mu, lifecycle, checker, reader, run, stats, collecting, late>>

\* The deferred Close calls of the browser and of the database, which are taken
\* to return although pgxpool waits for the connections handlers hold; main
\* returns.
CloseEngineAndDatabase ==
    /\ main = "closing"
    /\ main' = "exited"
    /\ UNCHANGED <<vars, late>>

Main == \/ HttpDrained \/ HttpTimeout \/ CallShutdown \/ ReturnShutdown
        \/ CloseQueue \/ CloseEngineAndDatabase

-----------------------------------------------------------------------------
(* The goroutines of the pool, as long as the process lives.               *)

\* Stop, run by Shutdown's goroutine.
Stopping ==
    /\ Alive
    /\ \/ StopAnnounce /\ UNCHANGED late
       \/ StopLocked /\ UNCHANGED late
       \/ StopCancelWorkers /\ UNCHANGED late
       \/ StopDrained /\ UNCHANGED late
       \/ StopTimeout /\ late' = late \cup {"pool"}
    /\ UNCHANGED main

Goroutine(A) == Alive /\ A /\ UNCHANGED <<main, late>>

\* The HTTP server hands out requests only while it is up.
Request(r) == main = "serving" /\ Goroutine(StatusCall(r))

ServerInit == Init /\ main = "boot" /\ late = {}

ServerNext ==
    \/ Boot \/ BootFails \/ Interrupt \/ Main \/ Stopping
    \/ Goroutine(HealthChecker) \/ Goroutine(HealthTick)
    \/ \E r \in Readers : Request(r) \/ Goroutine(GetStatus(r))
    \/ \E w \in Workers : Goroutine(BeginJob(w) \/ FinishJob(w) \/ Exit(w))
    \/ Goroutine(LoseConnection)
    \/ Goroutine(CollectBegin) \/ Goroutine(Collect) \/ Goroutine(CollectExit)

(***************************************************************************)
(* The main goroutine goes on and its timers fire; so do the requests and  *)
(* the collector they wait for, whose mutex gives every waiter its turn.   *)
(* Nothing is assumed of Stop, which may hang, of the health checker, or   *)
(* of the handlers, which a page can keep for ever; and the signal need    *)
(* never come.                                                             *)
(***************************************************************************)
ServerFairness ==
    /\ WF_serverVars(Main)
    /\ WF_serverVars(Goroutine(Collect))
    /\ \A r \in Readers : /\ WF_serverVars(Goroutine(StatusRLock(r)))
                          /\ SF_serverVars(Goroutine(StatusReturn(r)))

ServerSpec == ServerInit /\ [][ServerNext]_serverVars /\ ServerFairness

-----------------------------------------------------------------------------
(* Properties.                                                             *)

ServerTypeOK ==
    /\ TypeOK
    /\ main \in {"boot", "serving", "http", "pool", "queue", "closing",
                 "exited"}
    /\ late \subseteq {"http", "pool"}

\* The browser and the database are closed under running handlers only if a
\* timeout of the pool's shutdown passed: otherwise every worker has left.
GracefulMeansDrained ==
    shutdown = "returned" /\ "pool" \notin late
        => \A w \in Workers : run[w] = "exited"

\* Stop, which may hang with the pool's mutex held, begins when no request
\* for the status is left that would have to wait for it, unless the HTTP
\* server had waited for one in vain.
RequestsMeetNoStop ==
    stop # "off" /\ "http" \notin late
        => \A r \in Readers : reader[r] = "idle"

\* The process ends after a signal, although Stop may be deadlocked and a
\* handler may never return.
ProcessExits == main = "http" ~> main = "exited"

\* A request for the pool's status is answered, even one that comes while
\* the process shuts down and Stop hangs with the pool's mutex held, unless
\* the HTTP server had waited for it in vain.
RequestsAnswered ==
    \A r \in Readers :
        reader[r] = "rlock" ~> reader[r] = "idle" \/ "http" \in late

=============================================================================
