---------------------------- MODULE JobPipeline ----------------------------
(***************************************************************************)
(* The job pipeline of the scraper service: the scraping_jobs table, the   *)
(* RabbitMQ main queue and its dead letter queue, the HTTP operations that *)
(* create, cancel and retry jobs, the hourly clean-up, the stand-alone     *)
(* bridge program, and the pool of queue workers.                          *)
(*                                                                         *)
(* Every call to the database and every call to the broker is one step;    *)
(* whatever a goroutine does between two such calls touches only its own   *)
(* variables and belongs to the step of the call before it.                *)
(*                                                                         *)
(* Env names the parts of the environment that an instance lets happen, so *)
(* that a run or a theorem can say which of them a property survives.      *)
(***************************************************************************)
EXTENDS Naturals, FiniteSets

CONSTANTS
    Jobs,           \* job ids: one uuid per creation request
    SeededJobs,     \* pending rows the migration inserts, unparsable options
    Workers,        \* RabbitMQWorker goroutines, one consumer each
    Msgs,           \* identities of the messages the broker can hold at once
    Retriers,       \* callers of RetryJob
    BridgeBatch,    \* LIMIT of the bridge's query
    MaxJobRetries,  \* config.MaxJobRetries
    Env,            \* the part of Features this instance enables
    NoJob, NoMsg

Features ==
    {"cancel",      \* clients cancel jobs
     "cleanup",     \* the retention task deletes old finished rows
     "retry",       \* callers use RetryJob
     "bridge",      \* the bridge program runs beside the server
     "ttl",         \* a message waits in the main queue for 5 minutes
     "dberr",       \* a database call fails and changes nothing
     "dblost",      \* a database call commits and its reply is lost
     "encerr",      \* the results of a scrape cannot be encoded
     "puberr",      \* a publish returns an error
     "publost",     \* a publish without confirm returns nil, message lost
     "connloss",    \* the server's AMQP connection is lost
     "stop",        \* the worker pool is stopped (process shutdown)
     "crash",       \* the server process dies and is started again
     "midcopy"}     \* these two also while a copy is unsettled

ASSUME EnvAssumption == Env \subseteq Features
ASSUME JobAssumption == /\ SeededJobs \subseteq Jobs
                        /\ NoJob \notin Jobs
                        /\ NoMsg \notin Msgs
ASSUME BoundAssumption == /\ MaxJobRetries \in Nat
                          /\ BridgeBatch \in Nat \ {0}

VARIABLES
    rows,       \* the scraping_jobs table
    msgs,       \* broker: where each message is, and its body
    dlq,        \* broker: jobs with a message in the dead letter queue
    channel,    \* the server's one AMQP channel
    stopping,   \* the worker pool's context is cancelled
    creator,    \* the request that creates each job
    retrier,    \* each RetryJob call
    bridge,     \* jobs the bridge has read and not yet published
    pc,         \* where each worker is
    held,       \* the delivery each worker's consumer has not settled
    job         \* the job id of the message each worker is handling

broker == <<msgs, dlq, channel>>
server == <<creator, retrier>>
worker == <<pc, held, job>>
vars == <<rows, broker, stopping, server, bridge, worker>>

-----------------------------------------------------------------------------
(* The table.  A job without a row has status "absent".                    *)

Terminal == {"completed", "failed", "canceled"}
Status == {"absent", "pending", "processing"} \cup Terminal

Row == [status : Status, progress : {0, 10, 90, 100}, retry_count : Nat,
        results : BOOLEAN, error : BOOLEAN]

AbsentRow == [status |-> "absent", progress |-> 0, retry_count |-> 0,
              results |-> FALSE, error |-> FALSE]
NewRow == [AbsentRow EXCEPT !.status = "pending"]

Exists(j) == rows[j].status # "absent"
IsPending(j) == rows[j].status = "pending"

\* The UPDATE statements of db/query/scraping_jobs.sql.
Started(r) == [r EXCEPT !.status = "processing"]
Progressed(r, p) == [r EXCEPT !.progress = p]
\* Mutant of Completed: the statement forgets progress = 100.
CompletedKeepsProgress(r) == [r EXCEPT !.status = "completed",
                                       !.results = TRUE]
Completed(r) == [r EXCEPT !.status = "completed", !.progress = 100,
                          !.results = TRUE]
Failed(r) == [r EXCEPT !.status = "failed", !.error = TRUE,
                       !.retry_count = @ + 1]
\* Mutant of Canceled: the other spelling of the status.
CanceledMisspelt(r) == [r EXCEPT !.status = "cancelled"]
Canceled(r) == [r EXCEPT !.status = "canceled"]
Retried(r) == [r EXCEPT !.status = "pending", !.error = FALSE,
                        !.progress = 0, !.retry_count = @ + 1]

Store(j, r) == rows' = [rows EXCEPT ![j] = r]

\* An UPDATE ... WHERE id = j RETURNING that finds the row and commits.
UpdateOk(j, r) == Exists(j) /\ Store(j, r)

\* The same call returning an error: no such row (ErrNoRows), or the
\* database failed before or after it committed.
UpdateError(j, r) ==
    \/ (~Exists(j) \/ "dberr" \in Env) /\ UNCHANGED rows
    \/ "dblost" \in Env /\ UpdateOk(j, r)

ReadFails == "dberr" \in Env \/ "dblost" \in Env

\* A worker's calls carry the pool's context: once it is cancelled they
\* return context.Canceled without reaching the database.
WorkerUpdateOk(j, r) == ~stopping /\ UpdateOk(j, r)
WorkerUpdateError(j, r) == IF stopping THEN UNCHANGED rows
                                       ELSE UpdateError(j, r)

-----------------------------------------------------------------------------
(* The broker.                                                             *)

RetryLimit == 3

Message == [loc : {"none", "queue", "unacked"}, job : Jobs \cup {NoJob},
            retry : Nat]
NoMessage == [loc |-> "none", job |-> NoJob, retry |-> 0]
Queued(j, n) == [loc |-> "queue", job |-> j, retry |-> n]

Free == {m \in Msgs : msgs[m].loc = "none"}

\* A publish that returns nil: without publisher confirms the message may
\* still be lost with the connection.
PublishOk(j, n) ==
    \/ \E m \in Free : msgs' = [msgs EXCEPT ![m] = Queued(j, n)]
    \/ "publost" \in Env /\ UNCHANGED msgs

PublishFails == "puberr" \in Env \/ channel = "closed"

Requeued(M) == [m \in Msgs |-> IF M[m].loc = "unacked"
                               THEN [M[m] EXCEPT !.loc = "queue"] ELSE M[m]]

-----------------------------------------------------------------------------
(* CreateScrapingJob: insert, publish, and failJob when the publish fails. *)

InsertJob(j) ==
    /\ ~stopping
    /\ creator[j] = "none"
    /\ \/ Store(j, NewRow) /\ creator' = [creator EXCEPT ![j] = "publish"]
       \/ /\ \/ "dberr" \in Env /\ UNCHANGED rows
             \/ "dblost" \in Env /\ Store(j, NewRow)
          /\ creator' = [creator EXCEPT ![j] = "done"]
    /\ UNCHANGED <<broker, stopping, retrier, bridge, worker>>

\* Mutant of PublishCreated: a failed publish is only reported.
PublishCreatedOrForget(j) ==
    /\ creator[j] = "publish"
    /\ creator' = [creator EXCEPT ![j] = "done"]
    /\ \/ channel = "open" /\ PublishOk(j, 0)
       \/ PublishFails /\ UNCHANGED msgs
    /\ UNCHANGED <<rows, dlq, channel, stopping, retrier, bridge, worker>>

PublishCreated(j) ==
    /\ creator[j] = "publish"
    /\ \/ /\ channel = "open"
          /\ PublishOk(j, 0)
          /\ creator' = [creator EXCEPT ![j] = "done"]
       \/ /\ PublishFails
          /\ creator' = [creator EXCEPT ![j] = "fail"]
          /\ UNCHANGED msgs
    /\ UNCHANGED <<rows, dlq, channel, stopping, retrier, bridge, worker>>

FailUnpublished(j) ==
    /\ creator[j] = "fail"
    /\ UpdateOk(j, Failed(rows[j])) \/ UpdateError(j, Failed(rows[j]))
    /\ creator' = [creator EXCEPT ![j] = "done"]
    /\ UNCHANGED <<broker, stopping, retrier, bridge, worker>>

\* CancelJob: one UPDATE, whatever the status of the row.
CancelJob(j) ==
    /\ "cancel" \in Env
    /\ ~stopping
    /\ UpdateOk(j, Canceled(rows[j]))
    /\ UNCHANGED <<broker, stopping, server, bridge, worker>>

-----------------------------------------------------------------------------
(* RetryJob: read retry_count, guarded UPDATE, publish with Retry =        *)
(* count + 1.  Between the calls other callers and workers may step.       *)

IdleRetrier == [at |-> "idle", job |-> NoJob, count |-> 0]

MayRetry(count) == count < MaxJobRetries

\* Bound on publishes that are not tied to a message or to a creation: they
\* leave an identity for each job that is still to be published and one for
\* the copies of failed messages.  A worker may so have to wait for another
\* to reject the original of its copy.
Unpublished == {j \in Jobs : creator[j] \in {"none", "publish"}}
Room == Cardinality(Free) > Cardinality(Unpublished) + 1

ReadRetryCount(c, j) ==
    /\ "retry" \in Env
    /\ ~stopping
    /\ retrier[c].at = "idle"
    /\ Exists(j)
    /\ MayRetry(rows[j].retry_count)
    /\ retrier' = [retrier EXCEPT ![c] = [at |-> "update", job |-> j,
                                          count |-> rows[j].retry_count]]
    /\ UNCHANGED <<rows, broker, stopping, creator, bridge, worker>>

ResetRow(c) ==
    LET j == retrier[c].job
    IN  /\ retrier[c].at = "update"
        /\ \/ /\ MayRetry(rows[j].retry_count)
              /\ UpdateOk(j, Retried(rows[j]))
              /\ retrier' = [retrier EXCEPT ![c].at = "publish"]
           \/ /\ \/ ~MayRetry(rows[j].retry_count) /\ UNCHANGED rows
                 \/ UpdateError(j, Retried(rows[j]))
              /\ retrier' = [retrier EXCEPT ![c] = IdleRetrier]
        /\ UNCHANGED <<broker, stopping, creator, bridge, worker>>

PublishRetry(c) ==
    /\ retrier[c].at = "publish"
    /\ \/ /\ channel = "open"
          /\ Room
          /\ PublishOk(retrier[c].job, retrier[c].count + 1)
       \/ PublishFails /\ UNCHANGED msgs
    /\ retrier' = [retrier EXCEPT ![c] = IdleRetrier]
    /\ UNCHANGED <<rows, dlq, channel, stopping, creator, bridge, worker>>

-----------------------------------------------------------------------------
(* CleanupOldJobs: one DELETE of finished rows older than the retention    *)
(* period; ages are abstracted, so any of them may be old enough.          *)

Cleanup ==
    /\ "cleanup" \in Env
    /\ \E S \in SUBSET {j \in Jobs : rows[j].status \in Terminal} :
          /\ S # {}
          /\ rows' = [j \in Jobs |-> IF j \in S THEN AbsentRow ELSE rows[j]]
    /\ UNCHANGED <<broker, stopping, server, bridge, worker>>

-----------------------------------------------------------------------------
(* The bridge: read up to BridgeBatch pending rows, publish each with      *)
(* Retry 0, sleep, start again.  It has a connection of its own.           *)

Pending == {j \in Jobs : IsPending(j)}

BridgePoll ==
    /\ "bridge" \in Env
    /\ bridge = {}
    /\ \E S \in SUBSET Pending :
          /\ S # {}
          /\ \/ Cardinality(S) = BridgeBatch
             \/ Cardinality(S) < BridgeBatch /\ S = Pending
          /\ bridge' = S
    /\ UNCHANGED <<rows, broker, stopping, server, worker>>

BridgePublish(j) ==
    /\ j \in bridge
    /\ \/ Room /\ PublishOk(j, 0)
       \/ "puberr" \in Env /\ UNCHANGED msgs
    /\ bridge' = bridge \ {j}
    /\ UNCHANGED <<rows, dlq, channel, stopping, server, worker>>

-----------------------------------------------------------------------------
(* The consumer loop of a worker (ConsumeJobs) and the handler it calls    *)
(* (ProcessJobFromQueue, executeJob).                                      *)

Goto(w, l) == pc' = [pc EXCEPT ![w] = l]

\* The broker pushes a message to a consumer that has none unsettled
\* (prefetch 1), whether or not a goroutine still reads from it.
Deliver(w, m) ==
    /\ channel = "open"
    /\ held[w] = NoMsg
    /\ msgs[m].loc = "queue"
    /\ msgs' = [msgs EXCEPT ![m].loc = "unacked"]
    /\ held' = [held EXCEPT ![w] = m]
    /\ UNCHANGED <<rows, dlq, channel, stopping, server, bridge, pc, job>>

\* Mutant of GetJob: no look at the status.
GetJobUnchecked(w) ==
    LET j == msgs[held[w]].job
    IN  /\ pc[w] = "idle"
        /\ held[w] # NoMsg
        /\ job' = [job EXCEPT ![w] = j]
        /\ Goto(w, IF Exists(j) THEN "start" ELSE "error")
        /\ UNCHANGED <<rows, broker, stopping, server, bridge, held>>

\* Receive the delivery, read the row and look at its status.
GetJob(w) ==
    LET j == msgs[held[w]].job
    IN  /\ pc[w] = "idle"
        /\ held[w] # NoMsg
        /\ job' = [job EXCEPT ![w] = j]
        /\ \/ ~stopping /\ IsPending(j) /\ Goto(w, "start")
           \/ /\ stopping \/ ReadFails \/ ~IsPending(j)
              /\ Goto(w, "error")
        /\ UNCHANGED <<rows, broker, stopping, server, bridge, held>>

StartJob(w) ==
    LET j == job[w]
    IN  /\ pc[w] = "start"
        /\ \/ WorkerUpdateOk(j, Started(rows[j])) /\ Goto(w, "options")
           \/ WorkerUpdateError(j, Started(rows[j])) /\ Goto(w, "error")
        /\ UNCHANGED <<broker, stopping, server, bridge, held, job>>

\* Mutant of ReportStarted: unparsable options are not recorded.
ReportStartedOrDrop(w) ==
    LET j == job[w]
    IN  /\ pc[w] = "options"
        /\ IF j \in SeededJobs
           THEN Goto(w, "ack") /\ UNCHANGED rows
           ELSE Goto(w, "scrape") /\ Store(j, Progressed(rows[j], 10))
        /\ UNCHANGED <<broker, stopping, server, bridge, held, job>>

\* Parse the options, then write progress 10, ignoring the write's error.
ReportStarted(w) ==
    LET j == job[w]
    IN  /\ pc[w] = "options"
        /\ IF j \in SeededJobs
           THEN Goto(w, "fail") /\ UNCHANGED rows
           ELSE /\ \/ WorkerUpdateOk(j, Progressed(rows[j], 10))
                   \/ WorkerUpdateError(j, Progressed(rows[j], 10))
                /\ Goto(w, "scrape")
        /\ UNCHANGED <<broker, stopping, server, bridge, held, job>>

ScrapePage(w) ==
    /\ pc[w] = "scrape"
    /\ Goto(w, "scraped") \/ Goto(w, "fail")
    /\ UNCHANGED <<rows, broker, stopping, server, bridge, held, job>>

\* Write progress 90, ignoring the write's error, then encode the results.
ReportScraped(w) ==
    LET j == job[w]
    IN  /\ pc[w] = "scraped"
        /\ \/ WorkerUpdateOk(j, Progressed(rows[j], 90))
           \/ WorkerUpdateError(j, Progressed(rows[j], 90))
        /\ \/ Goto(w, "complete")
           \/ "encerr" \in Env /\ Goto(w, "fail")
        /\ UNCHANGED <<broker, stopping, server, bridge, held, job>>

CompleteJob(w) ==
    LET j == job[w]
    IN  /\ pc[w] = "complete"
        /\ \/ WorkerUpdateOk(j, Completed(rows[j])) /\ Goto(w, "ack")
           \/ WorkerUpdateError(j, Completed(rows[j])) /\ Goto(w, "error")
        /\ UNCHANGED <<broker, stopping, server, bridge, held, job>>

\* Mutant of FailJob: the failure is not written to the row.
FailJobUnrecorded(w) ==
    /\ pc[w] = "fail"
    /\ Goto(w, "ack")
    /\ UNCHANGED <<rows, broker, stopping, server, bridge, held, job>>

\* executeJob returns failJob's error: a scrape that failed and was recorded
\* is a success for the consumer.
FailJob(w) ==
    LET j == job[w]
    IN  /\ pc[w] = "fail"
        /\ \/ WorkerUpdateOk(j, Failed(rows[j])) /\ Goto(w, "ack")
           \/ WorkerUpdateError(j, Failed(rows[j])) /\ Goto(w, "error")
        /\ UNCHANGED <<broker, stopping, server, bridge, held, job>>

\* Mutant of Incremented, which is job.Retry++.
NotIncremented(n) == n
Incremented(n) == n + 1

\* The handler returned an error: publish a copy with Retry + 1 below the
\* limit; an error of the publish is only logged.
Republish(w) ==
    LET m == held[w]
    IN  /\ pc[w] = "error"
        /\ \/ /\ channel = "open"
              /\ msgs[m].retry < RetryLimit
              /\ PublishOk(job[w], Incremented(msgs[m].retry))
           \/ /\ channel = "open"
              /\ msgs[m].retry >= RetryLimit
              /\ UNCHANGED msgs
           \/ PublishFails /\ UNCHANGED msgs
        /\ Goto(w, "nack")
        /\ UNCHANGED <<rows, dlq, channel, stopping, server, bridge,
                       held, job>>

\* Ack and Nack(requeue = false): on a closed channel they do nothing.
Settle(w, deadLetter) ==
    /\ msgs' = IF held[w] = NoMsg THEN msgs
               ELSE [msgs EXCEPT ![held[w]] = NoMessage]
    /\ dlq' = IF deadLetter /\ held[w] # NoMsg THEN dlq \cup {job[w]}
                                               ELSE dlq
    /\ held' = [held EXCEPT ![w] = NoMsg]
    /\ job' = [job EXCEPT ![w] = NoJob]
    /\ Goto(w, "idle")
    /\ UNCHANGED <<rows, channel, stopping, server, bridge>>

Ack(w) == pc[w] = "ack" /\ Settle(w, FALSE)
\* Mutants of Nack: with requeue = true, and acknowledging instead.
NackRequeue(w) ==
    /\ pc[w] = "nack"
    /\ held[w] # NoMsg
    /\ msgs' = [msgs EXCEPT ![held[w]].loc = "queue"]
    /\ held' = [held EXCEPT ![w] = NoMsg]
    /\ job' = [job EXCEPT ![w] = NoJob]
    /\ Goto(w, "idle")
    /\ UNCHANGED <<rows, dlq, channel, stopping, server, bridge>>
NackAsAck(w) == pc[w] = "nack" /\ Settle(w, FALSE)
Nack(w) == pc[w] = "nack" /\ Settle(w, TRUE)

\* ctx.Done() was chosen, or the delivery channel was closed.
StopConsuming(w) ==
    /\ pc[w] = "idle"
    /\ stopping \/ channel = "closed"
    /\ Goto(w, "stopped")
    /\ UNCHANGED <<rows, broker, stopping, server, bridge, held, job>>

-----------------------------------------------------------------------------
(* The environment.                                                        *)

\* The main queue's x-message-ttl: expired messages are dead-lettered.
Expire(m) ==
    /\ "ttl" \in Env
    /\ msgs[m].loc = "queue"
    /\ msgs' = [msgs EXCEPT ![m] = NoMessage]
    /\ dlq' = dlq \cup {msgs[m].job}
    /\ UNCHANGED <<rows, channel, stopping, server, bridge, worker>>

(***************************************************************************)
(* The one window in which a failure of the server can double a job: a     *)
(* worker whose database calls failed, so that the row is still pending,   *)
(* has published the copy and has not rejected the original.               *)
(***************************************************************************)
CopyUnsettled ==
    \E w \in Workers, m \in Msgs :
        /\ pc[w] = "nack"
        /\ held[w] \notin {NoMsg, m}
        /\ msgs[m].loc # "none"
        /\ msgs[m].job = job[w]
        /\ IsPending(job[w])

MayFail == CopyUnsettled => "midcopy" \in Env

\* The AMQP connection is lost: the broker requeues what was unacked, the
\* handlers run on.  The server never reconnects.
LoseConnection ==
    /\ "connloss" \in Env
    /\ MayFail
    /\ channel = "open"
    /\ channel' = "closed"
    /\ msgs' = Requeued(msgs)
    /\ held' = [w \in Workers |-> NoMsg]
    /\ UNCHANGED <<rows, dlq, stopping, server, bridge, pc, job>>

\* Stop cancels the pool's context.
StopPool ==
    /\ "stop" \in Env
    /\ ~stopping
    /\ stopping' = TRUE
    /\ UNCHANGED <<rows, broker, server, bridge, worker>>

\* The process dies with its requests and handlers and is started again.
Crash ==
    /\ "crash" \in Env
    /\ MayFail
    /\ channel' = "open"
    /\ msgs' = Requeued(msgs)
    /\ stopping' = FALSE
    /\ creator' = [j \in Jobs |-> IF creator[j] = "none" THEN "none"
                                                         ELSE "done"]
    /\ retrier' = [c \in Retriers |-> IdleRetrier]
    /\ pc' = [w \in Workers |-> "idle"]
    /\ held' = [w \in Workers |-> NoMsg]
    /\ job' = [w \in Workers |-> NoJob]
    /\ UNCHANGED <<rows, dlq, bridge>>

-----------------------------------------------------------------------------

Init ==
    /\ rows = [j \in Jobs |-> IF j \in SeededJobs THEN NewRow ELSE AbsentRow]
    /\ msgs = [m \in Msgs |-> NoMessage]
    /\ dlq = {}
    /\ channel = "open"
    /\ stopping = FALSE
    /\ creator = [j \in Jobs |-> IF j \in SeededJobs THEN "done" ELSE "none"]
    /\ retrier = [c \in Retriers |-> IdleRetrier]
    /\ bridge = {}
    /\ pc = [w \in Workers |-> "idle"]
    /\ held = [w \in Workers |-> NoMsg]
    /\ job = [w \in Workers |-> NoJob]

Creation(j) == InsertJob(j) \/ PublishCreated(j) \/ FailUnpublished(j)

RetryCall(c) == \/ \E j \in Jobs : ReadRetryCount(c, j)
                \/ ResetRow(c)
                \/ PublishRetry(c)

Handler(w) ==
    \/ GetJob(w)        \/ StartJob(w)      \/ ReportStarted(w)
    \/ ScrapePage(w)    \/ ReportScraped(w) \/ CompleteJob(w)
    \/ FailJob(w)       \/ Republish(w)     \/ Ack(w)
    \/ Nack(w)          \/ StopConsuming(w)

Step ==
    \/ \E j \in Jobs : Creation(j) \/ CancelJob(j) \/ BridgePublish(j)
    \/ \E c \in Retriers : RetryCall(c)
    \/ \E w \in Workers : Handler(w)
    \/ \E w \in Workers, m \in Msgs : Deliver(w, m)
    \/ \E m \in Msgs : Expire(m)
    \/ Cleanup \/ BridgePoll \/ StopPool

Next == Step \/ LoseConnection \/ Crash

Spec == Init /\ [][Next]_vars

(***************************************************************************)
(* Goroutines and requests that can step do so, the bridge loops, and the  *)
(* scraper is assumed to return.  Strong fairness of delivery stands for   *)
(* the queue's order: the broker offers the oldest message first, so no    *)
(* message is passed over for ever.                                        *)
(***************************************************************************)
Fairness ==
    /\ \A j \in Jobs : /\ WF_vars(PublishCreated(j))
                       /\ WF_vars(FailUnpublished(j))
                       /\ WF_vars(BridgePublish(j))
    /\ WF_vars(BridgePoll)
    /\ \A c \in Retriers : WF_vars(ResetRow(c)) /\ WF_vars(PublishRetry(c))
    /\ \A w \in Workers : WF_vars(Handler(w))
    /\ \A m \in Msgs : SF_vars(\E w \in Workers : Deliver(w, m))

FairSpec == Spec /\ Fairness

-----------------------------------------------------------------------------
(* Properties.                                                             *)

Labels == {"idle", "start", "options", "scrape", "scraped", "complete",
           "fail", "error", "ack", "nack", "stopped"}

TypeOK ==
    /\ rows \in [Jobs -> Row]
    /\ msgs \in [Msgs -> Message]
    /\ dlq \subseteq Jobs
    /\ channel \in {"open", "closed"}
    /\ stopping \in BOOLEAN
    /\ creator \in [Jobs -> {"none", "publish", "fail", "done"}]
    /\ retrier \in [Retriers -> [at : {"idle", "update", "publish"},
                                job : Jobs \cup {NoJob}, count : Nat]]
    /\ bridge \subseteq Jobs
    /\ pc \in [Workers -> Labels]
    /\ held \in [Workers -> Msgs \cup {NoMsg}]
    /\ job \in [Workers -> Jobs \cup {NoJob}]

\* What the deliveries rely on: a message that exists names a job, a consumer
\* holds an unacked message that no other consumer holds, and a worker or a
\* caller of RetryJob that is between two calls knows its job; the worker
\* holds its delivery exactly as long as the channel is open.
DeliveryInv ==
    /\ \A m \in Msgs : msgs[m].loc # "none" => msgs[m].job \in Jobs
    /\ \A w \in Workers : held[w] # NoMsg => msgs[held[w]].loc = "unacked"
    /\ \A w1, w2 \in Workers :
          held[w1] = held[w2] /\ held[w1] # NoMsg => w1 = w2
    /\ \A m \in Msgs : msgs[m].loc = "unacked" =>
          \E w \in Workers : held[w] = m
    /\ channel = "closed" => \A w \in Workers : held[w] = NoMsg
    /\ \A w \in Workers : pc[w] \notin {"idle", "stopped"} =>
          /\ job[w] \in Jobs
          /\ channel = "open" => held[w] # NoMsg
          /\ held[w] # NoMsg => msgs[held[w]].job = job[w]
    /\ \A c \in Retriers : retrier[c].at # "idle" => retrier[c].job \in Jobs

TypeInv == TypeOK /\ DeliveryInv

Executing(w, j) ==
    /\ job[w] = j
    /\ pc[w] \in {"options", "scrape", "scraped", "complete", "fail"}

\* A message that may still make a worker look at job j.
Carries(m, j) ==
    /\ msgs[m].job = j
    /\ \/ msgs[m].loc = "queue"
       \/ /\ msgs[m].loc = "unacked"
          /\ \E w \in Workers : held[w] = m /\ pc[w] # "nack"

\* One page is never scraped by two workers on behalf of one job: the
\* pending check and StartJob are two calls, so this rests on there being
\* one message per job.
AtMostOneExecutor ==
    \A w1, w2 \in Workers, j \in Jobs :
        Executing(w1, j) /\ Executing(w2, j) => w1 = w2

\* Nothing that doubles the message of a job is enabled: no bridge, no
\* RetryJob, no failure while a copy is unsettled.
NoDuplicates == Env \cap {"bridge", "retry", "midcopy"} = {}

\* Worker w has found job j pending and has not reported how it ended.
Claims(w, j) ==
    \/ Executing(w, j)
    \/ job[w] = j /\ pc[w] = "start"

\* A worker may still begin job j, or has just decided to.
Open(j) ==
    \/ IsPending(j)
    \/ /\ channel = "open"
       /\ \E w \in Workers : job[w] = j /\ pc[w] = "start"

\* Why AtMostOneExecutor holds then: a job that is not yet published has no
\* message and no worker, and one that can still be started has at most one
\* message that makes a worker look at it.  Between the publish of the copy
\* and the Nack there are two, of which the old one no longer counts; after
\* the job was started there may be several, which find it not pending.
SingleInv ==
    /\ bridge = {}
    /\ \A c \in Retriers : retrier[c].at = "idle"
    /\ \A j \in Jobs : creator[j] \in {"none", "publish", "fail"} =>
          /\ \A m \in Msgs : msgs[m].loc # "none" => msgs[m].job # j
          /\ \A w \in Workers : job[w] # j
    /\ \A j \in Jobs, m1, m2 \in Msgs :
          Open(j) /\ Carries(m1, j) /\ Carries(m2, j) => m1 = m2
    /\ \A w \in Workers, j \in Jobs : Executing(w, j) => ~IsPending(j)
    /\ \A w1, w2 \in Workers, j \in Jobs :
          Claims(w1, j) /\ Claims(w2, j) => w1 = w2

\* What the API shows of a row fits together, although progress, status,
\* error and results are written by different statements.
RowConsistent ==
    \A j \in Jobs :
        /\ rows[j].status = "completed" =>
             rows[j].progress = 100 /\ rows[j].results /\ ~rows[j].error
        /\ rows[j].status = "failed" => rows[j].error /\ ~rows[j].results
        /\ rows[j].status = "pending" =>
             rows[j].progress = 0 /\ ~rows[j].error

\* A row is marked processing only while some worker executes the job.
ProcessingIsExecuted ==
    \A j \in Jobs : rows[j].status = "processing" =>
                       \E w \in Workers : Executing(w, j)

\* A pending job is about to be published, or a message will bring a
\* worker to it: no created job waits for ever unseen.
PendingIsTracked ==
    \A j \in Jobs : IsPending(j) =>
        \/ j \in SeededJobs
        \/ creator[j] \in {"publish", "fail"}
        \/ \E c \in Retriers : retrier[c].at = "publish" /\ retrier[c].job = j
        \/ \E m \in Msgs : Carries(m, j)

\* Whatever database errors, expiry and shutdown do to its messages, a
\* pending job has one left, or the dead letter queue shows the job.
PendingNotForgotten ==
    \A j \in Jobs : IsPending(j) =>
        \/ j \in SeededJobs
        \/ creator[j] = "publish"
        \/ \E c \in Retriers : retrier[c].at = "publish" /\ retrier[c].job = j
        \/ j \in dlq
        \/ \E m \in Msgs : msgs[m].job = j /\ msgs[m].loc # "none"

\* Seen through the rows and the workers' program counters, the pipeline is
\* a JobBoard: redelivery after a crash, retries after database errors and
\* copies in the queue never run a job twice, nor change how it ended.
PhaseBar ==
    [j \in Jobs |-> IF Exists(j) THEN rows[j].status
                    ELSE IF creator[j] = "none" THEN "new" ELSE "gone"]
RunnerBar ==
    [w \in Workers |-> IF Executing(w, job[w]) THEN job[w] ELSE NoJob]

Board == INSTANCE JobBoard WITH phase <- PhaseBar, runner <- RunnerBar

ImplementsBoard == Board!Spec

\* No worker has job j, it is not pending, and no request is about to write
\* its row.
Unattended(j) ==
    /\ creator[j] = "done"
    /\ ~IsPending(j)
    /\ \A c \in Retriers : ~(retrier[c].at = "update" /\ retrier[c].job = j)
    /\ \A w \in Workers : ~Claims(w, j)

\* The row of such a job changes only when a client cancels it or the
\* clean-up deletes it, and no worker takes it up, whatever messages of it
\* are delivered again: so a cancellation that met no worker holds, a job
\* that is over stays as it ended, and one whose worker died in the middle
\* stays in processing.
UnattendedStands ==
    [][\A j \in Jobs : Unattended(j) =>
          /\ rows'[j] \in {rows[j], Canceled(rows[j]), AbsentRow}
          /\ \A w \in Workers : ~Claims(w, j)']_vars

\* Every pending job reaches a final status.
JobSettles ==
    \A j \in Jobs : IsPending(j) ~> rows[j].status \in Terminal

\* Retries end: once all jobs are created, every message eventually leaves
\* the main queue for good.
QueueDrains == <>[](\A m \in Msgs : msgs[m].loc = "none")

\* A job that was canceled is not reported as completed when the worker that
\* executes it is through.
CanceledIsNotCompleted ==
    [][\A j \in Jobs : rows[j].status = "canceled" =>
                          rows'[j].status # "completed"]_vars

\* A pool whose workers have all stopped leaves no job half done.
StoppedLeavesNoneProcessing ==
    (\A w \in Workers : pc[w] = "stopped") =>
        \A j \in Jobs : rows[j].status # "processing"

=============================================================================
