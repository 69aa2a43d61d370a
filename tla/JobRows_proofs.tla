--------------------------- MODULE JobRows_proofs ---------------------------
(***************************************************************************)
(* Theorems about what the rows of the table say, and whether something    *)
(* still works for them.                                                   *)
(***************************************************************************)
EXTENDS JobPipeline_proofs

-----------------------------------------------------------------------------
(* A row in processing has its worker, as long as no call of a worker is   *)
(* lost on the way to the table: the database answers, the pool is not     *)
(* stopped and the process does not die.  Everything else may happen,      *)
(* duplicates of messages and lost connections too.                        *)

Reliable == Env \cap {"dberr", "dblost", "stop", "crash"} = {}

ExecutedInv == stopping = FALSE /\ ProcessingIsExecuted

\* A step that neither puts a row into processing nor takes a worker from
\* its job.
LEMMA ExecutedFrame ==
    ASSUME ExecutedInv, stopping' = FALSE,
           \A j \in Jobs : rows'[j].status = "processing" =>
                              rows[j].status = "processing",
           \A w \in Workers, j \in Jobs : Executing(w, j) => Executing(w, j)'
    PROVE  ExecutedInv'
  BY DEF ExecutedInv, ProcessingIsExecuted

\* A worker that stands still, or that was not executing a job, or that goes
\* on with it.
LEMMA ExecutingFrame ==
    ASSUME TypeOK,
           \/ UNCHANGED <<pc, job>>
           \/ \E w \in Workers, l \in Labels :
                 /\ Goto(w, l)
                 /\ \A v \in Workers : v # w => job'[v] = job[v]
                 /\ \/ pc[w] \notin {"options", "scrape", "scraped",
                                     "complete", "fail"}
                    \/ /\ l \in {"options", "scrape", "scraped", "complete",
                                 "fail"}
                       /\ job'[w] = job[w]
    PROVE  \A w \in Workers, j \in Jobs : Executing(w, j) => Executing(w, j)'
  BY DEF Executing, Goto, TypeOK

\* The outcomes of an UPDATE when the database answers: the statement was
\* executed, or there is no such row.
LEMMA ReliableUpdate ==
    ASSUME Reliable, TypeOK, stopping = FALSE, NEW j \in Jobs, NEW r,
           \/ UpdateOk(j, r) \/ UpdateError(j, r)
           \/ WorkerUpdateOk(j, r) \/ WorkerUpdateError(j, r)
    PROVE  \/ rows[j].status = "absent" /\ rows' = rows
           \/ rows' = [rows EXCEPT ![j] = r]
  BY DEF Reliable, UpdateOk, UpdateError, WorkerUpdateOk, WorkerUpdateError,
         Store, Exists

LEMMA ExecutedNext ==
    ASSUME Reliable, TypeInv, ExecutedInv, [Next]_vars
    PROVE  ExecutedInv'
<1> USE DEF TypeInv
<1>0. stopping = FALSE
  BY DEF ExecutedInv
<1>1. ASSUME NEW j \in Jobs, Creation(j) \/ CancelJob(j) \/ BridgePublish(j)
      PROVE  ExecutedInv'
  <2>1. UNCHANGED <<stopping, pc, job>>
    BY <1>1 DEF Creation, InsertJob, PublishCreated, FailUnpublished,
                CancelJob, BridgePublish, worker
  <2>2. \A k \in Jobs : rows'[k].status = "processing" =>
                           rows[k].status = "processing"
    <3>1. \/ rows' = rows
          \/ \E r \in {NewRow, Failed(rows[j]), Canceled(rows[j])} :
                rows' = [rows EXCEPT ![j] = r]
      BY <1>1, <1>0, ReliableUpdate
         DEF Creation, InsertJob, PublishCreated, FailUnpublished, CancelJob,
             BridgePublish, Store
    <3>2. /\ NewRow.status = "pending"
          /\ Failed(rows[j]).status = "failed"
          /\ Canceled(rows[j]).status = "canceled"
      BY DEF NewRow, AbsentRow, Failed, Canceled, TypeOK, Row
    <3> QED
      BY <3>1, <3>2 DEF TypeOK
  <2> QED
    BY <1>0, <2>1, <2>2, ExecutingFrame, ExecutedFrame
<1>2. ASSUME NEW c \in Retriers, RetryCall(c) PROVE ExecutedInv'
  <2>1. UNCHANGED <<stopping, pc, job>>
    BY <1>2 DEF RetryCall, ReadRetryCount, ResetRow, PublishRetry, worker
  <2>2. \A k \in Jobs : rows'[k].status = "processing" =>
                           rows[k].status = "processing"
    <3>1. CASE ResetRow(c)
      <4> DEFINE j == retrier[c].job
      <4>1. j \in Jobs
        BY <3>1 DEF ResetRow, DeliveryInv
      <4>2. rows' = rows \/ rows' = [rows EXCEPT ![j] = Retried(rows[j])]
        BY <3>1, <4>1, <1>0, ReliableUpdate DEF ResetRow
      <4>3. Retried(rows[j]).status = "pending"
        BY <4>1 DEF Retried, TypeOK, Row
      <4> QED
        BY <4>1, <4>2, <4>3 DEF TypeOK
    <3>2. CASE ~ResetRow(c)
      BY <1>2, <3>2 DEF RetryCall, ReadRetryCount, PublishRetry
    <3> QED
      BY <3>1, <3>2
  <2> QED
    BY <1>0, <2>1, <2>2, ExecutingFrame, ExecutedFrame
<1>3. ASSUME Cleanup \/ BridgePoll PROVE ExecutedInv'
  <2>1. UNCHANGED <<stopping, pc, job>>
    BY <1>3 DEF Cleanup, BridgePoll, worker
  <2>2. \A k \in Jobs : rows'[k].status = "processing" =>
                           rows[k].status = "processing"
    BY <1>3 DEF Cleanup, BridgePoll, AbsentRow
  <2> QED
    BY <1>0, <2>1, <2>2, ExecutingFrame, ExecutedFrame
<1>4. ASSUME LoseConnection \/ (\E m \in Msgs : Expire(m))
               \/ (\E w \in Workers, m \in Msgs : Deliver(w, m))
               \/ UNCHANGED vars
      PROVE  ExecutedInv'
  <2>1. UNCHANGED <<rows, stopping, pc, job>>
    BY <1>4 DEF LoseConnection, Expire, Deliver, vars, worker
  <2> QED
    BY <1>0, <2>1, ExecutingFrame, ExecutedFrame
<1>5. ~StopPool /\ ~Crash
  BY DEF Reliable, StopPool, Crash
<1>6. ASSUME NEW w \in Workers, Handler(w) PROVE ExecutedInv'
  <2>0. stopping' = FALSE
    BY <1>0, <1>6 DEF Handler, GetJob, StartJob, ReportStarted, ScrapePage,
       ReportScraped, CompleteJob, FailJob, Republish, Ack, Nack, Settle,
       StopConsuming
  <2>1. CASE \/ GetJob(w) \/ Republish(w) \/ Ack(w) \/ Nack(w)
             \/ StopConsuming(w)
    <3>1. /\ rows' = rows
          /\ \E l \in Labels : Goto(w, l)
          /\ \A v \in Workers : v # w => job'[v] = job[v]
          /\ pc[w] \in {"idle", "error", "ack", "nack"}
      BY <2>1 DEF GetJob, Republish, Ack, Nack, Settle, StopConsuming, Labels,
                  TypeOK
    <3> QED
      BY <2>0, <3>1, ExecutingFrame, ExecutedFrame
  <2>2. CASE StartJob(w)
    <3>1. PICK j \in Jobs : j = job[w]
      BY <2>2 DEF StartJob, DeliveryInv
    <3>2. \A v \in Workers, k \in Jobs : Executing(v, k) => Executing(v, k)'
      <4>1. \E l \in Labels : Goto(w, l)
        BY <2>2 DEF StartJob, Labels
      <4> QED
        BY <2>2, <4>1, ExecutingFrame DEF StartJob
    <3>3. CASE Goto(w, "options")
      <4>1. Executing(w, j)'
        BY <2>2, <3>1, <3>3 DEF StartJob, Goto, Executing, TypeOK
      <4>2. \A k \in Jobs : k # j => rows'[k] = rows[k]
        <5>1. \/ WorkerUpdateOk(j, Started(rows[j]))
              \/ WorkerUpdateError(j, Started(rows[j]))
          BY <2>2, <3>1 DEF StartJob
        <5> QED
          BY <5>1, <1>0, ReliableUpdate DEF TypeOK
      <4> QED
        BY <2>0, <3>1, <3>2, <4>1, <4>2 DEF ExecutedInv, ProcessingIsExecuted
    <3>4. CASE WorkerUpdateError(j, Started(rows[j]))
      <4>1. rows' = rows
        BY <3>4, <1>0 DEF WorkerUpdateError, UpdateError, Reliable
      <4> QED
        BY <2>0, <3>2, <4>1, ExecutedFrame
    <3> QED
      BY <2>2, <3>1, <3>3, <3>4 DEF StartJob
  <2>3. CASE ReportStarted(w) \/ ScrapePage(w) \/ ReportScraped(w)
    <3> DEFINE j == job[w]
    <3>1. j \in Jobs
      BY <2>3 DEF ReportStarted, ScrapePage, ReportScraped, DeliveryInv
    <3>2. \A v \in Workers, k \in Jobs : Executing(v, k) => Executing(v, k)'
      <4>1. \E l \in {"options", "scrape", "scraped", "complete", "fail"} :
                Goto(w, l)
        BY <2>3 DEF ReportStarted, ScrapePage, ReportScraped
      <4> QED
        BY <2>3, <4>1, ExecutingFrame
           DEF ReportStarted, ScrapePage, ReportScraped, Labels
    <3>3. \/ rows' = rows
          \/ rows' = [rows EXCEPT ![j] = Progressed(rows[j], 10)]
          \/ rows' = [rows EXCEPT ![j] = Progressed(rows[j], 90)]
      BY <2>3, <3>1, <1>0, ReliableUpdate
         DEF ReportStarted, ScrapePage, ReportScraped
    <3>4. \A p : Progressed(rows[j], p).status = rows[j].status
      BY <3>1 DEF Progressed, TypeOK, Row
    <3>5. \A k \in Jobs : rows'[k].status = rows[k].status
      BY <3>1, <3>3, <3>4 DEF TypeOK
    <3> QED
      BY <2>0, <3>2, <3>5, ExecutedFrame
  <2>4. CASE CompleteJob(w) \/ FailJob(w)
    <3> DEFINE j == job[w]
    <3>1. j \in Jobs
      BY <2>4 DEF CompleteJob, FailJob, DeliveryInv
    <3>2. \A v \in Workers, k \in Jobs :
              k # j /\ Executing(v, k) => Executing(v, k)'
      BY <2>4 DEF CompleteJob, FailJob, Executing, Goto, TypeOK
    <3>3. \/ rows[j].status = "absent" /\ rows' = rows
          \/ rows' = [rows EXCEPT ![j] = Completed(rows[j])]
          \/ rows' = [rows EXCEPT ![j] = Failed(rows[j])]
      BY <2>4, <3>1, <1>0, ReliableUpdate DEF CompleteJob, FailJob
    <3>4. /\ Completed(rows[j]).status = "completed"
          /\ Failed(rows[j]).status = "failed"
      BY <3>1 DEF Completed, Failed, TypeOK, Row
    <3>5. /\ rows'[j].status # "processing"
          /\ \A k \in Jobs : k # j => rows'[k] = rows[k]
      BY <3>1, <3>3, <3>4 DEF TypeOK
    <3> QED
      BY <2>0, <3>1, <3>2, <3>5 DEF ExecutedInv, ProcessingIsExecuted
  <2> QED
    BY <1>6, <2>1, <2>2, <2>3, <2>4 DEF Handler
<1> QED
  BY <1>1, <1>2, <1>3, <1>4, <1>5, <1>6 DEF Next, Step

\* No row is left in processing without a worker, whatever duplicates the
\* bridge and RetryJob publish, and although cancellation, clean-up and a
\* lost connection come in between.
THEOREM ProcessingExecuted ==
    ASSUME Reliable
    PROVE  Spec => []ProcessingIsExecuted
<1>1. Init => ExecutedInv
  BY DEF Init, ExecutedInv, ProcessingIsExecuted, NewRow, AbsentRow
<1>2. TypeInv /\ ExecutedInv /\ [Next]_vars => ExecutedInv'
  BY ExecutedNext
<1>3. ExecutedInv => ProcessingIsExecuted
  BY DEF ExecutedInv
<1> QED
  BY TypeCorrect, <1>1, <1>2, <1>3, PTL DEF Spec

-----------------------------------------------------------------------------
(* What the columns of a row say together.  progress, status, error and    *)
(* results are written by different statements of different actors, which  *)
(* agree because a job has one claimant (SingleInv): while it is claimed,  *)
(* its row has neither an error nor results.                               *)

Unfinished(j) == /\ ~rows[j].error
                 /\ ~rows[j].results
                 /\ rows[j].status \notin {"completed", "failed"}

RowOk(j) ==
    /\ rows[j].status = "completed" =>
         rows[j].progress = 100 /\ rows[j].results /\ ~rows[j].error
    /\ rows[j].status = "failed" => rows[j].error /\ ~rows[j].results
    /\ rows[j].status = "pending" => rows[j].progress = 0 /\ Unfinished(j)
    /\ (\E w \in Workers : Claims(w, j)) => Unfinished(j)
    /\ creator[j] \in {"publish", "fail"} => ~rows[j].results

RowInv == \A j \in Jobs : RowOk(j)

\* A row that is not written, and that nobody comes to claim.
LEMMA RowFrame ==
    ASSUME NEW j \in Jobs, RowOk(j), rows'[j] = rows[j],
           \A w \in Workers : Claims(w, j)' => Claims(w, j),
           creator'[j] \in {"publish", "fail"} =>
              creator[j] \in {"publish", "fail"}
    PROVE  RowOk(j)'
  BY DEF RowOk, Unfinished

\* The outcomes of any UPDATE.
LEMMA AnyUpdate ==
    ASSUME NEW j \in Jobs, NEW r,
           \/ UpdateOk(j, r) \/ UpdateError(j, r)
           \/ WorkerUpdateOk(j, r) \/ WorkerUpdateError(j, r)
    PROVE  rows' = rows \/ rows' = [rows EXCEPT ![j] = r]
  BY DEF UpdateOk, UpdateError, WorkerUpdateOk, WorkerUpdateError, Store

\* The columns that each statement writes.
LEMMA Columns ==
    ASSUME NEW r \in Row, NEW p \in {10, 90}
    PROVE  /\ Started(r) = [status |-> "processing", progress |-> r.progress,
                            retry_count |-> r.retry_count,
                            results |-> r.results, error |-> r.error]
           /\ Progressed(r, p) = [status |-> r.status, progress |-> p,
                                  retry_count |-> r.retry_count,
                                  results |-> r.results, error |-> r.error]
           /\ Completed(r).status = "completed" /\ Completed(r).progress = 100
           /\ Completed(r).results /\ Completed(r).error = r.error
           /\ Failed(r).status = "failed" /\ Failed(r).error
           /\ Failed(r).results = r.results
           /\ Canceled(r).status = "canceled"
           /\ Canceled(r).results = r.results /\ Canceled(r).error = r.error
  BY DEF Row, Started, Progressed, Completed, Failed, Canceled

LEMMA RowNext ==
    ASSUME NoDuplicates, TypeInv, SingleInv, RowInv, [Next]_vars
    PROVE  RowInv'
<1> USE DEF TypeInv
<1>0. bridge = {} /\ \A c \in Retriers : retrier[c].at = "idle"
  BY DEF SingleInv
<1>a. ASSUME NEW j \in Jobs, RowOk(j)',
             \A k \in Jobs \ {j} :
                /\ rows'[k] = rows[k]
                /\ creator'[k] \in {"publish", "fail"} =>
                      creator[k] \in {"publish", "fail"}
                /\ \A w \in Workers : Claims(w, k)' => Claims(w, k)
      PROVE  RowInv'
  BY <1>a, RowFrame DEF RowInv
<1>b. ASSUME rows' = rows,
             \A k \in Jobs : creator'[k] \in {"publish", "fail"} =>
                                creator[k] \in {"publish", "fail"},
             \A w \in Workers, k \in Jobs : Claims(w, k)' => Claims(w, k)
      PROVE  RowInv'
  BY <1>b, RowFrame DEF RowInv
<1>1. ASSUME NEW j \in Jobs, InsertJob(j) PROVE RowInv'
  <2>1. \A w \in Workers : job[w] # j
    BY <1>1 DEF InsertJob, SingleInv
  <2>2. UNCHANGED <<pc, job, channel>>
    BY <1>1 DEF InsertJob, worker, broker
  <2>3. \A w \in Workers, k \in Jobs : Claims(w, k)' => Claims(w, k)
    BY <2>2, WorkerFrame
  <2>4. rows' = rows \/ rows' = [rows EXCEPT ![j] = NewRow]
    BY <1>1 DEF InsertJob, Store
  <2>5. \A k \in Jobs \ {j} : creator'[k] = creator[k]
    BY <1>1 DEF InsertJob, TypeOK
  <2>6. CASE rows' = rows /\ creator'[j] = "done"
    <3>1. \A k \in Jobs : creator'[k] \in {"publish", "fail"} =>
                             creator[k] \in {"publish", "fail"}
      BY <2>5, <2>6
    <3> QED
      BY <2>3, <2>6, <3>1, <1>b
  <2>7. CASE rows' = [rows EXCEPT ![j] = NewRow]
    <3>1. rows'[j] = NewRow /\ \A k \in Jobs \ {j} : rows'[k] = rows[k]
      BY <2>7 DEF TypeOK
    <3>2. \A w \in Workers : ~Claims(w, j)'
      BY <2>1, <2>3 DEF Claims, Executing
    <3>3. RowOk(j)'
      BY <3>1, <3>2 DEF RowOk, Unfinished, NewRow, AbsentRow
    <3> QED
      BY <2>3, <2>5, <3>1, <3>3, <1>a
  <2> QED
    BY <1>1, <2>6, <2>7 DEF InsertJob, Store, TypeOK
<1>2. ASSUME NEW j \in Jobs, PublishCreated(j) PROVE RowInv'
  <2>1. UNCHANGED <<rows, pc, job, channel>>
    BY <1>2 DEF PublishCreated, worker
  <2>2. \A k \in Jobs : creator'[k] \in {"publish", "fail"} =>
                           creator[k] \in {"publish", "fail"}
    BY <1>2 DEF PublishCreated, TypeOK
  <2> QED
    BY <2>1, <2>2, WorkerFrame, <1>b
<1>3. ASSUME NEW j \in Jobs, FailUnpublished(j) PROVE RowInv'
  <2>1. UNCHANGED <<pc, job, channel>>
    BY <1>3 DEF FailUnpublished, worker, broker
  <2>2. \A w \in Workers, k \in Jobs : Claims(w, k)' => Claims(w, k)
    BY <2>1, WorkerFrame
  <2>3. \A k \in Jobs : creator'[k] \in {"publish", "fail"} =>
                           creator[k] \in {"publish", "fail"}
    BY <1>3 DEF FailUnpublished, TypeOK
  <2>4. rows' = rows \/ rows' = [rows EXCEPT ![j] = Failed(rows[j])]
    BY <1>3, AnyUpdate DEF FailUnpublished
  <2>5. CASE rows' = [rows EXCEPT ![j] = Failed(rows[j])]
    <3>1. rows'[j] = Failed(rows[j]) /\ \A k \in Jobs \ {j} : rows'[k] = rows[k]
      BY <2>5 DEF TypeOK
    <3>2. \A w \in Workers : ~Claims(w, j)'
      BY <1>3, <2>2 DEF FailUnpublished, SingleInv, Claims, Executing
    <3>3. ~rows[j].results
      BY <1>3 DEF FailUnpublished, RowInv, RowOk
    <3>4. RowOk(j)'
      BY <3>1, <3>2, <3>3, Columns DEF RowOk, TypeOK
    <3> QED
      BY <2>2, <2>3, <3>1, <3>4, <1>a
  <2> QED
    BY <2>2, <2>3, <2>4, <2>5, <1>b
<1>4. ASSUME NEW j \in Jobs, CancelJob(j) PROVE RowInv'
  <2>1. UNCHANGED <<pc, job, channel, creator>>
    BY <1>4 DEF CancelJob, worker, broker, server
  <2>2. \A w \in Workers, k \in Jobs : Claims(w, k)' => Claims(w, k)
    BY <2>1, WorkerFrame
  <2>3. /\ rows'[j] = Canceled(rows[j])
        /\ \A k \in Jobs \ {j} : rows'[k] = rows[k]
    BY <1>4 DEF CancelJob, UpdateOk, Store, TypeOK
  <2>4. RowOk(j)'
    BY <2>1, <2>2, <2>3, Columns DEF RowInv, RowOk, Unfinished, TypeOK
  <2> QED
    BY <2>1, <2>2, <2>3, <2>4, <1>a
<1>5. ~BridgePoll /\ (\A j \in Jobs : ~BridgePublish(j))
         /\ (\A c \in Retriers : ~RetryCall(c))
  BY <1>0 DEF NoDuplicates, BridgePoll, BridgePublish, RetryCall,
              ReadRetryCount, ResetRow, PublishRetry
<1>6. ASSUME Cleanup PROVE RowInv'
  <2>1. UNCHANGED <<pc, job, channel, creator>>
    BY <1>6 DEF Cleanup, worker, broker, server
  <2>2. \A w \in Workers, k \in Jobs : Claims(w, k)' => Claims(w, k)
    BY <2>1, WorkerFrame
  <2>3. \A k \in Jobs : rows'[k] = rows[k] \/ rows'[k] = AbsentRow
    BY <1>6 DEF Cleanup
  <2>4. ASSUME NEW k \in Jobs PROVE RowOk(k)'
    <3>1. CASE rows'[k] = rows[k]
      BY <2>1, <2>2, <3>1, RowFrame DEF RowInv
    <3>2. CASE rows'[k] = AbsentRow
      BY <3>2 DEF RowOk, Unfinished, AbsentRow
    <3> QED
      BY <2>3, <3>1, <3>2
  <2> QED
    BY <2>4 DEF RowInv
<1>7. ASSUME \/ StopPool \/ LoseConnection \/ Crash \/ UNCHANGED vars
             \/ \E m \in Msgs : Expire(m)
             \/ \E w \in Workers, m \in Msgs : Deliver(w, m)
      PROVE  RowInv'
  <2>1. rows' = rows
    BY <1>7 DEF StopPool, LoseConnection, Crash, vars, Expire, Deliver
  <2>2. \A k \in Jobs : creator'[k] \in {"publish", "fail"} =>
                           creator[k] \in {"publish", "fail"}
    BY <1>7 DEF StopPool, LoseConnection, Crash, vars, server, Expire, Deliver
  <2>3. \A w \in Workers, k \in Jobs : Claims(w, k)' => Claims(w, k)
    BY <1>7 DEF StopPool, LoseConnection, Crash, vars, worker, Expire, Deliver,
                Claims, Executing
  <2> QED
    BY <2>1, <2>2, <2>3, <1>b
<1>8. ASSUME NEW w \in Workers, Handler(w) PROVE RowInv'
  <2>0. creator' = creator /\ channel' = channel
    BY <1>8 DEF Handler, GetJob, StartJob, ReportStarted, ScrapePage,
       ReportScraped, CompleteJob, FailJob, Republish, Ack, Nack, Settle,
       StopConsuming, server, broker
  <2>1. CASE GetJob(w)
    <3>1. PICK j : /\ j = msgs[held[w]].job
                   /\ job' = [job EXCEPT ![w] = j]
                   /\ rows' = rows
                   /\ \/ IsPending(j) /\ Goto(w, "start")
                      \/ Goto(w, "error")
      BY <2>1 DEF GetJob
    <3>2. \A v \in Workers, k \in Jobs :
              Claims(v, k)' => Claims(v, k) \/ (k = j /\ IsPending(j))
      BY <3>1 DEF Claims, Executing, Goto, TypeOK
    <3>3. ASSUME NEW k \in Jobs PROVE RowOk(k)'
      <4>1. CASE k = j /\ IsPending(j)
        BY <2>0, <3>1, <4>1 DEF RowInv, RowOk, Unfinished, IsPending
      <4>2. CASE ~(k = j /\ IsPending(j))
        BY <2>0, <3>1, <3>2, <4>2, RowFrame DEF RowInv
      <4> QED
        BY <4>1, <4>2
    <3> QED
      BY <3>3 DEF RowInv
  <2>2. CASE Republish(w) \/ Ack(w) \/ Nack(w) \/ StopConsuming(w)
    <3>1. rows' = rows /\ \E l \in {"nack", "idle", "stopped"} : Goto(w, l)
      BY <2>2 DEF Republish, Ack, Nack, Settle, StopConsuming
    <3>2. \A v \in Workers : v # w => job'[v] = job[v]
      BY <2>2 DEF Republish, Ack, Nack, Settle, StopConsuming, TypeOK
    <3>3. \A v \in Workers, k \in Jobs : Claims(v, k)' => Claims(v, k)
      BY <2>0, <3>1, <3>2, LeaveFrame
    <3> QED
      BY <2>0, <3>1, <3>3, <1>b
  <2>3. ASSUME NEW j \in Jobs, j = job[w],
               pc[w] \in {"start", "options", "scrape", "scraped", "complete",
                          "fail"},
               UNCHANGED job
        PROVE  Unfinished(j) /\ (pc[w] # "start" => ~IsPending(j))
    BY <2>3 DEF Claims, Executing, SingleInv, RowInv, RowOk
  <2>4. CASE \/ StartJob(w) \/ ReportStarted(w) \/ ScrapePage(w)
             \/ ReportScraped(w)
    <3>1. PICK j \in Jobs : j = job[w]
      BY <2>4 DEF StartJob, ReportStarted, ScrapePage, ReportScraped,
                  DeliveryInv
    <3>2. /\ UNCHANGED job
          /\ pc[w] \in {"start", "options", "scrape", "scraped"}
      BY <2>4 DEF StartJob, ReportStarted, ScrapePage, ReportScraped
    <3>3. Unfinished(j) /\ (pc[w] # "start" => ~IsPending(j))
      BY <2>3, <3>1, <3>2
    <3>4. \A v \in Workers, k \in Jobs : Claims(v, k)' => Claims(v, k)
      BY <2>4, <3>2 DEF StartJob, ReportStarted, ScrapePage, ReportScraped,
                        Claims, Executing, Goto, TypeOK
    <3>5. \/ rows' = rows
          \/ rows' = [rows EXCEPT ![j] = Started(rows[j])]
          \/ /\ ~IsPending(j)
             /\ \E p \in {10, 90} :
                   rows' = [rows EXCEPT ![j] = Progressed(rows[j], p)]
      <4>1. CASE StartJob(w)
        BY <3>1, <4>1, AnyUpdate DEF StartJob
      <4>2. CASE ReportStarted(w)
        BY <3>1, <3>3, <4>2, AnyUpdate DEF ReportStarted
      <4>3. CASE ScrapePage(w)
        BY <4>3 DEF ScrapePage
      <4>4. CASE ReportScraped(w)
        BY <3>1, <3>3, <4>4, AnyUpdate DEF ReportScraped
      <4> QED
        BY <2>4, <4>1, <4>2, <4>3, <4>4
    <3>6. CASE rows' = rows
      BY <2>0, <3>4, <3>6, <1>b
    <3>7. CASE rows' # rows
      <4>1. rows'[j].status \in {"processing", rows[j].status}
               /\ rows'[j].results = rows[j].results
               /\ rows'[j].error = rows[j].error
               /\ rows'[j].status # "pending"
               /\ \A k \in Jobs \ {j} : rows'[k] = rows[k]
        BY <3>5, <3>7, Columns DEF IsPending, TypeOK
      <4>2. RowOk(j)'
        BY <3>3, <4>1 DEF RowOk, Unfinished
      <4> QED
        BY <2>0, <3>4, <4>1, <4>2, <1>a
    <3> QED
      BY <3>6, <3>7
  <2>5. CASE CompleteJob(w) \/ FailJob(w)
    <3>1. PICK j \in Jobs : j = job[w]
      BY <2>5 DEF CompleteJob, FailJob, DeliveryInv
    <3>2. /\ UNCHANGED job
          /\ pc[w] \in {"complete", "fail"}
          /\ \E l \in {"ack", "error"} : Goto(w, l)
      BY <2>5 DEF CompleteJob, FailJob
    <3>3. Unfinished(j)
      BY <2>3, <3>1, <3>2
    <3>4. /\ \A v \in Workers, k \in Jobs : Claims(v, k)' => Claims(v, k)
          /\ ~Claims(w, j)'
      BY <3>2 DEF Claims, Executing, Goto, TypeOK
    <3>5. \A v \in Workers : ~Claims(v, j)'
      BY <3>1, <3>2, <3>4 DEF SingleInv, Claims, Executing
    <3>6. \/ rows' = rows
          \/ rows' = [rows EXCEPT ![j] = Completed(rows[j])]
          \/ rows' = [rows EXCEPT ![j] = Failed(rows[j])]
      BY <2>5, <3>1, AnyUpdate DEF CompleteJob, FailJob
    <3>7. CASE rows' = rows
      BY <2>0, <3>4, <3>7, <1>b
    <3>8. CASE rows' # rows
      <4>1. rows'[j] \in {Completed(rows[j]), Failed(rows[j])}
               /\ \A k \in Jobs \ {j} : rows'[k] = rows[k]
        BY <3>6, <3>8 DEF TypeOK
      <4>2. creator[j] \notin {"publish", "fail"}
        BY <3>1 DEF SingleInv
      <4>3. RowOk(j)'
        BY <2>0, <3>3, <3>5, <4>1, <4>2, Columns DEF RowOk, Unfinished, TypeOK
      <4> QED
        BY <2>0, <3>4, <4>1, <4>3, <1>a
    <3> QED
      BY <3>7, <3>8
  <2> QED
    BY <1>8, <2>1, <2>2, <2>4, <2>5 DEF Handler
<1> QED
  BY <1>1, <1>2, <1>3, <1>4, <1>5, <1>6, <1>7, <1>8
     DEF Next, Step, Creation

\* What the API shows of a job fits together, although several statements
\* of the service, the workers and the clients write the row.
THEOREM RowsConsistent ==
    ASSUME NoDuplicates
    PROVE  Spec => []RowConsistent
<1>1. Init => RowInv
  BY JobAssumption
     DEF Init, RowInv, RowOk, Unfinished, NewRow, AbsentRow, Claims, Executing
<1>2. TypeInv /\ SingleInv /\ RowInv /\ [Next]_vars => RowInv'
  BY RowNext
<1>3. RowInv => RowConsistent
  BY DEF RowInv, RowOk, Unfinished, RowConsistent
<1> QED
  BY TypeCorrect, SingleAlways, <1>1, <1>2, <1>3, PTL DEF Spec

-----------------------------------------------------------------------------
(* A pending job is not lost, as long as the broker drops nothing that it  *)
(* was given and the server neither fails nor stops.  A worker that is     *)
(* past the pending check knows its job not to be pending, so that it may  *)
(* settle the message; and a job is pending once, when it is created,      *)
(* before anything else knows of it.                                       *)

Lossless ==
    Env \cap {"retry", "ttl", "dberr", "dblost", "publost", "stop",
              "crash"} = {}

Fresh(j) == creator[j] = "none" =>
    /\ rows[j].status = "absent"
    /\ \A m \in Msgs : msgs[m].loc # "none" => msgs[m].job # j
    /\ \A w \in Workers : job[w] # j
    /\ j \notin bridge

TrackInv ==
    /\ stopping = FALSE
    /\ \A c \in Retriers : retrier[c].at = "idle"
    /\ \A j \in Jobs : Fresh(j)
    /\ \A w \in Workers, j \in Jobs :
          pc[w] \notin {"idle", "stopped", "start"} /\ job[w] = j =>
              ~IsPending(j)
    /\ PendingIsTracked

\* A step after which a pending job was pending before and still has what
\* will bring a worker to it.
LEMMA TrackedFrame ==
    ASSUME TrackInv,
           \A j \in Jobs : IsPending(j)' =>
              /\ IsPending(j)
              /\ creator[j] \in {"publish", "fail"} =>
                    creator'[j] \in {"publish", "fail"}
              /\ \A m \in Msgs : Carries(m, j) => Carries(m, j)'
    PROVE  PendingIsTracked'
  BY DEF TrackInv, PendingIsTracked

\* Messages and consumers that stand still.
LEMMA CarriesKept ==
    ASSUME UNCHANGED <<msgs, held, pc>>
    PROVE  \A m \in Msgs, j \in Jobs : Carries(m, j) => Carries(m, j)'
  BY DEF Carries

\* A publish takes a free identity and leaves every other message alone.
LEMMA CarriesPublished ==
    ASSUME msgs \in [Msgs -> Message], NEW i, NEW n, PublishOk(i, n),
           UNCHANGED <<held, pc>>
    PROVE  \A m \in Msgs, j \in Jobs : Carries(m, j) => Carries(m, j)'
  BY PublishFrame DEF Carries

LEMMA LosslessUpdate ==
    ASSUME Lossless, TypeOK, stopping = FALSE, NEW j \in Jobs, NEW r,
           \/ UpdateOk(j, r) \/ UpdateError(j, r)
           \/ WorkerUpdateOk(j, r) \/ WorkerUpdateError(j, r)
    PROVE  \/ rows[j].status = "absent" /\ rows' = rows
           \/ rows[j].status # "absent" /\ rows' = [rows EXCEPT ![j] = r]
  BY DEF Lossless, UpdateOk, UpdateError, WorkerUpdateOk, WorkerUpdateError,
         Store, Exists

\* Steps of the requests that create and cancel jobs, and of the bridge.
LEMMA TrackClients ==
    ASSUME Lossless, TypeInv, TrackInv, NEW j \in Jobs,
           Creation(j) \/ CancelJob(j) \/ BridgePublish(j)
    PROVE  TrackInv'
<1> USE DEF TypeInv
<1>0. stopping = FALSE /\ \A c \in Retriers : retrier[c].at = "idle"
  BY DEF TrackInv
<1>1. UNCHANGED <<stopping, retrier, pc, held, job, channel>>
  BY DEF Creation, InsertJob, PublishCreated, FailUnpublished, CancelJob,
         BridgePublish, worker, broker, server
<1>2. CASE InsertJob(j)
  <2>1. creator[j] = "none" /\ UNCHANGED <<msgs, bridge>>
    BY <1>2 DEF InsertJob, broker
  <2>2. /\ rows' = [rows EXCEPT ![j] = NewRow]
        /\ creator' = [creator EXCEPT ![j] = "publish"]
    BY <1>2 DEF InsertJob, Store, Lossless
  <2>3. \A k \in Jobs \ {j} : rows'[k] = rows[k] /\ creator'[k] = creator[k]
    BY <2>2 DEF TypeOK
  <2>4. creator'[j] = "publish"
    BY <2>2 DEF TypeOK
  <2>5. \A k \in Jobs : Fresh(k)'
    BY <1>1, <2>1, <2>3, <2>4 DEF TrackInv, Fresh
  <2>6. \A w \in Workers : job[w] # j
    BY <2>1 DEF TrackInv, Fresh
  <2>7. \A w \in Workers, k \in Jobs :
            pc'[w] \notin {"idle", "stopped", "start"} /\ job'[w] = k =>
                ~IsPending(k)'
    BY <1>1, <2>3, <2>6 DEF TrackInv, IsPending
  <2>8. PendingIsTracked'
    BY <1>0, <1>1, <2>1, <2>3, <2>4, CarriesKept
       DEF TrackInv, PendingIsTracked, IsPending
  <2> QED
    BY <1>0, <1>1, <2>5, <2>7, <2>8 DEF TrackInv
<1>3. CASE PublishCreated(j)
  <2>1. rows' = rows /\ bridge' = bridge /\ creator[j] = "publish"
    BY <1>3 DEF PublishCreated
  <2>2. \A k \in Jobs \ {j} : creator'[k] = creator[k]
    BY <1>3 DEF PublishCreated, TypeOK
  <2>3. creator'[j] \in {"fail", "done"}
    BY <1>3 DEF PublishCreated, TypeOK
  <2>4. PublishOk(j, 0) \/ msgs' = msgs
    BY <1>3 DEF PublishCreated
  <2>5. \A m \in Msgs : msgs'[m] = msgs[m] \/ msgs'[m].job = j
    BY <2>4, PublishFrame DEF TypeOK
  <2>6. \A k \in Jobs : Fresh(k)'
    <3>1. ASSUME NEW k \in Jobs PROVE Fresh(k)'
      BY <1>1, <2>1, <2>2, <2>3, <2>5 DEF TrackInv, Fresh
    <3> QED
      BY <3>1
  <2>7. \A m \in Msgs, k \in Jobs : Carries(m, k) => Carries(m, k)'
    BY <1>1, <2>4, CarriesKept, CarriesPublished DEF TypeOK
  <2>8. creator'[j] = "fail" \/ \E m \in Msgs : Carries(m, j)'
    <3>1. CASE creator'[j] = "fail"
      BY <3>1
    <3>2. CASE creator'[j] # "fail"
      <4>1. PICK m \in Free : msgs' = [msgs EXCEPT ![m] = Queued(j, 0)]
        BY <1>3, <3>2 DEF PublishCreated, PublishOk, Lossless, TypeOK
      <4>2. msgs'[m] = Queued(j, 0)
        BY <4>1 DEF Free, TypeOK
      <4> QED
        BY <4>1, <4>2 DEF Free, Queued, Carries
    <3> QED
      BY <3>1, <3>2
  <2>9. PendingIsTracked'
    BY <1>0, <2>1, <2>2, <2>7, <2>8 DEF TrackInv, PendingIsTracked, IsPending
  <2> QED
    BY <1>0, <1>1, <2>1, <2>6, <2>9 DEF TrackInv, IsPending
<1>4. CASE FailUnpublished(j) \/ CancelJob(j)
  <2>1. UNCHANGED <<msgs, bridge>>
    BY <1>4 DEF FailUnpublished, CancelJob, broker
  <2>2. /\ \A k \in Jobs : creator'[k] = "none" => creator[k] = "none"
        /\ \A k \in Jobs \ {j} : creator'[k] = creator[k]
    BY <1>4 DEF FailUnpublished, CancelJob, server, TypeOK
  <2>3. \/ rows[j].status = "absent" /\ rows' = rows
        \/ /\ rows[j].status # "absent"
           /\ \/ rows' = [rows EXCEPT ![j] = Failed(rows[j])]
              \/ rows' = [rows EXCEPT ![j] = Canceled(rows[j])]
    BY <1>0, <1>4, LosslessUpdate DEF FailUnpublished, CancelJob
  <2>4. /\ Failed(rows[j]).status = "failed"
        /\ Canceled(rows[j]).status = "canceled"
    BY Columns DEF TypeOK
  <2>5. ~IsPending(j)' /\ \A k \in Jobs \ {j} : rows'[k] = rows[k]
    BY <2>3, <2>4 DEF IsPending, TypeOK
  <2>6. \A k \in Jobs : Fresh(k)'
    <3>1. ASSUME NEW k \in Jobs PROVE Fresh(k)'
      BY <1>1, <2>1, <2>2, <2>3, <2>5 DEF TrackInv, Fresh
    <3> QED
      BY <3>1
  <2>7. PendingIsTracked'
    BY <1>1, <2>1, <2>2, <2>5, CarriesKept, TrackedFrame DEF IsPending
  <2> QED
    BY <1>0, <1>1, <2>5, <2>6, <2>7 DEF TrackInv, IsPending
<1>5. CASE BridgePublish(j)
  <2>1. /\ UNCHANGED <<rows, creator>>
        /\ j \in bridge
        /\ bridge' \subseteq bridge
    BY <1>5 DEF BridgePublish, server
  <2>2. PublishOk(j, 0) \/ msgs' = msgs
    BY <1>5 DEF BridgePublish
  <2>3. \A m \in Msgs : msgs'[m] = msgs[m] \/ msgs'[m].job = j
    BY <2>2, PublishFrame DEF TypeOK
  <2>4. \A k \in Jobs : Fresh(k)'
    <3>1. ASSUME NEW k \in Jobs PROVE Fresh(k)'
      BY <1>1, <2>1, <2>3 DEF TrackInv, Fresh
    <3> QED
      BY <3>1
  <2>5. PendingIsTracked'
    BY <1>1, <2>1, <2>2, CarriesKept, CarriesPublished, TrackedFrame
       DEF IsPending, TypeOK
  <2> QED
    BY <1>0, <1>1, <2>1, <2>4, <2>5 DEF TrackInv, IsPending
<1> QED
  BY <1>2, <1>3, <1>4, <1>5 DEF Creation

\* Steps of a worker.
LEMMA TrackWorkers ==
    ASSUME Lossless, TypeInv, TrackInv, NEW w \in Workers, Handler(w)
    PROVE  TrackInv'
<1> USE DEF TypeInv
<1>0. stopping = FALSE /\ \A c \in Retriers : retrier[c].at = "idle"
  BY DEF TrackInv
<1>1. UNCHANGED <<stopping, retrier, creator, bridge>>
  BY DEF Handler, GetJob, StartJob, ReportStarted, ScrapePage, ReportScraped,
         CompleteJob, FailJob, Republish, Ack, Nack, Settle, StopConsuming,
         server
<1>2. CASE GetJob(w)
  <2>1. PICK j : /\ j = msgs[held[w]].job
                 /\ job' = [job EXCEPT ![w] = j]
                 /\ \/ Goto(w, "start")
                    \/ ~IsPending(j) /\ Goto(w, "error")
    BY <1>0, <1>2 DEF GetJob, ReadFails, Lossless
  <2>2. pc[w] = "idle" /\ held[w] # NoMsg /\ UNCHANGED <<rows, msgs, held>>
    BY <1>2 DEF GetJob, broker
  <2>3. held[w] \in Msgs /\ msgs[held[w]].loc = "unacked"
    BY <2>2 DEF DeliveryInv, TypeOK
  <2>4. \A k \in Jobs : Fresh(k)'
    <3>1. ASSUME NEW k \in Jobs PROVE Fresh(k)'
      BY <1>1, <2>1, <2>2, <2>3 DEF TrackInv, Fresh, TypeOK
    <3> QED
      BY <3>1
  <2>5. \A v \in Workers, k \in Jobs :
            pc'[v] \notin {"idle", "stopped", "start"} /\ job'[v] = k =>
                ~IsPending(k)'
    BY <2>1, <2>2 DEF TrackInv, Goto, TypeOK, IsPending
  <2>6. PendingIsTracked'
    <3>1. \A m \in Msgs, k \in Jobs : Carries(m, k) => Carries(m, k)'
      BY <2>1, <2>2 DEF Carries, Goto, TypeOK
    <3> QED
      BY <1>1, <2>2, <3>1, TrackedFrame DEF IsPending
  <2> QED
    BY <1>0, <1>1, <2>4, <2>5, <2>6 DEF TrackInv
<1>3. CASE \/ StartJob(w) \/ ReportStarted(w) \/ ScrapePage(w)
           \/ ReportScraped(w) \/ CompleteJob(w) \/ FailJob(w)
  <2>1. PICK j \in Jobs : j = job[w]
    BY <1>3 DEF StartJob, ReportStarted, ScrapePage, ReportScraped,
                CompleteJob, FailJob, DeliveryInv
  <2>2. /\ UNCHANGED <<msgs, held, job>>
        /\ pc[w] \in {"start", "options", "scrape", "scraped", "complete",
                      "fail"}
    BY <1>3 DEF StartJob, ReportStarted, ScrapePage, ReportScraped,
                CompleteJob, FailJob, broker
  <2>3. \E l : Goto(w, l) /\ l # "nack"
    BY <1>3 DEF StartJob, ReportStarted, ScrapePage, ReportScraped,
                CompleteJob, FailJob
  <2>4. \/ rows[j].status = "absent" /\ rows' = rows
        \/ /\ rows[j].status # "absent"
           /\ \E r \in {Started(rows[j]), Progressed(rows[j], 10),
                        Progressed(rows[j], 90), Completed(rows[j]),
                        Failed(rows[j])} : rows' = [rows EXCEPT ![j] = r]
           /\ pc[w] = "start" => rows' = [rows EXCEPT ![j] = Started(rows[j])]
        \/ pc[w] # "start" /\ rows' = rows
    <3>1. CASE StartJob(w)
      BY <1>0, <2>1, <3>1, LosslessUpdate DEF StartJob
    <3>2. CASE ReportStarted(w)
      BY <1>0, <2>1, <3>2, LosslessUpdate DEF ReportStarted
    <3>3. CASE ScrapePage(w)
      BY <3>3 DEF ScrapePage
    <3>4. CASE ReportScraped(w)
      BY <1>0, <2>1, <3>4, LosslessUpdate DEF ReportScraped
    <3>5. CASE CompleteJob(w)
      BY <1>0, <2>1, <3>5, LosslessUpdate DEF CompleteJob
    <3>6. CASE FailJob(w)
      BY <1>0, <2>1, <3>6, LosslessUpdate DEF FailJob
    <3> QED
      BY <1>3, <3>1, <3>2, <3>3, <3>4, <3>5, <3>6
  <2>5. ~IsPending(j)' /\ \A k \in Jobs \ {j} : rows'[k] = rows[k]
    <3>1. pc[w] # "start" => ~IsPending(j)
      BY <2>1, <2>2 DEF TrackInv
    <3>2. \A k \in Jobs \ {j} : rows'[k] = rows[k]
      BY <2>4 DEF TypeOK
    <3>3. CASE rows' = rows
      BY <2>4, <3>1, <3>3, Columns DEF IsPending, TypeOK
    <3>4. CASE rows' # rows
      BY <2>4, <3>1, <3>4, Columns DEF IsPending, TypeOK
    <3> QED
      BY <3>2, <3>3, <3>4
  <2>6. \A k \in Jobs : Fresh(k)'
    <3>1. ASSUME NEW k \in Jobs PROVE Fresh(k)'
      BY <1>1, <2>1, <2>2, <2>5 DEF TrackInv, Fresh
    <3> QED
      BY <3>1
  <2>7. \A v \in Workers : v # w => pc'[v] = pc[v]
    BY <2>3 DEF Goto, TypeOK
  <2>8. \A v \in Workers, k \in Jobs :
            pc'[v] \notin {"idle", "stopped", "start"} /\ job'[v] = k =>
                ~IsPending(k)'
    BY <2>1, <2>2, <2>5, <2>7 DEF TrackInv, IsPending
  <2>9. PendingIsTracked'
    <3>1. \A m \in Msgs, k \in Jobs : Carries(m, k) => Carries(m, k)'
      BY <2>2, <2>3 DEF Carries, Goto, TypeOK
    <3> QED
      BY <1>1, <2>5, <3>1, TrackedFrame DEF IsPending
  <2> QED
    BY <1>0, <1>1, <2>6, <2>8, <2>9 DEF TrackInv
<1>4. CASE Republish(w)
  <2>1. UNCHANGED <<rows, held, job>> /\ pc[w] = "error"
    BY <1>4 DEF Republish
  <2>2. PICK j \in Jobs : j = job[w]
    BY <2>1 DEF DeliveryInv
  <2>3. Goto(w, "nack") /\ \A v \in Workers : v # w => pc'[v] = pc[v]
    BY <1>4 DEF Republish, Goto, TypeOK
  <2>4. (\E n : PublishOk(j, n)) \/ msgs' = msgs
    BY <1>4, <2>2 DEF Republish
  <2>5. \A m \in Msgs : \/ msgs'[m] = msgs[m]
                        \/ msgs[m].loc = "none" /\ msgs'[m].job = j
    BY <2>4, PublishFrame DEF TypeOK
  <2>6. ~IsPending(j)
    BY <2>1, <2>2 DEF TrackInv
  <2>7. \A k \in Jobs : Fresh(k)'
    <3>1. ASSUME NEW k \in Jobs PROVE Fresh(k)'
      BY <1>1, <2>1, <2>2, <2>5 DEF TrackInv, Fresh
    <3> QED
      BY <3>1
  <2>8. \A v \in Workers, k \in Jobs :
            pc'[v] \notin {"idle", "stopped", "start"} /\ job'[v] = k =>
                ~IsPending(k)'
    BY <2>1, <2>2, <2>3, <2>6 DEF TrackInv, IsPending
  <2>9. PendingIsTracked'
    <3>1. \A m \in Msgs, k \in Jobs : k # j /\ Carries(m, k) => Carries(m, k)'
      <4>1. held[w] # NoMsg => msgs[held[w]].job = j
        BY <2>1, <2>2 DEF DeliveryInv
      <4>2. \A m \in Msgs : held[w] = m => held[w] # NoMsg
        BY JobAssumption
      <4> QED
        BY <2>1, <2>3, <2>5, <4>1, <4>2 DEF Carries
    <3> QED
      BY <1>1, <2>1, <2>6, <3>1, TrackedFrame DEF IsPending
  <2> QED
    BY <1>0, <1>1, <2>7, <2>8, <2>9 DEF TrackInv
<1>5. CASE Ack(w) \/ Nack(w)
  <2>1. rows' = rows /\ pc[w] \in {"ack", "nack"}
    BY <1>5 DEF Ack, Nack, Settle
  <2>2. PICK j \in Jobs : j = job[w]
    BY <2>1 DEF DeliveryInv
  <2>3. /\ pc' = [pc EXCEPT ![w] = "idle"]
        /\ held' = [held EXCEPT ![w] = NoMsg]
        /\ job' = [job EXCEPT ![w] = NoJob]
    BY <1>5 DEF Ack, Nack, Settle, Goto
  <2>4. \A m \in Msgs : \/ msgs'[m] = msgs[m]
                        \/ m = held[w] /\ msgs'[m] = NoMessage
    BY <1>5, JobAssumption DEF Ack, Nack, Settle, TypeOK
  <2>5. ~IsPending(j)
    BY <2>1, <2>2 DEF TrackInv
  <2>6. \A k \in Jobs : Fresh(k)'
    <3>1. ASSUME NEW k \in Jobs PROVE Fresh(k)'
      BY <1>1, <2>1, <2>3, <2>4, JobAssumption
         DEF TrackInv, Fresh, NoMessage, TypeOK
    <3> QED
      BY <3>1
  <2>7. \A v \in Workers, k \in Jobs :
            pc'[v] \notin {"idle", "stopped", "start"} /\ job'[v] = k =>
                ~IsPending(k)'
    BY <2>1, <2>3 DEF TrackInv, IsPending, TypeOK
  <2>8. PendingIsTracked'
    <3>1. \A m \in Msgs : m = held[w] => msgs[m].job = j
      BY <2>1, <2>2, JobAssumption DEF DeliveryInv
    <3>2. \A m \in Msgs, k \in Jobs : k # j /\ Carries(m, k) => Carries(m, k)'
      BY <2>3, <2>4, <3>1 DEF Carries, TypeOK
    <3> QED
      BY <1>1, <2>1, <2>5, <3>2, TrackedFrame DEF IsPending
  <2> QED
    BY <1>0, <1>1, <2>6, <2>7, <2>8 DEF TrackInv
<1>6. CASE StopConsuming(w)
  <2>1. UNCHANGED <<rows, msgs, held, job>> /\ pc[w] = "idle"
    BY <1>6 DEF StopConsuming, broker
  <2>2. pc' = [pc EXCEPT ![w] = "stopped"]
    BY <1>6 DEF StopConsuming, Goto
  <2>3. \A m \in Msgs, k \in Jobs : Carries(m, k) => Carries(m, k)'
    BY <2>1, <2>2 DEF Carries, TypeOK
  <2>4. PendingIsTracked'
    BY <1>1, <2>1, <2>3, TrackedFrame DEF IsPending
  <2> QED
    BY <1>0, <1>1, <2>1, <2>2, <2>4 DEF TrackInv, Fresh, IsPending, TypeOK
<1> QED
  BY <1>2, <1>3, <1>4, <1>5, <1>6 DEF Handler

\* Steps of the broker, the clean-up and the bridge's poll.
LEMMA TrackOthers ==
    ASSUME Lossless, TypeInv, TrackInv,
           \/ Cleanup \/ BridgePoll \/ LoseConnection \/ UNCHANGED vars
           \/ \E w \in Workers, m \in Msgs : Deliver(w, m)
    PROVE  TrackInv'
<1> USE DEF TypeInv
<1>0. stopping = FALSE /\ \A c \in Retriers : retrier[c].at = "idle"
  BY DEF TrackInv
<1>1. UNCHANGED <<stopping, retrier, creator, pc, job>>
  BY DEF Cleanup, BridgePoll, LoseConnection, vars, Deliver, server, worker
<1>2. CASE Cleanup
  <2>1. UNCHANGED <<msgs, held, bridge>>
    BY <1>2 DEF Cleanup, broker, worker
  <2>2. \A k \in Jobs : rows'[k] = rows[k] \/ rows'[k] = AbsentRow
    BY <1>2 DEF Cleanup
  <2>3. \A k \in Jobs : IsPending(k)' => IsPending(k)
    BY <2>2 DEF IsPending, AbsentRow
  <2>4. PendingIsTracked'
    BY <1>1, <2>1, <2>3, CarriesKept, TrackedFrame
  <2>5. \A k \in Jobs : Fresh(k)'
    BY <1>1, <2>1, <2>2 DEF TrackInv, Fresh, AbsentRow
  <2> QED
    BY <1>0, <1>1, <2>3, <2>4, <2>5 DEF TrackInv
<1>3. CASE BridgePoll
  <2>1. UNCHANGED <<rows, msgs, held>> /\ bridge' \subseteq Pending
    BY <1>3 DEF BridgePoll, broker, worker
  <2>2. \A k \in Jobs : Fresh(k)'
    BY <1>1, <2>1 DEF TrackInv, Fresh, Pending, IsPending
  <2>3. PendingIsTracked'
    BY <1>1, <2>1, CarriesKept, TrackedFrame DEF IsPending
  <2> QED
    BY <1>0, <1>1, <2>1, <2>2, <2>3 DEF TrackInv, IsPending
<1>4. CASE LoseConnection
  <2>1. /\ UNCHANGED <<rows, bridge>>
        /\ msgs' = Requeued(msgs)
    BY <1>4 DEF LoseConnection
  <2>2. \A m \in Msgs : /\ msgs'[m].job = msgs[m].job
                        /\ msgs[m].loc = "none" => msgs'[m].loc = "none"
                        /\ msgs[m].loc # "none" => msgs'[m].loc = "queue"
    BY <2>1 DEF Requeued, TypeOK, Message
  <2>3. \A k \in Jobs : Fresh(k)'
    BY <1>1, <2>1, <2>2 DEF TrackInv, Fresh
  <2>4. \A m \in Msgs, k \in Jobs : Carries(m, k) => Carries(m, k)'
    BY <2>2 DEF Carries
  <2>5. PendingIsTracked'
    BY <1>1, <2>1, <2>4, TrackedFrame DEF IsPending
  <2> QED
    BY <1>0, <1>1, <2>1, <2>3, <2>5 DEF TrackInv, IsPending
<1>5. ASSUME NEW w \in Workers, NEW m \in Msgs, Deliver(w, m)
      PROVE  TrackInv'
  <2>1. /\ UNCHANGED <<rows, bridge>>
        /\ msgs[m].loc = "queue"
        /\ msgs' = [msgs EXCEPT ![m].loc = "unacked"]
        /\ held' = [held EXCEPT ![w] = m]
        /\ held[w] = NoMsg
    BY <1>5 DEF Deliver
  <2>2. pc[w] # "nack"
    BY <1>5, <2>1 DEF Deliver, DeliveryInv
  <2>3. /\ \A n \in Msgs \ {m} : msgs'[n] = msgs[n]
        /\ msgs'[m].job = msgs[m].job /\ msgs'[m].loc = "unacked"
        /\ held'[w] = m
        /\ \A v \in Workers \ {w} : held'[v] = held[v]
    BY <2>1 DEF TypeOK, Message
  <2>4. \A k \in Jobs : Fresh(k)'
    <3>1. ASSUME NEW k \in Jobs PROVE Fresh(k)'
      BY <1>1, <2>1, <2>3 DEF TrackInv, Fresh
    <3> QED
      BY <3>1
  <2>5. \A n \in Msgs, k \in Jobs : Carries(n, k) => Carries(n, k)'
    BY <1>1, <2>1, <2>2, <2>3, JobAssumption DEF Carries
  <2>6. PendingIsTracked'
    BY <1>1, <2>1, <2>5, TrackedFrame DEF IsPending
  <2> QED
    BY <1>0, <1>1, <2>1, <2>4, <2>6 DEF TrackInv, IsPending
<1>6. CASE UNCHANGED vars
  <2>1. UNCHANGED <<rows, msgs, held, bridge>>
    BY <1>6 DEF vars, broker, worker
  <2>2. PendingIsTracked'
    BY <1>1, <2>1, CarriesKept, TrackedFrame DEF IsPending
  <2> QED
    BY <1>0, <1>1, <2>1, <2>2 DEF TrackInv, Fresh, IsPending
<1> QED
  BY <1>2, <1>3, <1>4, <1>5, <1>6

\* No pending job waits for ever unseen: the request that creates it still
\* has to publish it, or a message will bring a worker to it, through failing
\* publishes, a lost connection, cancellation, clean-up and the duplicates
\* of the bridge.
THEOREM PendingTracked ==
    ASSUME Lossless
    PROVE  Spec => []PendingIsTracked
<1>1. Init => TrackInv
  <2> SUFFICES ASSUME Init PROVE TrackInv
    OBVIOUS
  <2>1. \A j \in Jobs : Fresh(j)
    BY JobAssumption DEF Init, Fresh, AbsentRow, NewRow, NoMessage
  <2>2. PendingIsTracked
    BY DEF Init, PendingIsTracked, IsPending, AbsentRow, NewRow
  <2> QED
    BY <2>1, <2>2, JobAssumption DEF Init, TrackInv, IdleRetrier
<1>2. TypeInv /\ TrackInv /\ [Next]_vars => TrackInv'
  <2> SUFFICES ASSUME TypeInv, TrackInv, [Next]_vars PROVE TrackInv'
    OBVIOUS
  <2>1. \A c \in Retriers : ~RetryCall(c)
    BY DEF Lossless, TrackInv, RetryCall, ReadRetryCount, ResetRow,
           PublishRetry
  <2>2. ~StopPool /\ ~Crash /\ \A m \in Msgs : ~Expire(m)
    BY DEF Lossless, StopPool, Crash, Expire
  <2> QED
    BY <2>1, <2>2, TrackClients, TrackWorkers, TrackOthers DEF Next, Step
<1>3. TrackInv => PendingIsTracked
  BY DEF TrackInv
<1> QED
  BY TypeCorrect, <1>1, <1>2, <1>3, PTL DEF Spec

-----------------------------------------------------------------------------
(* Nor is it forgotten when calls fail, messages expire and the server     *)
(* stops, as long as a reported outcome is the real one and the channel    *)
(* stays open: a message that was not settled by an Ack is still there, or *)
(* went to the dead letter queue.  A worker comes to its Ack only by       *)
(* writing a final status, so that a message whose Ack is due counts for   *)
(* nothing: the job became pending again after that, by RetryJob, which    *)
(* publishes a message of its own.                                         *)

Answered ==
    Env \cap {"dblost", "puberr", "publost", "connloss", "crash"} = {}

Remains(m, j) ==
    /\ msgs[m].loc # "none"
    /\ msgs[m].job = j
    /\ \A w \in Workers : held[w] = m => pc[w] # "ack"

\* Someone is about to publish job j.
Announced(j) ==
    \/ creator[j] = "publish"
    \/ \E c \in Retriers : retrier[c].at = "publish" /\ retrier[c].job = j

ForgetInv ==
    /\ channel = "open"
    /\ \A j \in Jobs : IsPending(j) =>
          \/ j \in SeededJobs
          \/ Announced(j)
          \/ j \in dlq
          \/ \E m \in Msgs : Remains(m, j)

\* A step after which a pending job was pending before, and what remembered
\* it still does or has put it into the dead letter queue.
LEMMA ForgetFrame ==
    ASSUME ForgetInv, channel' = "open", dlq \subseteq dlq',
           \A j \in Jobs : IsPending(j)' =>
              /\ IsPending(j)
              /\ Announced(j) =>
                    Announced(j)' \/ \E m \in Msgs : Remains(m, j)'
              /\ \A m \in Msgs : Remains(m, j) => Remains(m, j)' \/ j \in dlq'
    PROVE  ForgetInv'
  BY DEF ForgetInv

LEMMA RemainsKept ==
    ASSUME UNCHANGED <<msgs, held, pc>>
    PROVE  \A m \in Msgs, j \in Jobs : Remains(m, j) => Remains(m, j)'
  BY DEF Remains

\* The publish of a job leaves a message that no worker holds.
LEMMA RemainsPublished ==
    ASSUME TypeInv, Answered, NEW i \in Jobs, NEW n, PublishOk(i, n),
           UNCHANGED <<held, pc>>
    PROVE  /\ \A m \in Msgs, j \in Jobs : Remains(m, j) => Remains(m, j)'
           /\ \E m \in Msgs : Remains(m, i)'
<1> USE DEF TypeInv
<1>1. PICK m \in Free : msgs' = [msgs EXCEPT ![m] = Queued(i, n)]
  BY DEF PublishOk, Answered
<1>2. /\ m \in Msgs /\ msgs[m].loc = "none" /\ msgs'[m] = Queued(i, n)
      /\ \A k \in Msgs \ {m} : msgs'[k] = msgs[k]
  BY <1>1 DEF Free, TypeOK
<1>3. \A w \in Workers : held[w] # m
  BY <1>2, JobAssumption DEF DeliveryInv
<1>4. Remains(m, i)'
  BY <1>2, <1>3 DEF Remains, Queued
<1>5. ASSUME NEW k \in Msgs, NEW j \in Jobs, Remains(k, j)
      PROVE  Remains(k, j)'
  BY <1>2, <1>5 DEF Remains
<1> QED
  BY <1>2, <1>4, <1>5

\* Clients, callers of RetryJob and the bridge.
LEMMA ForgetClients ==
    ASSUME Answered, TypeInv, ForgetInv,
           \/ \E j \in Jobs : Creation(j) \/ CancelJob(j) \/ BridgePublish(j)
           \/ \E c \in Retriers : RetryCall(c)
    PROVE  ForgetInv'
<1> USE DEF TypeInv
<1>1. UNCHANGED <<dlq, channel, pc, held, job>> /\ channel = "open"
  BY DEF Creation, InsertJob, PublishCreated, FailUnpublished, CancelJob,
         BridgePublish, RetryCall, ReadRetryCount, ResetRow, PublishRetry,
         worker, broker, ForgetInv
<1>2. ASSUME NEW j \in Jobs, InsertJob(j) PROVE ForgetInv'
  <2>1. UNCHANGED <<msgs, retrier>>
    BY <1>2 DEF InsertJob, broker
  <2>2. \/ rows' = rows
        \/ /\ rows' = [rows EXCEPT ![j] = NewRow]
           /\ creator' = [creator EXCEPT ![j] = "publish"]
    BY <1>2 DEF InsertJob, Store, Answered
  <2>3. \A k \in Jobs : creator[k] = "publish" => creator'[k] = "publish"
    BY <1>2 DEF InsertJob, TypeOK
  <2>4. \A k \in Jobs : Announced(k) => Announced(k)'
    BY <2>1, <2>3 DEF Announced
  <2>5. \A k \in Jobs : \/ IsPending(k)' => IsPending(k)
                        \/ Announced(k)'
    BY <2>2 DEF Announced, IsPending, TypeOK
  <2> QED
    BY <1>1, <2>1, <2>4, <2>5, RemainsKept DEF ForgetInv
<1>3. ASSUME NEW j \in Jobs, PublishCreated(j) PROVE ForgetInv'
  <2>1. rows' = rows /\ retrier' = retrier
    BY <1>3 DEF PublishCreated
  <2>2. PublishOk(j, 0)
    BY <1>1, <1>3 DEF PublishCreated, PublishFails, Answered
  <2>3. \A k \in Jobs \ {j} : creator'[k] = creator[k]
    BY <1>3 DEF PublishCreated, TypeOK
  <2>4. \A k \in Jobs \ {j} : Announced(k) => Announced(k)'
    BY <2>1, <2>3 DEF Announced
  <2> QED
    BY <1>1, <2>1, <2>2, <2>4, RemainsPublished, ForgetFrame DEF IsPending
<1>4. ASSUME NEW j \in Jobs, FailUnpublished(j) \/ CancelJob(j)
      PROVE  ForgetInv'
  <2>1. UNCHANGED <<msgs, retrier>>
    BY <1>4 DEF FailUnpublished, CancelJob, broker, server
  <2>2. \A k \in Jobs : creator[k] = "publish" => creator'[k] = "publish"
    BY <1>4 DEF FailUnpublished, CancelJob, server, TypeOK
  <2>3. \/ rows' = rows
        \/ rows' = [rows EXCEPT ![j] = Failed(rows[j])]
        \/ rows' = [rows EXCEPT ![j] = Canceled(rows[j])]
    BY <1>4, AnyUpdate DEF FailUnpublished, CancelJob
  <2>4. rows[j] \in Row
    BY DEF TypeOK
  <2>5. /\ Failed(rows[j]).status # "pending"
        /\ Canceled(rows[j]).status # "pending"
    BY <2>4, Columns
  <2>6. \A k \in Jobs : rows'[k] = rows[k] \/ rows'[k].status # "pending"
    <3>1. CASE rows' = rows
      BY <3>1
    <3>2. CASE rows' = [rows EXCEPT ![j] = Failed(rows[j])]
      BY <2>5, <3>2 DEF TypeOK
    <3>3. CASE rows' = [rows EXCEPT ![j] = Canceled(rows[j])]
      BY <2>5, <3>3 DEF TypeOK
    <3> QED
      BY <2>3, <3>1, <3>2, <3>3
  <2>7. \A k \in Jobs : IsPending(k)' => IsPending(k)
    BY <2>6 DEF IsPending
  <2> QED
    BY <1>1, <2>1, <2>2, <2>7, RemainsKept, ForgetFrame DEF Announced
<1>5. ASSUME NEW j \in Jobs, BridgePublish(j) PROVE ForgetInv'
  <2>1. UNCHANGED <<rows, creator, retrier>>
    BY <1>5 DEF BridgePublish, server
  <2>2. PublishOk(j, 0)
    BY <1>5 DEF BridgePublish, Answered
  <2> QED
    BY <1>1, <2>1, <2>2, RemainsPublished, ForgetFrame
       DEF Announced, IsPending
<1>6. ASSUME NEW c \in Retriers, ResetRow(c) PROVE ForgetInv'
  <2>1. UNCHANGED <<msgs, creator>> /\ retrier[c].at = "update"
    BY <1>6 DEF ResetRow, broker
  <2>2. PICK j \in Jobs : j = retrier[c].job
    BY <2>1 DEF DeliveryInv
  <2>3. \/ rows' = rows
        \/ /\ rows' = [rows EXCEPT ![j] = Retried(rows[j])]
           /\ retrier' = [retrier EXCEPT ![c].at = "publish"]
    BY <1>6, <2>2 DEF ResetRow, UpdateOk, UpdateError, Store, Answered
  <2>4. \A d \in Retriers : d # c => retrier'[d] = retrier[d]
    BY <1>6 DEF ResetRow, TypeOK
  <2>5. \A k \in Jobs : Announced(k) => Announced(k)'
    BY <2>1, <2>4 DEF Announced
  <2>6. \A k \in Jobs : \/ IsPending(k)' => IsPending(k)
                        \/ Announced(k)'
    <3>1. CASE rows' = rows
      BY <3>1 DEF IsPending
    <3>2. CASE rows' # rows
      <4>1. retrier'[c].at = "publish" /\ retrier'[c].job = j
        BY <2>2, <2>3, <3>2 DEF TypeOK
      <4>2. Announced(j)'
        BY <4>1 DEF Announced
      <4>3. \A k \in Jobs : k # j => rows'[k] = rows[k]
        BY <2>3, <3>2 DEF TypeOK
      <4> QED
        BY <4>2, <4>3 DEF IsPending
    <3> QED
      BY <3>1, <3>2
  <2> QED
    BY <1>1, <2>1, <2>5, <2>6, RemainsKept DEF ForgetInv
<1>7. ASSUME NEW c \in Retriers, PublishRetry(c) PROVE ForgetInv'
  <2>1. UNCHANGED <<rows, creator>> /\ retrier[c].at = "publish"
    BY <1>7 DEF PublishRetry
  <2>2. PICK j \in Jobs : j = retrier[c].job
    BY <2>1 DEF DeliveryInv
  <2>3. PublishOk(j, retrier[c].count + 1)
    BY <1>1, <1>7, <2>2 DEF PublishRetry, PublishFails, Answered
  <2>4. \A d \in Retriers : d # c => retrier'[d] = retrier[d]
    BY <1>7 DEF PublishRetry, TypeOK
  <2>5. \A k \in Jobs \ {j} : Announced(k) => Announced(k)'
    BY <2>1, <2>2, <2>4 DEF Announced
  <2> QED
    BY <1>1, <2>1, <2>3, <2>5, RemainsPublished, ForgetFrame DEF IsPending
<1>8. ASSUME NEW c \in Retriers, NEW j \in Jobs, ReadRetryCount(c, j)
      PROVE  ForgetInv'
  <2>1. UNCHANGED <<rows, msgs, creator>> /\ retrier[c].at = "idle"
    BY <1>8 DEF ReadRetryCount, broker
  <2>2. \A d \in Retriers : d # c => retrier'[d] = retrier[d]
    BY <1>8 DEF ReadRetryCount, TypeOK
  <2>3. \A k \in Jobs : Announced(k) => Announced(k)'
    BY <2>1, <2>2 DEF Announced
  <2> QED
    BY <1>1, <2>1, <2>3, RemainsKept, ForgetFrame DEF IsPending
<1> QED
  BY <1>2, <1>3, <1>4, <1>5, <1>6, <1>7, <1>8 DEF Creation, RetryCall

\* A worker: it settles a message of a job that is not pending any more, or
\* puts it into the dead letter queue.
LEMMA ForgetWorkers ==
    ASSUME Answered, TypeInv, ForgetInv, NEW w \in Workers, Handler(w)
    PROVE  ForgetInv'
<1> USE DEF TypeInv
<1>1. UNCHANGED <<channel, creator, retrier>> /\ channel = "open"
  BY DEF Handler, GetJob, StartJob, ReportStarted, ScrapePage, ReportScraped,
         CompleteJob, FailJob, Republish, Ack, Nack, Settle, StopConsuming,
         server, broker, ForgetInv
<1>2. \A k \in Jobs : Announced(k) => Announced(k)'
  BY <1>1 DEF Announced
<1>3. CASE GetJob(w) \/ StopConsuming(w) \/ ScrapePage(w)
  <2>1. UNCHANGED <<rows, msgs, dlq, held>>
    BY <1>3 DEF GetJob, StopConsuming, ScrapePage, broker
  <2>2. PICK l : Goto(w, l) /\ l # "ack"
    BY <1>3 DEF GetJob, StopConsuming, ScrapePage
  <2>3. \A m \in Msgs, k \in Jobs : Remains(m, k) => Remains(m, k)'
    BY <2>1, <2>2 DEF Remains, Goto, TypeOK
  <2> QED
    BY <1>1, <1>2, <2>1, <2>3, ForgetFrame DEF IsPending
<1>4. CASE \/ StartJob(w) \/ ReportStarted(w) \/ ReportScraped(w)
           \/ CompleteJob(w) \/ FailJob(w)
  <2>1. PICK j \in Jobs : j = job[w]
    BY <1>4 DEF StartJob, ReportStarted, ReportScraped, CompleteJob, FailJob,
                DeliveryInv
  <2>2. /\ UNCHANGED <<msgs, dlq, held>>
        /\ pc[w] \in {"start", "options", "scraped", "complete", "fail"}
    BY <1>4 DEF StartJob, ReportStarted, ReportScraped, CompleteJob, FailJob,
                broker
  <2>3. PICK l : Goto(w, l)
    BY <1>4 DEF StartJob, ReportStarted, ReportScraped, CompleteJob, FailJob
  <2>4. \/ rows' = rows /\ l # "ack"
        \/ \E r \in {Started(rows[j]), Progressed(rows[j], 10),
                     Progressed(rows[j], 90)} :
              rows' = [rows EXCEPT ![j] = r] /\ l # "ack"
        \/ \E r \in {Completed(rows[j]), Failed(rows[j])} :
              rows' = [rows EXCEPT ![j] = r]
    <3>1. CASE StartJob(w)
      BY <2>1, <2>3, <3>1, AnyUpdate DEF StartJob, Goto, TypeOK
    <3>2. CASE ReportStarted(w)
      BY <2>1, <2>3, <3>2, AnyUpdate DEF ReportStarted, Goto, TypeOK
    <3>3. CASE ReportScraped(w)
      BY <2>1, <2>3, <3>3, AnyUpdate DEF ReportScraped, Goto, TypeOK
    <3>4. CASE CompleteJob(w)
      BY <2>1, <2>3, <3>4, AnyUpdate
         DEF CompleteJob, Goto, TypeOK, WorkerUpdateOk, UpdateOk, Store
    <3>5. CASE FailJob(w)
      BY <2>1, <2>3, <3>5, AnyUpdate
         DEF FailJob, Goto, TypeOK, WorkerUpdateOk, UpdateOk, Store
    <3> QED
      BY <1>4, <3>1, <3>2, <3>3, <3>4, <3>5
  <2>5. \A k \in Jobs : IsPending(k)' => IsPending(k) /\ (l = "ack" => k # j)
    <3>1. \A k \in Jobs \ {j} : rows'[k] = rows[k]
      BY <2>4 DEF TypeOK
    <3>2. rows'[j].status = "pending" => IsPending(j) /\ l # "ack"
      <4>1. /\ Started(rows[j]).status # "pending"
            /\ Progressed(rows[j], 10).status = rows[j].status
            /\ Progressed(rows[j], 90).status = rows[j].status
            /\ Completed(rows[j]).status # "pending"
            /\ Failed(rows[j]).status # "pending"
        BY Columns DEF TypeOK
      <4> QED
        BY <2>4, <4>1 DEF IsPending, TypeOK
    <3> QED
      BY <3>1, <3>2 DEF IsPending
  <2>6. \A k \in Jobs, m \in Msgs :
           (l = "ack" => k # j) /\ Remains(m, k) => Remains(m, k)'
    <3>1. held[w] # NoMsg => msgs[held[w]].job = j
      BY <2>1, <2>2 DEF DeliveryInv
    <3>2. \A m \in Msgs : m # NoMsg
      BY JobAssumption
    <3> QED
      BY <2>2, <2>3, <3>1, <3>2 DEF Remains, Goto, TypeOK
  <2> QED
    BY <1>1, <1>2, <2>2, <2>5, <2>6, ForgetFrame
<1>5. CASE Republish(w)
  <2>1. UNCHANGED <<rows, dlq, held>> /\ pc[w] = "error"
    BY <1>5 DEF Republish
  <2>2. PICK j \in Jobs : j = job[w]
    BY <2>1 DEF DeliveryInv
  <2>3. Goto(w, "nack")
    BY <1>5 DEF Republish
  <2>4. (\E n : PublishOk(j, n)) \/ msgs' = msgs
    BY <1>5, <2>2 DEF Republish
  <2>5. \A m \in Msgs : msgs'[m] = msgs[m] \/ msgs[m].loc = "none"
    BY <2>4, PublishFrame DEF TypeOK
  <2>6. \A m \in Msgs, k \in Jobs : Remains(m, k) => Remains(m, k)'
    BY <2>1, <2>3, <2>5 DEF Remains, Goto, TypeOK
  <2> QED
    BY <1>1, <1>2, <2>1, <2>6, ForgetFrame DEF IsPending
<1>6. CASE Ack(w) \/ Nack(w)
  <2>1. rows' = rows /\ pc[w] \in {"ack", "nack"}
    BY <1>6 DEF Ack, Nack, Settle
  <2>2. PICK j \in Jobs : j = job[w]
    BY <2>1 DEF DeliveryInv
  <2>3. held[w] \in Msgs /\ held[w] # NoMsg /\ msgs[held[w]].job = j
    BY <1>1, <2>1, <2>2 DEF DeliveryInv, TypeOK
  <2>4. /\ msgs' = [msgs EXCEPT ![held[w]] = NoMessage]
        /\ held' = [held EXCEPT ![w] = NoMsg]
        /\ Goto(w, "idle")
        /\ dlq \subseteq dlq'
        /\ pc[w] = "nack" => j \in dlq'
    BY <1>6, <2>2, <2>3 DEF Ack, Nack, Settle
  <2>5. ASSUME NEW k \in Jobs, NEW m \in Msgs, Remains(m, k)
        PROVE  Remains(m, k)' \/ k \in dlq'
    <3>1. CASE m = held[w]
      BY <2>1, <2>3, <2>4, <2>5, <3>1 DEF Remains
    <3>2. CASE m # held[w]
      <4>1. msgs'[m] = msgs[m]
        BY <2>4, <3>2 DEF TypeOK
      <4>2. \A v \in Workers : held'[v] = m => v # w /\ held[v] = m
                                               /\ pc'[v] = pc[v]
        BY <2>4, JobAssumption DEF Goto, TypeOK
      <4> QED
        BY <2>5, <4>1, <4>2 DEF Remains
    <3> QED
      BY <3>1, <3>2
  <2> QED
    BY <1>1, <1>2, <2>1, <2>4, <2>5, ForgetFrame DEF IsPending
<1> QED
  BY <1>3, <1>4, <1>5, <1>6 DEF Handler

\* The broker, the clean-up and the bridge's poll.
LEMMA ForgetOthers ==
    ASSUME Answered, TypeInv, ForgetInv,
           \/ Cleanup \/ BridgePoll \/ StopPool \/ UNCHANGED vars
           \/ \E m \in Msgs : Expire(m)
           \/ \E w \in Workers, m \in Msgs : Deliver(w, m)
    PROVE  ForgetInv'
<1> USE DEF TypeInv
<1>1. UNCHANGED <<channel, creator, retrier, pc>> /\ channel = "open"
  BY DEF Cleanup, BridgePoll, StopPool, vars, Expire, Deliver, server, broker,
         worker, ForgetInv
<1>2. \A k \in Jobs : Announced(k) => Announced(k)'
  BY <1>1 DEF Announced
<1>3. CASE Cleanup \/ BridgePoll \/ StopPool \/ UNCHANGED vars
  <2>1. UNCHANGED <<msgs, dlq, held>>
    BY <1>3 DEF Cleanup, BridgePoll, StopPool, vars, broker, worker
  <2>2. \A k \in Jobs : rows'[k] = rows[k] \/ rows'[k] = AbsentRow
    BY <1>3 DEF Cleanup, BridgePoll, StopPool, vars
  <2>3. \A k \in Jobs : IsPending(k)' => IsPending(k)
    BY <2>2 DEF IsPending, AbsentRow
  <2> QED
    BY <1>1, <1>2, <2>1, <2>3, RemainsKept, ForgetFrame
<1>4. ASSUME NEW m \in Msgs, Expire(m) PROVE ForgetInv'
  <2>1. /\ UNCHANGED <<rows, held>>
        /\ msgs' = [msgs EXCEPT ![m] = NoMessage]
        /\ dlq' = dlq \cup {msgs[m].job}
    BY <1>4 DEF Expire, worker
  <2>2. \A n \in Msgs, k \in Jobs :
           Remains(n, k) => Remains(n, k)' \/ k \in dlq'
    BY <1>1, <2>1 DEF Remains, TypeOK
  <2> QED
    BY <1>1, <1>2, <2>1, <2>2, ForgetFrame DEF IsPending
<1>5. ASSUME NEW w \in Workers, NEW m \in Msgs, Deliver(w, m)
      PROVE  ForgetInv'
  <2>1. /\ UNCHANGED <<rows, dlq>>
        /\ held[w] = NoMsg
        /\ msgs' = [msgs EXCEPT ![m].loc = "unacked"]
        /\ held' = [held EXCEPT ![w] = m]
    BY <1>5 DEF Deliver
  <2>2. pc[w] # "ack"
    BY <1>1, <2>1 DEF DeliveryInv
  <2>3. \A n \in Msgs : /\ msgs'[n].job = msgs[n].job
                        /\ msgs[n].loc # "none" => msgs'[n].loc # "none"
    BY <2>1 DEF TypeOK, Message
  <2>4. \A n \in Msgs, k \in Jobs : Remains(n, k) => Remains(n, k)'
    BY <1>1, <2>1, <2>2, <2>3 DEF Remains, TypeOK
  <2> QED
    BY <1>1, <1>2, <2>1, <2>4, ForgetFrame DEF IsPending
<1> QED
  BY <1>3, <1>4, <1>5

\* A pending job is announced, has a message, or is on the dead letter queue,
\* whatever database errors, expiry and shutdown do to its messages, while
\* clients cancel and retry it, rows are deleted and the bridge runs.
THEOREM NeverForgotten ==
    ASSUME Answered
    PROVE  Spec => []PendingNotForgotten
<1>1. Init => ForgetInv
  BY DEF Init, ForgetInv, IsPending, AbsentRow, NewRow
<1>2. TypeInv /\ ForgetInv /\ [Next]_vars => ForgetInv'
  <2> SUFFICES ASSUME TypeInv, ForgetInv, [Next]_vars PROVE ForgetInv'
    OBVIOUS
  <2>1. ~LoseConnection /\ ~Crash
    BY DEF Answered, LoseConnection, Crash
  <2> QED
    BY <2>1, ForgetClients, ForgetWorkers, ForgetOthers DEF Next, Step
<1>3. ForgetInv => PendingNotForgotten
  BY DEF ForgetInv, PendingNotForgotten, Announced, Remains
<1> QED
  BY TypeCorrect, <1>1, <1>2, <1>3, PTL DEF Spec

-----------------------------------------------------------------------------
(* A job that no worker has.  The check of ProcessJobFromQueue keeps every  *)
(* worker from it, and the workers that write rows have other jobs.         *)

\* What a step may do to an unattended job.
LeftAlone(j) ==
    /\ rows'[j] \in {rows[j], Canceled(rows[j]), AbsentRow}
    /\ \A w \in Workers : ~Claims(w, j)'

ClaimedAt == {"start", "options", "scrape", "scraped", "complete", "fail"}

LEMMA ClaimsByPlace ==
    \A w \in Workers, j \in Jobs : Claims(w, j) <=> job[w] = j /\ pc[w] \in ClaimedAt
  BY DEF Claims, Executing, ClaimedAt

\* A step of no worker.
LEMMA UnclaimedStands ==
    ASSUME NEW j \in Jobs, Unattended(j), UNCHANGED <<pc, job>>
    PROVE  \A w \in Workers : ~Claims(w, j)'
  BY DEF Unattended, Claims, Executing

\* A step of a worker that has another job, or that comes to have none.
LEMMA UnclaimedMoves ==
    ASSUME TypeOK, NEW j \in Jobs, Unattended(j),
           NEW w \in Workers, NEW l \in Labels, Goto(w, l),
           \A v \in Workers \ {w} : job'[v] = job[v],
           job'[w] # j \/ l \notin ClaimedAt
    PROVE  \A v \in Workers : ~Claims(v, j)'
<1> TAKE v \in Workers
<1>1. pc' = [pc EXCEPT ![w] = l]
  BY DEF Goto
<1>2. CASE v = w
  <2>1. pc'[v] = l /\ ~(job'[v] = j /\ l \in ClaimedAt)
    BY <1>1, <1>2 DEF TypeOK
  <2> QED
    BY <2>1 DEF Claims, Executing, ClaimedAt
<1>3. CASE v # w
  <2>1. pc'[v] = pc[v] /\ job'[v] = job[v]
    BY <1>1, <1>3 DEF TypeOK
  <2> QED
    BY <2>1 DEF Unattended, Claims, Executing
<1> QED
  BY <1>2, <1>3

\* A worker that writes has claimed its own job, so writes another row.
LEMMA WriterElsewhere ==
    ASSUME TypeOK, NEW j \in Jobs, Unattended(j), NEW w \in Workers,
           pc[w] \in ClaimedAt
    PROVE  job[w] # j /\ \A r : [rows EXCEPT ![job[w]] = r][j] = rows[j]
<1>1. job[w] # j
  BY ClaimsByPlace DEF Unattended
<1> QED
  BY <1>1 DEF TypeOK

LEMMA AloneClients ==
    ASSUME TypeInv, NEW j \in Jobs, Unattended(j),
           \/ \E k \in Jobs : \/ Creation(k) \/ CancelJob(k)
                              \/ BridgePublish(k)
           \/ \E c \in Retriers : RetryCall(c)
           \/ Cleanup \/ BridgePoll
    PROVE  LeftAlone(j)
<1> USE DEF TypeInv
<1>0. ASSUME UNCHANGED <<pc, job>>,
             rows'[j] \in {rows[j], Canceled(rows[j]), AbsentRow}
      PROVE  LeftAlone(j)
  BY <1>0, UnclaimedStands DEF LeftAlone
<1>1. ASSUME NEW k \in Jobs, NEW r, k # j,
             rows' = rows \/ rows' = [rows EXCEPT ![k] = r]
      PROVE  rows'[j] = rows[j]
  BY <1>1 DEF TypeOK
<1>2. ASSUME NEW k \in Jobs, Creation(k) PROVE LeftAlone(j)
  <2>1. CASE InsertJob(k)
    <3>1. k # j
      BY <2>1 DEF InsertJob, Unattended
    <3>2. rows' = rows \/ rows' = [rows EXCEPT ![k] = NewRow]
      BY <2>1 DEF InsertJob, Store
    <3> QED
      BY <1>0, <1>1, <2>1, <3>1, <3>2 DEF InsertJob, worker
  <2>2. CASE PublishCreated(k)
    BY <1>0, <2>2 DEF PublishCreated, worker
  <2>3. CASE FailUnpublished(k)
    <3>1. k # j
      BY <2>3 DEF FailUnpublished, Unattended
    <3>2. rows' = rows \/ rows' = [rows EXCEPT ![k] = Failed(rows[k])]
      BY <2>3, AnyUpdate DEF FailUnpublished
    <3> QED
      BY <1>0, <1>1, <2>3, <3>1, <3>2 DEF FailUnpublished, worker
  <2> QED
    BY <1>2, <2>1, <2>2, <2>3 DEF Creation
<1>3. ASSUME NEW k \in Jobs, CancelJob(k) PROVE LeftAlone(j)
  <2>1. rows' = [rows EXCEPT ![k] = Canceled(rows[k])]
    BY <1>3 DEF CancelJob, UpdateOk, Store
  <2>2. rows'[j] \in {rows[j], Canceled(rows[j])}
    BY <2>1 DEF TypeOK
  <2> QED
    BY <1>0, <1>3, <2>2 DEF CancelJob, worker
<1>4. ASSUME NEW k \in Jobs, BridgePublish(k) PROVE LeftAlone(j)
  BY <1>0, <1>4 DEF BridgePublish, worker
<1>5. ASSUME NEW c \in Retriers, RetryCall(c) PROVE LeftAlone(j)
  <2>1. ASSUME NEW k \in Jobs, ReadRetryCount(c, k) PROVE LeftAlone(j)
    BY <1>0, <2>1 DEF ReadRetryCount, worker
  <2>2. CASE ResetRow(c)
    <3> DEFINE k == retrier[c].job
    <3>1. k \in Jobs /\ k # j
      BY <2>2 DEF ResetRow, Unattended, DeliveryInv
    <3>2. rows' = rows \/ rows' = [rows EXCEPT ![k] = Retried(rows[k])]
      BY <2>2, <3>1, AnyUpdate DEF ResetRow
    <3> QED
      BY <1>0, <1>1, <2>2, <3>1, <3>2 DEF ResetRow, worker
  <2>3. CASE PublishRetry(c)
    BY <1>0, <2>3 DEF PublishRetry, worker
  <2> QED
    BY <1>5, <2>1, <2>2, <2>3 DEF RetryCall
<1>6. CASE Cleanup
  <2>1. rows'[j] \in {rows[j], AbsentRow}
    BY <1>6 DEF Cleanup
  <2> QED
    BY <1>0, <1>6, <2>1 DEF Cleanup, worker
<1>7. CASE BridgePoll
  BY <1>0, <1>7 DEF BridgePoll, worker
<1> QED
  BY <1>2, <1>3, <1>4, <1>5, <1>6, <1>7

LEMMA AloneWorkers ==
    ASSUME TypeInv, NEW j \in Jobs, Unattended(j),
           NEW w \in Workers, Handler(w)
    PROVE  LeftAlone(j)
<1> USE DEF TypeInv
<1>0. ASSUME NEW l \in Labels, Goto(w, l), job' = job,
             pc[w] \in ClaimedAt, NEW r,
             rows' = rows \/ rows' = [rows EXCEPT ![job[w]] = r]
      PROVE  LeftAlone(j)
  <2>1. job[w] # j /\ \A x : [rows EXCEPT ![job[w]] = x][j] = rows[j]
    BY <1>0, WriterElsewhere
  <2>2. rows'[j] = rows[j]
    BY <1>0, <2>1, Zenon
  <2> QED
    BY <1>0, <2>1, <2>2, UnclaimedMoves DEF LeftAlone
<1>1. ASSUME NEW l \in Labels \ ClaimedAt, Goto(w, l), rows' = rows,
             \A v \in Workers \ {w} : job'[v] = job[v]
      PROVE  LeftAlone(j)
  BY <1>1, UnclaimedMoves DEF LeftAlone
<1>2. ASSUME pc[w] \in ClaimedAt PROVE job[w] \in Jobs
  BY <1>2 DEF DeliveryInv, ClaimedAt
<1>3. CASE GetJob(w)
  <2> DEFINE k == msgs[held[w]].job
  <2>1. /\ job' = [job EXCEPT ![w] = k] /\ rows' = rows
        /\ (IsPending(k) /\ Goto(w, "start")) \/ Goto(w, "error")
    BY <1>3 DEF GetJob
  <2>2. \A v \in Workers \ {w} : job'[v] = job[v]
    BY <2>1 DEF TypeOK
  <2>3. CASE IsPending(k) /\ Goto(w, "start")
    <3>1. k # j /\ job'[w] = k
      BY <2>1, <2>3 DEF Unattended, TypeOK
    <3> QED
      BY <2>1, <2>2, <2>3, <3>1, UnclaimedMoves DEF LeftAlone, Labels
  <2>4. CASE Goto(w, "error")
    BY <1>1, <2>1, <2>2, <2>4 DEF Labels, ClaimedAt
  <2> QED
    BY <2>1, <2>3, <2>4
<1>4. CASE StartJob(w)
  <2>1. pc[w] \in ClaimedAt /\ job' = job
    BY <1>4 DEF StartJob, ClaimedAt
  <2>2. /\ rows' = rows \/ rows' = [rows EXCEPT ![job[w]] = Started(rows[job[w]])]
        /\ \E l \in Labels : Goto(w, l)
    BY <1>2, <1>4, <2>1, AnyUpdate DEF StartJob, Labels
  <2> QED
    BY <1>0, <2>1, <2>2
<1>5. CASE ReportStarted(w)
  <2>1. pc[w] \in ClaimedAt /\ job' = job
    BY <1>5 DEF ReportStarted, ClaimedAt
  <2>2. /\ \/ rows' = rows
           \/ rows' = [rows EXCEPT ![job[w]] = Progressed(rows[job[w]], 10)]
        /\ \E l \in Labels : Goto(w, l)
    BY <1>2, <1>5, <2>1, AnyUpdate DEF ReportStarted, Labels
  <2> QED
    BY <1>0, <2>1, <2>2
<1>6. CASE ScrapePage(w)
  <2>1. pc[w] \in ClaimedAt /\ job' = job /\ rows' = rows
    BY <1>6 DEF ScrapePage, ClaimedAt
  <2>2. \E l \in Labels : Goto(w, l)
    BY <1>6 DEF ScrapePage, Labels
  <2> QED
    BY <1>0, <2>1, <2>2
<1>7. CASE ReportScraped(w)
  <2>1. pc[w] \in ClaimedAt /\ job' = job
    BY <1>7 DEF ReportScraped, ClaimedAt
  <2>2. /\ \/ rows' = rows
           \/ rows' = [rows EXCEPT ![job[w]] = Progressed(rows[job[w]], 90)]
        /\ \E l \in Labels : Goto(w, l)
    BY <1>2, <1>7, <2>1, AnyUpdate DEF ReportScraped, Labels
  <2> QED
    BY <1>0, <2>1, <2>2
<1>8. CASE CompleteJob(w)
  <2>1. pc[w] \in ClaimedAt /\ job' = job
    BY <1>8 DEF CompleteJob, ClaimedAt
  <2>2. /\ rows' = rows \/ rows' = [rows EXCEPT ![job[w]] = Completed(rows[job[w]])]
        /\ \E l \in Labels : Goto(w, l)
    BY <1>2, <1>8, <2>1, AnyUpdate DEF CompleteJob, Labels
  <2> QED
    BY <1>0, <2>1, <2>2
<1>9. CASE FailJob(w)
  <2>1. pc[w] \in ClaimedAt /\ job' = job
    BY <1>9 DEF FailJob, ClaimedAt
  <2>2. /\ rows' = rows \/ rows' = [rows EXCEPT ![job[w]] = Failed(rows[job[w]])]
        /\ \E l \in Labels : Goto(w, l)
    BY <1>2, <1>9, <2>1, AnyUpdate DEF FailJob, Labels
  <2> QED
    BY <1>0, <2>1, <2>2
<1>10. CASE Republish(w)
  BY <1>1, <1>10 DEF Republish, Labels, ClaimedAt
<1>11. CASE Ack(w) \/ Nack(w)
  <2>1. /\ Goto(w, "idle") /\ rows' = rows
        /\ job' = [job EXCEPT ![w] = NoJob]
    BY <1>11 DEF Ack, Nack, Settle
  <2>2. \A v \in Workers \ {w} : job'[v] = job[v]
    BY <2>1 DEF TypeOK
  <2> QED
    BY <1>1, <2>1, <2>2 DEF Labels, ClaimedAt
<1>12. CASE StopConsuming(w)
  BY <1>1, <1>12 DEF StopConsuming, Labels, ClaimedAt
<1> QED
  BY <1>3, <1>4, <1>5, <1>6, <1>7, <1>8, <1>9, <1>10, <1>11, <1>12 DEF Handler

\* A job that no worker has is left alone, in every environment: with
\* duplicates of its messages, cancellations, crashes and lost replies.
\* CancelJob and the checks of the workers do not lock the row; what keeps
\* them apart is that a worker past the check still has its job.
THEOREM UnattendedLeftAlone == Spec => UnattendedStands
<1>1. TypeInv /\ [Next]_vars =>
         [\A j \in Jobs : Unattended(j) =>
             /\ rows'[j] \in {rows[j], Canceled(rows[j]), AbsentRow}
             /\ \A w \in Workers : ~Claims(w, j)']_vars
  <2> SUFFICES ASSUME TypeInv, Next, NEW j \in Jobs, Unattended(j)
               PROVE  LeftAlone(j)
    BY DEF LeftAlone
  <2>1. ASSUME UNCHANGED <<rows, pc, job>> PROVE LeftAlone(j)
    BY <2>1, UnclaimedStands DEF LeftAlone
  <2>2. CASE \E w \in Workers : Handler(w)
    BY <2>2, AloneWorkers
  <2>3. CASE \E w \in Workers, m \in Msgs : Deliver(w, m)
    BY <2>1, <2>3 DEF Deliver
  <2>4. CASE \E m \in Msgs : Expire(m)
    BY <2>1, <2>4 DEF Expire, worker
  <2>5. CASE StopPool \/ LoseConnection
    BY <2>1, <2>5 DEF StopPool, LoseConnection, worker
  <2>6. CASE Crash
    BY <2>6 DEF Crash, LeftAlone, Claims, Executing
  <2> QED
    BY <2>2, <2>3, <2>4, <2>5, <2>6, AloneClients DEF Next, Step
<1> QED
  BY TypeCorrect, <1>1, PTL DEF Spec, UnattendedStands

-----------------------------------------------------------------------------
(* How often a message can go round.  ConsumeJobs counts the rounds in the  *)
(* message, up to the literal 3; RetryJob puts its own count there, which   *)
(* it read before it reset the row.                                         *)

Rounds(n) == n <= RetryLimit \/ n <= MaxJobRetries

\* No message carries more rounds than the two limits allow.
RoundsBounded == \A m \in Msgs : Rounds(msgs[m].retry)

RoundsInv ==
    /\ RoundsBounded
    /\ \A c \in Retriers : retrier[c].at # "idle" =>
          MayRetry(retrier[c].count)

LEMMA RoundsFrame ==
    ASSUME RoundsInv, UNCHANGED <<msgs, retrier>>
    PROVE  RoundsInv'
  BY DEF RoundsInv, RoundsBounded

\* A message that was published, with few enough rounds.
LEMMA RoundsPublished ==
    ASSUME TypeOK, RoundsInv, NEW j, NEW n, Rounds(n),
           PublishOk(j, n) \/ UNCHANGED msgs
    PROVE  RoundsBounded'
<1>1. CASE UNCHANGED msgs
  BY <1>1 DEF RoundsInv, RoundsBounded
<1>2. ASSUME NEW m \in Free, msgs' = [msgs EXCEPT ![m] = Queued(j, n)]
      PROVE  RoundsBounded'
  <2>1. \A k \in Msgs : msgs'[k] = IF k = m THEN Queued(j, n) ELSE msgs[k]
    BY <1>2 DEF TypeOK
  <2>2. Queued(j, n).retry = n
    BY DEF Queued
  <2> QED
    BY <2>1, <2>2 DEF RoundsInv, RoundsBounded
<1> QED
  BY <1>1, <1>2 DEF PublishOk

\* Messages that are taken, requeued or dropped keep their rounds.
LEMMA RoundsKept ==
    ASSUME RoundsInv, UNCHANGED retrier,
           \A m \in Msgs : msgs'[m].retry \in {msgs[m].retry, 0}
    PROVE  RoundsInv'
  BY BoundAssumption DEF RoundsInv, RoundsBounded, Rounds

LEMMA RoundsClients ==
    ASSUME TypeOK, RoundsInv,
           \/ \E j \in Jobs : Creation(j) \/ CancelJob(j) \/ BridgePublish(j)
           \/ \E c \in Retriers : RetryCall(c)
           \/ Cleanup \/ BridgePoll
    PROVE  RoundsInv'
<1>0. Rounds(0)
  BY BoundAssumption DEF Rounds, RetryLimit
<1>1. ASSUME NEW j \in Jobs, Creation(j) \/ CancelJob(j) \/ BridgePublish(j)
      PROVE  RoundsInv'
  <2>1. UNCHANGED retrier /\ (PublishOk(j, 0) \/ UNCHANGED msgs)
    BY <1>1 DEF Creation, InsertJob, PublishCreated, FailUnpublished,
                CancelJob, BridgePublish, broker, server
  <2> QED
    BY <1>0, <2>1, RoundsPublished DEF RoundsInv
<1>2. ASSUME NEW c \in Retriers, NEW j \in Jobs, ReadRetryCount(c, j)
      PROVE  RoundsInv'
  <2>1. /\ UNCHANGED msgs /\ MayRetry(rows[j].retry_count)
        /\ retrier' = [retrier EXCEPT ![c] = [at |-> "update", job |-> j,
                                             count |-> rows[j].retry_count]]
    BY <1>2 DEF ReadRetryCount, broker
  <2>2. \A d \in Retriers : d # c => retrier'[d] = retrier[d]
    BY <2>1 DEF TypeOK
  <2>3. retrier'[c].count = rows[j].retry_count
    BY <2>1 DEF TypeOK
  <2> QED
    BY <2>1, <2>2, <2>3 DEF RoundsInv, RoundsBounded, MayRetry
<1>3. ASSUME NEW c \in Retriers, ResetRow(c) \/ PublishRetry(c)
      PROVE  RoundsInv'
  <2>1. \/ retrier' = [retrier EXCEPT ![c] = IdleRetrier]
        \/ retrier' = [retrier EXCEPT ![c].at = "publish"]
    BY <1>3 DEF ResetRow, PublishRetry
  <2>2. retrier[c].at # "idle" /\ retrier[c].count \in Nat
    BY <1>3 DEF ResetRow, PublishRetry, TypeOK
  <2>3. \A d \in Retriers : /\ d # c => retrier'[d] = retrier[d]
                            /\ retrier'[d].at # "idle" =>
                                  retrier'[d].count = retrier[d].count
    BY <2>1 DEF TypeOK, IdleRetrier
  <2>4. Rounds(retrier[c].count + 1)
    BY <2>2, BoundAssumption DEF RoundsInv, MayRetry, Rounds
  <2>5. PublishOk(retrier[c].job, retrier[c].count + 1) \/ UNCHANGED msgs
    BY <1>3 DEF ResetRow, PublishRetry, broker
  <2>6. RoundsBounded'
    BY <2>4, <2>5, RoundsPublished
  <2>7. \A d \in Retriers : retrier'[d].at # "idle" =>
           MayRetry(retrier'[d].count)
    BY <2>2, <2>3 DEF RoundsInv
  <2> QED
    BY <2>6, <2>7 DEF RoundsInv, MayRetry
<1>4. CASE Cleanup \/ BridgePoll
  BY <1>4, RoundsFrame DEF Cleanup, BridgePoll, broker, server
<1> QED
  BY <1>1, <1>2, <1>3, <1>4 DEF RetryCall

LEMMA RoundsWorkers ==
    ASSUME TypeInv, RoundsInv, NEW w \in Workers, Handler(w)
    PROVE  RoundsInv'
<1> USE DEF TypeInv
<1>1. CASE Republish(w)
  <2> DEFINE n == msgs[held[w]].retry
  <2>1. UNCHANGED retrier
    BY <1>1 DEF Republish, server
  <2>2. \/ UNCHANGED msgs
        \/ /\ channel = "open" /\ n < RetryLimit
           /\ PublishOk(job[w], Incremented(n))
    BY <1>1 DEF Republish
  <2>3. CASE UNCHANGED msgs
    BY <2>1, <2>3, RoundsFrame
  <2>4. CASE ~UNCHANGED msgs
    <3>1. held[w] \in Msgs
      BY <1>1, <2>2, <2>4 DEF Republish, DeliveryInv, TypeOK
    <3>2. n \in Nat
      BY <3>1 DEF TypeOK, Message
    <3> HIDE DEF n
    <3>3. Rounds(Incremented(n))
      BY <2>2, <2>4, <3>2 DEF Rounds, Incremented, RetryLimit
    <3>4. RoundsBounded'
      BY <2>2, <2>4, <3>3, RoundsPublished
    <3> QED
      BY <2>1, <3>4 DEF RoundsInv
  <2> QED
    BY <2>3, <2>4
<1>2. CASE Ack(w) \/ Nack(w)
  <2>1. /\ UNCHANGED retrier
        /\ UNCHANGED msgs \/ msgs' = [msgs EXCEPT ![held[w]] = NoMessage]
    BY <1>2 DEF Ack, Nack, Settle, server
  <2>2. \A m \in Msgs : msgs'[m].retry \in {msgs[m].retry, 0}
    BY <2>1 DEF TypeOK, NoMessage
  <2> QED
    BY <2>1, <2>2, RoundsKept
<1>3. CASE ~(Republish(w) \/ Ack(w) \/ Nack(w))
  BY <1>3, RoundsFrame
     DEF Handler, GetJob, StartJob, ReportStarted, ScrapePage, ReportScraped,
         CompleteJob, FailJob, StopConsuming, broker, server
<1> QED
  BY <1>1, <1>2, <1>3

LEMMA RoundsOthers ==
    ASSUME TypeOK, RoundsInv,
           \/ \E w \in Workers, m \in Msgs : Deliver(w, m)
           \/ \E m \in Msgs : Expire(m)
           \/ StopPool \/ LoseConnection \/ Crash \/ UNCHANGED vars
    PROVE  RoundsInv'
<1>1. ASSUME NEW w \in Workers, NEW m \in Msgs, Deliver(w, m)
      PROVE  RoundsInv'
  <2>1. /\ UNCHANGED retrier
        /\ msgs' = [msgs EXCEPT ![m].loc = "unacked"]
    BY <1>1 DEF Deliver, server
  <2>2. \A k \in Msgs : msgs'[k].retry = msgs[k].retry
    BY <2>1 DEF TypeOK, Message
  <2> QED
    BY <2>1, <2>2, RoundsKept
<1>2. ASSUME NEW m \in Msgs, Expire(m) PROVE RoundsInv'
  <2>1. UNCHANGED retrier /\ msgs' = [msgs EXCEPT ![m] = NoMessage]
    BY <1>2 DEF Expire, server
  <2>2. \A k \in Msgs : msgs'[k].retry \in {msgs[k].retry, 0}
    BY <2>1 DEF TypeOK, NoMessage
  <2> QED
    BY <2>1, <2>2, RoundsKept
<1>3. CASE LoseConnection \/ Crash
  <2>1. msgs' = Requeued(msgs)
    BY <1>3 DEF LoseConnection, Crash
  <2>2. \A m \in Msgs : msgs'[m].retry = msgs[m].retry
    BY <2>1 DEF Requeued, TypeOK, Message
  <2>3. CASE LoseConnection
    BY <2>2, <2>3, RoundsKept DEF LoseConnection, server
  <2>4. CASE Crash
    <3>1. \A c \in Retriers : retrier'[c].at = "idle"
      BY <2>4 DEF Crash, IdleRetrier
    <3> QED
      BY <2>2, <3>1 DEF RoundsInv, RoundsBounded
  <2> QED
    BY <1>3, <2>3, <2>4
<1>4. CASE StopPool \/ UNCHANGED vars
  BY <1>4, RoundsFrame DEF StopPool, vars, broker, server
<1> QED
  BY <1>1, <1>2, <1>3, <1>4

\* A message goes round three times, or as often as RetryJob may be called
\* if that is more, in every environment: no failure, duplicate or requeue
\* resets its count, and RetryJob, which works with a count it read before,
\* does not exceed it.
THEOREM RoundsEnd == Spec => []RoundsBounded
<1>1. Init => RoundsInv
  BY BoundAssumption
     DEF Init, NoMessage, IdleRetrier, RoundsInv, RoundsBounded, Rounds
<1>2. TypeInv /\ RoundsInv /\ [Next]_vars => RoundsInv'
  BY RoundsClients, RoundsWorkers, RoundsOthers DEF Next, Step, TypeInv
<1>3. RoundsInv => RoundsBounded
  BY DEF RoundsInv
<1> QED
  BY TypeCorrect, <1>1, <1>2, <1>3, PTL DEF Spec

=============================================================================
