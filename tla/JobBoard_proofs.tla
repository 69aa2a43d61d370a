-------------------------- MODULE JobBoard_proofs --------------------------
(***************************************************************************)
(* JobPipeline implements JobBoard, and what JobBoard promises therefore   *)
(* holds of the pipeline, for any jobs, workers and messages.              *)
(***************************************************************************)
EXTENDS JobRows_proofs

-----------------------------------------------------------------------------
(* The pipeline implements the board.  The mapping needs an invariant that *)
(* ties a worker's program counter to the row of its job: StartJob may     *)
(* trust a pending check made two calls ago, and what a worker reports     *)
(* ends a row that is still in processing, because it alone claims the job *)
(* (SingleInv) and nobody cancels it.                                      *)

Uncanceled == NoDuplicates /\ "cancel" \notin Env

Begins(w, j) == job[w] = j /\ pc[w] = "start"

BoardOk(j) ==
    /\ creator[j] = "none" => ~Exists(j)
    /\ creator[j] \in {"publish", "fail"} => IsPending(j)
    /\ \A w \in Workers : Begins(w, j) => IsPending(j)
    /\ \A w \in Workers : Executing(w, j) => rows[j].status = "processing"

BoardInv == \A j \in Jobs : BoardOk(j)

\* A job whose status stands still, and that nobody comes to claim.
LEMMA BoardFrame ==
    ASSUME NEW j \in Jobs, BoardOk(j), rows'[j].status = rows[j].status,
           creator'[j] = "none" => creator[j] = "none",
           creator'[j] \in {"publish", "fail"} =>
              creator[j] \in {"publish", "fail"},
           \A w \in Workers : Begins(w, j)' => Begins(w, j),
           \A w \in Workers : Executing(w, j)' => Executing(w, j)
    PROVE  BoardOk(j)'
  BY DEF BoardOk, Exists, IsPending

ExecutingAt == {"options", "scrape", "scraped", "complete", "fail"}

\* One step of a worker moves the worker, and what it runs, and nobody else.
LEMMA WorkerMoves ==
    ASSUME TypeOK, NEW w \in Workers, NEW l, Goto(w, l),
           \A v \in Workers : v # w => job'[v] = job[v]
    PROVE  /\ RunnerBar' = [RunnerBar EXCEPT ![w] =
                               IF l \in ExecutingAt THEN job'[w] ELSE NoJob]
           /\ \A v \in Workers, j \in Jobs : v # w =>
                 /\ Begins(v, j)' <=> Begins(v, j)
                 /\ Executing(v, j)' <=> Executing(v, j)
           /\ \A j \in Jobs : /\ Begins(w, j)' <=> job'[w] = j /\ l = "start"
                              /\ Executing(w, j)' <=>
                                    job'[w] = j /\ l \in ExecutingAt
<1>1. pc'[w] = l /\ \A v \in Workers : v # w => pc'[v] = pc[v]
  BY DEF Goto, TypeOK
<1> QED
  BY <1>1 DEF RunnerBar, Begins, Executing, ExecutingAt

LEMMA WorkersStand ==
    ASSUME UNCHANGED <<pc, job>>
    PROVE  /\ RunnerBar' = RunnerBar
           /\ \A w \in Workers, j \in Jobs :
                 /\ Begins(w, j)' <=> Begins(w, j)
                 /\ Executing(w, j)' <=> Executing(w, j)
  BY DEF RunnerBar, Begins, Executing

\* The phase of a job follows the status of its row.
LEMMA PhaseKept ==
    ASSUME \A j \in Jobs : /\ rows'[j].status = rows[j].status
                           /\ creator'[j] = "none" <=> creator[j] = "none"
    PROVE  PhaseBar' = PhaseBar
  BY DEF PhaseBar, Exists

LEMMA PhaseMoves ==
    ASSUME NEW j \in Jobs, rows'[j].status # "absent",
           \A k \in Jobs : k # j =>
              /\ rows'[k].status = rows[k].status
              /\ creator'[k] = "none" <=> creator[k] = "none"
    PROVE  PhaseBar' = [PhaseBar EXCEPT ![j] = rows'[j].status]
  BY DEF PhaseBar, Exists

BoardStep == [Board!Next]_(Board!vars)

\* Nothing happens on the board.
LEMMA BoardStutters ==
    ASSUME PhaseBar' = PhaseBar, RunnerBar' = RunnerBar
    PROVE  BoardStep
  BY DEF BoardStep, Board!vars

\* Steps of the request that creates a job: Submit when the row is stored,
\* Reject when the publish failed and the row says so.
LEMMA BoardCreation ==
    ASSUME Uncanceled, TypeInv, SingleInv, BoardInv,
           NEW j \in Jobs, Creation(j)
    PROVE  BoardInv' /\ BoardStep
<1> USE DEF TypeInv
<1>1. UNCHANGED <<pc, job>>
  BY DEF Creation, InsertJob, PublishCreated, FailUnpublished, worker
<1>2. \A k \in Jobs \ {j} : rows'[k] = rows[k] /\ creator'[k] = creator[k]
  <2>1. rows' = rows \/ \E r : rows' = [rows EXCEPT ![j] = r]
    BY AnyUpdate
       DEF Creation, InsertJob, PublishCreated, FailUnpublished, Store
  <2>2. \E c : creator' = [creator EXCEPT ![j] = c]
    BY DEF Creation, InsertJob, PublishCreated, FailUnpublished
  <2> QED
    BY <2>1, <2>2 DEF TypeOK
<1>3. \A k \in Jobs \ {j} : BoardOk(k)'
  BY <1>1, <1>2, WorkersStand, BoardFrame DEF BoardInv
<1>4. creator[j] \in {"none", "publish", "fail"}
  BY DEF Creation, InsertJob, PublishCreated, FailUnpublished
<1>5. \A w \in Workers : ~Begins(w, j)' /\ ~Executing(w, j)'
  BY <1>1, <1>4 DEF SingleInv, Begins, Executing
<1>6. CASE InsertJob(j)
  <2>1. creator[j] = "none" /\ ~Exists(j)
    BY <1>6 DEF InsertJob, BoardInv, BoardOk
  <2>2. \/ rows'[j] = NewRow /\ creator'[j] \in {"publish", "done"}
        \/ rows'[j] = rows[j] /\ creator'[j] = "done"
    BY <1>6 DEF InsertJob, Store, TypeOK
  <2>3. BoardOk(j)'
    BY <1>5, <2>1, <2>2 DEF BoardOk, Exists, IsPending, NewRow, AbsentRow
  <2>4. PhaseBar[j] = "new" /\ PhaseBar'[j] \in {"pending", "gone"}
    BY <2>1, <2>2 DEF PhaseBar, Exists, NewRow, AbsentRow
  <2>5. PhaseBar' = [PhaseBar EXCEPT ![j] = PhaseBar'[j]]
    BY <1>2 DEF PhaseBar, Exists
  <2>6. Board!Submit(j)
    BY <1>1, <2>4, <2>5, WorkersStand DEF Board!Submit
  <2> QED
    BY <1>3, <2>3, <2>6 DEF BoardInv, BoardStep, Board!Next
<1>7. CASE PublishCreated(j)
  <2>1. rows' = rows /\ creator[j] = "publish" /\ creator'[j] \in {"fail", "done"}
    BY <1>7 DEF PublishCreated, TypeOK
  <2>2. BoardOk(j)'
    BY <1>1, <2>1, WorkersStand, BoardFrame DEF BoardInv
  <2>3. PhaseBar' = PhaseBar
    BY <1>2, <2>1, PhaseKept
  <2> QED
    BY <1>1, <1>3, <2>2, <2>3, WorkersStand, BoardStutters DEF BoardInv
<1>8. CASE FailUnpublished(j)
  <2>1. creator[j] = "fail" /\ creator'[j] = "done" /\ IsPending(j)
    BY <1>8 DEF FailUnpublished, BoardInv, BoardOk, TypeOK
  <2>2. rows' = rows \/ rows' = [rows EXCEPT ![j] = Failed(rows[j])]
    BY <1>8, AnyUpdate DEF FailUnpublished
  <2>3. BoardOk(j)'
    BY <1>5, <2>1 DEF BoardOk
  <2>4. CASE rows' = rows
    BY <1>1, <1>2, <1>3, <2>1, <2>3, <2>4, PhaseKept, WorkersStand,
       BoardStutters DEF BoardInv
  <2>5. CASE rows' = [rows EXCEPT ![j] = Failed(rows[j])]
    <3>1. rows'[j].status = "failed"
      BY <2>5, Columns DEF TypeOK
    <3>2. PhaseBar' = [PhaseBar EXCEPT ![j] = "failed"]
      BY <1>2, <3>1, PhaseMoves
    <3>3. PhaseBar[j] = "pending"
      BY <2>1 DEF PhaseBar, IsPending, Exists
    <3>4. Board!Reject(j)
      BY <1>1, <3>2, <3>3, WorkersStand DEF Board!Reject
    <3> QED
      BY <1>3, <2>3, <3>4 DEF BoardInv, BoardStep, Board!Next
  <2> QED
    BY <2>2, <2>4, <2>5
<1> QED
  BY <1>6, <1>7, <1>8 DEF Creation

\* Steps of a worker: Take when StartJob is committed, Finish when the end of
\* the job is, and Abandon when the worker gives the job up without.
LEMMA BoardWorker ==
    ASSUME Uncanceled, TypeInv, SingleInv, BoardInv,
           NEW w \in Workers, Handler(w)
    PROVE  BoardInv' /\ BoardStep
<1> USE DEF TypeInv
<1>1. creator' = creator
  BY DEF Handler, GetJob, StartJob, ReportStarted, ScrapePage, ReportScraped,
         CompleteJob, FailJob, Republish, Ack, Nack, Settle, StopConsuming,
         server
<1>2. \A v \in Workers : v # w => job'[v] = job[v]
  BY DEF Handler, GetJob, StartJob, ReportStarted, ScrapePage, ReportScraped,
         CompleteJob, FailJob, Republish, Ack, Nack, Settle, StopConsuming,
         TypeOK
<1>3. PICK l : Goto(w, l)
  BY DEF Handler, GetJob, StartJob, ReportStarted, ScrapePage, ReportScraped,
         CompleteJob, FailJob, Republish, Ack, Nack, Settle, StopConsuming
<1>4. pc'[w] = l
  BY <1>3 DEF Goto, TypeOK
<1>5. RunnerBar' = [RunnerBar EXCEPT ![w] =
                      IF l \in ExecutingAt THEN job'[w] ELSE NoJob]
  BY <1>2, <1>3, WorkerMoves
<1>6. \A v \in Workers, k \in Jobs : v # w =>
         /\ Begins(v, k)' <=> Begins(v, k)
         /\ Executing(v, k)' <=> Executing(v, k)
  BY <1>2, <1>3, WorkerMoves
<1>7. \A k \in Jobs : /\ Begins(w, k)' <=> job'[w] = k /\ l = "start"
                      /\ Executing(w, k)' <=> job'[w] = k /\ l \in ExecutingAt
  BY <1>2, <1>3, WorkerMoves
<1>8. RunnerBar[w] = IF pc[w] \in ExecutingAt THEN job[w] ELSE NoJob
  BY DEF RunnerBar, Executing, ExecutingAt
<1>9. CASE \/ GetJob(w) \/ Republish(w) \/ Ack(w) \/ Nack(w)
           \/ StopConsuming(w)
  <2>1. rows' = rows
    BY <1>9 DEF GetJob, Republish, Ack, Nack, Settle, StopConsuming
  <2>2. pc[w] \notin ExecutingAt /\ l \notin ExecutingAt
    BY <1>4, <1>9 DEF GetJob, Republish, Ack, Nack, Settle, StopConsuming,
       ExecutingAt, Goto, TypeOK
  <2>3. l = "start" => IsPending(job'[w])
    BY <1>4, <1>9 DEF GetJob, Republish, Ack, Nack, Settle, StopConsuming,
       Goto, TypeOK
  <2>4. RunnerBar' = RunnerBar
    BY <1>5, <1>8, <2>2 DEF RunnerBar
  <2>5. PhaseBar' = PhaseBar
    BY <1>1, <2>1, PhaseKept
  <2>6. ASSUME NEW k \in Jobs PROVE BoardOk(k)'
    BY <1>1, <1>6, <1>7, <2>1, <2>2, <2>3
       DEF BoardInv, BoardOk, Exists, IsPending
  <2> QED
    BY <2>4, <2>5, <2>6, BoardStutters DEF BoardInv
<1>10. ASSUME pc[w] \in ExecutingAt \cup {"start"}
       PROVE  /\ job[w] \in Jobs
              /\ pc[w] = "start" => Begins(w, job[w])
              /\ pc[w] \in ExecutingAt => Executing(w, job[w])
              /\ creator[job[w]] = "done"
              /\ \A v \in Workers \ {w} :
                    ~Begins(v, job[w]) /\ ~Executing(v, job[w])
  <2>1. job[w] \in Jobs
    BY <1>10 DEF DeliveryInv, ExecutingAt
  <2>2. Claims(w, job[w])
    BY <1>10 DEF Claims, Executing, ExecutingAt
  <2>3. creator[job[w]] = "done"
    BY <2>1 DEF SingleInv, TypeOK
  <2>4. \A v \in Workers \ {w} : ~Claims(v, job[w])
    BY <2>1, <2>2 DEF SingleInv
  <2> QED
    BY <1>10, <2>1, <2>3, <2>4 DEF Claims, Begins, Executing, ExecutingAt
<1>11. ASSUME job' = job, NEW j \in Jobs, j = job[w],
              \A k \in Jobs \ {j} : rows'[k] = rows[k],
              l # "start"
       PROVE  \A k \in Jobs \ {j} : BoardOk(k)'
  BY <1>1, <1>6, <1>7, <1>11, BoardFrame DEF BoardInv
<1>12. CASE StartJob(w)
  <2>1. PICK j \in Jobs : j = job[w]
    BY <1>10, <1>12 DEF StartJob
  <2>2. IsPending(j)
    BY <1>10, <1>12, <2>1 DEF StartJob, BoardInv, BoardOk
  <2>3. job' = job /\ pc[w] = "start"
    BY <1>12 DEF StartJob
  <2>4. \/ rows' = [rows EXCEPT ![j] = Started(rows[j])]
           /\ l \in {"options", "error"}
        \/ rows' = rows /\ l = "error"
    BY <1>4, <1>12, <2>1, AnyUpdate
       DEF StartJob, WorkerUpdateOk, UpdateOk, Store, Goto, TypeOK
  <2>5. \A k \in Jobs \ {j} : rows'[k] = rows[k]
    BY <2>4 DEF TypeOK
  <2>6. \A k \in Jobs \ {j} : BoardOk(k)'
    BY <1>11, <2>1, <2>3, <2>4, <2>5
  <2>7. creator[j] = "done" /\ \A v \in Workers \ {w} :
                                  ~Begins(v, j) /\ ~Executing(v, j)
    BY <1>10, <2>1, <2>3
  <2>8. RunnerBar[w] = NoJob
    BY <1>8, <2>3 DEF ExecutingAt
  <2>9. CASE rows' = rows /\ l = "error"
    <3>1. BoardOk(j)'
      BY <1>1, <1>6, <1>7, <2>7, <2>9 DEF BoardOk, ExecutingAt
    <3>2. RunnerBar' = RunnerBar
      BY <1>5, <2>8, <2>9 DEF RunnerBar, ExecutingAt
    <3>3. PhaseBar' = PhaseBar
      BY <1>1, <2>9, PhaseKept
    <3> QED
      BY <2>6, <3>1, <3>2, <3>3, BoardStutters DEF BoardInv
  <2>10. CASE /\ rows' = [rows EXCEPT ![j] = Started(rows[j])]
              /\ l \in {"options", "error"}
    <3>1. rows'[j].status = "processing"
      BY <2>10, Columns DEF TypeOK
    <3>2. BoardOk(j)'
      BY <1>1, <1>6, <1>7, <2>7, <2>10, <3>1 DEF BoardOk
    <3>3. PhaseBar' = [PhaseBar EXCEPT ![j] = "processing"]
      BY <1>1, <2>5, <3>1, PhaseMoves
    <3>4. PhaseBar[j] = "pending"
      BY <2>2 DEF PhaseBar, IsPending, Exists
    <3>5. RunnerBar' = RunnerBar \/ RunnerBar' = [RunnerBar EXCEPT ![w] = j]
      <4>1. CASE l = "options"
        BY <1>5, <2>1, <2>3, <4>1 DEF ExecutingAt
      <4>2. CASE l = "error"
        BY <1>5, <2>8, <4>2 DEF RunnerBar, ExecutingAt
      <4> QED
        BY <2>10, <4>1, <4>2
    <3>6. Board!Take(w, j)
      BY <2>8, <3>3, <3>4, <3>5 DEF Board!Take
    <3> QED
      BY <2>6, <3>2, <3>6 DEF BoardInv, BoardStep, Board!Next
  <2> QED
    BY <2>4, <2>9, <2>10
<1>13. CASE ReportStarted(w) \/ ScrapePage(w) \/ ReportScraped(w)
  <2>1. /\ pc[w] \in ExecutingAt /\ l \in ExecutingAt
        /\ job' = job
    BY <1>4, <1>13 DEF ReportStarted, ScrapePage, ReportScraped, ExecutingAt,
       Goto, TypeOK
  <2>2. PICK j \in Jobs : j = job[w]
    BY <1>10, <2>1
  <2>3. rows' = rows \/ \E p \in {10, 90} :
                           rows' = [rows EXCEPT ![j] = Progressed(rows[j], p)]
    BY <1>13, <2>2, AnyUpdate DEF ReportStarted, ScrapePage, ReportScraped
  <2>4. \A k \in Jobs : rows'[k].status = rows[k].status
    <3>1. \A p : Progressed(rows[j], p).status = rows[j].status
      BY DEF Progressed, TypeOK, Row
    <3> QED
      BY <2>3, <3>1 DEF TypeOK
  <2>5. PhaseBar' = PhaseBar
    BY <1>1, <2>4, PhaseKept
  <2>6. RunnerBar' = RunnerBar
    BY <1>5, <1>8, <2>1 DEF RunnerBar
  <2>7. ASSUME NEW k \in Jobs PROVE BoardOk(k)'
    <3>1. Executing(w, k)' => Executing(w, k)
      BY <1>7, <2>1 DEF Executing, ExecutingAt
    <3>2. ~Begins(w, k)'
      BY <1>7, <2>1 DEF ExecutingAt
    <3> QED
      BY <1>1, <1>6, <2>4, <3>1, <3>2, BoardFrame DEF BoardInv
  <2> QED
    BY <2>5, <2>6, <2>7, BoardStutters DEF BoardInv
<1>14. CASE CompleteJob(w) \/ FailJob(w)
  <2>1. /\ pc[w] \in ExecutingAt
        /\ l \in {"ack", "error"} /\ l \notin ExecutingAt
        /\ job' = job
    BY <1>4, <1>14 DEF CompleteJob, FailJob, ExecutingAt, Goto, TypeOK
  <2>2. PICK j \in Jobs : j = job[w]
    BY <1>10, <2>1
  <2>3. rows[j].status = "processing"
    BY <1>10, <2>1, <2>2 DEF BoardInv, BoardOk
  <2>4. \/ rows' = rows
        \/ rows' = [rows EXCEPT ![j] = Completed(rows[j])]
        \/ rows' = [rows EXCEPT ![j] = Failed(rows[j])]
    BY <1>14, <2>2, AnyUpdate DEF CompleteJob, FailJob
  <2>5. \A k \in Jobs \ {j} : rows'[k] = rows[k]
    BY <2>4 DEF TypeOK
  <2>6. \A k \in Jobs \ {j} : BoardOk(k)'
    BY <1>11, <2>1, <2>2, <2>5
  <2>7. BoardOk(j)'
    BY <1>1, <1>6, <1>7, <1>10, <2>1, <2>2 DEF BoardOk
  <2>8. RunnerBar' = [RunnerBar EXCEPT ![w] = NoJob]
    BY <1>5, <2>1
  <2>9. CASE rows' = rows
    <3>1. PhaseBar' = PhaseBar
      BY <1>1, <2>9, PhaseKept
    <3>2. Board!Abandon({w})
      BY <2>8, <3>1 DEF Board!Abandon, RunnerBar
    <3> QED
      BY <2>6, <2>7, <3>2 DEF BoardInv, BoardStep, Board!Next
  <2>10. CASE rows' # rows
    <3>1. PICK p \in {"completed", "failed"} : rows'[j].status = p
      BY <2>4, <2>10, Columns DEF TypeOK
    <3>2. PhaseBar' = [PhaseBar EXCEPT ![j] = p]
      BY <1>1, <2>5, <3>1, PhaseMoves
    <3>3. PhaseBar[j] = "processing" /\ RunnerBar[w] = j
      BY <1>8, <2>1, <2>2, <2>3 DEF PhaseBar, Exists
    <3>4. Board!Finish(w, j)
      BY <2>8, <3>2, <3>3 DEF Board!Finish
    <3> QED
      BY <2>6, <2>7, <3>4 DEF BoardInv, BoardStep, Board!Next
  <2> QED
    BY <2>9, <2>10
<1> QED
  BY <1>9, <1>12, <1>13, <1>14 DEF Handler

\* The other steps: Purge when old rows are deleted, Abandon when the process
\* dies, nothing when messages move, expire or are requeued.
LEMMA BoardOthers ==
    ASSUME Uncanceled, TypeInv, BoardInv,
           \/ Cleanup \/ StopPool \/ LoseConnection \/ Crash
           \/ UNCHANGED vars
           \/ \E m \in Msgs : Expire(m)
           \/ \E w \in Workers, m \in Msgs : Deliver(w, m)
    PROVE  BoardInv' /\ BoardStep
<1> USE DEF TypeInv
<1>1. CASE Cleanup
  <2>1. UNCHANGED <<creator, pc, job>>
    BY <1>1 DEF Cleanup, server, worker
  <2>2. PICK S \in SUBSET {k \in Jobs : rows[k].status \in Terminal} :
           rows' = [k \in Jobs |-> IF k \in S THEN AbsentRow ELSE rows[k]]
    BY <1>1 DEF Cleanup
  <2>3. \A k \in S : /\ ~IsPending(k)
                     /\ rows[k].status # "processing"
                     /\ Exists(k)
    BY <2>2 DEF IsPending, Terminal, Exists
  <2>4. ASSUME NEW k \in Jobs PROVE BoardOk(k)'
    <3>1. CASE k \in S
      BY <2>1, <2>2, <2>3, <3>1, WorkersStand DEF BoardInv, BoardOk
    <3>2. CASE k \notin S
      BY <2>1, <2>2, <3>2, WorkersStand, BoardFrame DEF BoardInv
    <3> QED
      BY <3>1, <3>2
  <2>5. \A k \in S : PhaseBar[k] \in Board!Finished /\ creator[k] # "none"
    BY <2>2, <2>3 DEF PhaseBar, Exists, Terminal, Board!Finished, BoardInv,
                      BoardOk
  <2>6. PhaseBar' = [k \in Jobs |-> IF k \in S THEN "gone" ELSE PhaseBar[k]]
    BY <2>1, <2>2, <2>5 DEF PhaseBar, Exists, AbsentRow
  <2>7. Board!Purge(S)
    BY <2>1, <2>5, <2>6, WorkersStand DEF Board!Purge
  <2> QED
    BY <2>2, <2>4, <2>7 DEF BoardInv, BoardStep, Board!Next
<1>2. CASE Crash
  <2>1. /\ rows' = rows
        /\ creator' = [k \in Jobs |-> IF creator[k] = "none" THEN "none"
                                                             ELSE "done"]
        /\ pc' = [w \in Workers |-> "idle"]
    BY <1>2 DEF Crash
  <2>2. \A w \in Workers, k \in Jobs : ~Begins(w, k)' /\ ~Executing(w, k)'
    BY <2>1 DEF Begins, Executing
  <2>3. ASSUME NEW k \in Jobs PROVE BoardOk(k)'
    BY <2>1, <2>2, BoardFrame DEF BoardInv
  <2>4. PhaseBar' = PhaseBar
    BY <2>1, PhaseKept
  <2>5. RunnerBar' = [w \in Workers |-> NoJob]
    BY <2>1 DEF RunnerBar, Executing
  <2>6. Board!Abandon(Workers)
    BY <2>4, <2>5 DEF Board!Abandon
  <2> QED
    BY <2>3, <2>6 DEF BoardInv, BoardStep, Board!Next
<1>3. CASE ~Cleanup /\ ~Crash
  <2>1. UNCHANGED <<rows, creator, pc, job>>
    BY <1>3 DEF StopPool, LoseConnection, vars, Expire, Deliver, server, worker
  <2>2. ASSUME NEW k \in Jobs PROVE BoardOk(k)'
    BY <2>1, WorkersStand, BoardFrame DEF BoardInv
  <2> QED
    BY <2>1, <2>2, WorkersStand, PhaseKept, BoardStutters DEF BoardInv
<1> QED
  BY <1>1, <1>2, <1>3

LEMMA BoardInit == Init => BoardInv /\ Board!Init
<1> SUFFICES ASSUME Init PROVE BoardInv /\ Board!Init
  OBVIOUS
<1>1. BoardInv
  BY DEF Init, BoardInv, BoardOk, Begins, Executing, Exists, IsPending,
         NewRow, AbsentRow
<1>2. PhaseBar \in [Jobs -> {"new", "pending"}]
  BY DEF Init, PhaseBar, Exists, NewRow, AbsentRow
<1>3. RunnerBar = [w \in Workers |-> NoJob]
  BY DEF Init, RunnerBar, Executing
<1> QED
  BY <1>1, <1>2, <1>3 DEF Board!Init

LEMMA BoardNext ==
    ASSUME Uncanceled, TypeInv, SingleInv, BoardInv, [Next]_vars
    PROVE  BoardInv' /\ BoardStep
<1>1. bridge = {} /\ \A c \in Retriers : retrier[c].at = "idle"
  BY DEF SingleInv
<1>2. /\ ~BridgePoll
      /\ \A j \in Jobs : ~BridgePublish(j) /\ ~CancelJob(j)
      /\ \A c \in Retriers : ~RetryCall(c)
  BY <1>1 DEF Uncanceled, NoDuplicates, BridgePoll, BridgePublish, CancelJob,
              RetryCall, ReadRetryCount, ResetRow, PublishRetry
<1> QED
  BY <1>2, BoardCreation, BoardWorker, BoardOthers DEF Next, Step

LEMMA BoardAlways ==
    ASSUME Uncanceled
    PROVE  Spec => []BoardInv
<1>1. TypeInv /\ SingleInv /\ BoardInv /\ [Next]_vars => BoardInv'
  BY BoardNext
<1>2. NoDuplicates
  BY DEF Uncanceled
<1> QED
  BY TypeCorrect, SingleAlways, BoardInit, <1>1, <1>2, PTL DEF Spec

\* JobPipeline implements JobBoard for every number of jobs, workers and
\* messages: through redelivery after a crash, retries after database errors
\* and lost replies, a job is never run twice and its end is never changed.
THEOREM PipelineImplementsBoard ==
    ASSUME Uncanceled
    PROVE  Spec => ImplementsBoard
<1>1. TypeInv /\ SingleInv /\ BoardInv /\ [Next]_vars => BoardStep
  BY BoardNext
<1>2. NoDuplicates
  BY DEF Uncanceled
<1> QED
  BY TypeCorrect, SingleAlways, BoardAlways, BoardInit, <1>1, <1>2, PTL
     DEF Spec, ImplementsBoard, Board!Spec, BoardStep

-----------------------------------------------------------------------------
(* What the board promises.                                                *)

BoardHolds == Board!TypeOK /\ Board!OneRunner

\* A job is run by one worker at a time, and only while it is marked as
\* processing: a consequence of the board's few steps alone.
THEOREM OneRunnerAlways == Board!Spec => []Board!OneRunner
<1>1. Board!Init => BoardHolds
  BY DEF Board!Init, BoardHolds, Board!TypeOK, Board!OneRunner, Board!Phases,
         Board!Finished
<1>2. BoardHolds /\ BoardStep => BoardHolds'
  <2> SUFFICES ASSUME BoardHolds, BoardStep PROVE BoardHolds'
    OBVIOUS
  <2> USE JobAssumption
      DEF BoardHolds, Board!TypeOK, Board!OneRunner, Board!Phases,
          Board!Finished
  <2>1. ASSUME NEW j \in Jobs, Board!Submit(j) PROVE BoardHolds'
    BY <2>1 DEF Board!Submit
  <2>2. ASSUME NEW j \in Jobs, Board!Reject(j) PROVE BoardHolds'
    BY <2>2 DEF Board!Reject
  <2>3. ASSUME NEW w \in Workers, NEW j \in Jobs, Board!Take(w, j)
        PROVE  BoardHolds'
    BY <2>3 DEF Board!Take
  <2>4. ASSUME NEW w \in Workers, NEW j \in Jobs, Board!Finish(w, j)
        PROVE  BoardHolds'
    BY <2>4 DEF Board!Finish
  <2>5. ASSUME NEW W \in SUBSET Workers, Board!Abandon(W) PROVE BoardHolds'
    BY <2>5 DEF Board!Abandon
  <2>6. ASSUME NEW S \in SUBSET Jobs, Board!Purge(S) PROVE BoardHolds'
    BY <2>6 DEF Board!Purge
  <2>7. CASE UNCHANGED Board!vars
    BY <2>7 DEF Board!vars
  <2> QED
    BY <2>1, <2>2, <2>3, <2>4, <2>5, <2>6, <2>7 DEF BoardStep, Board!Next
<1> QED
  BY <1>1, <1>2, PTL DEF Board!Spec, BoardHolds, BoardStep

\* So it is of the pipeline: a worker between StartJob and its report is the
\* only one that executes its job, and the row says processing all the while.
THEOREM PipelineKeepsPromise ==
    ASSUME Uncanceled
    PROVE  Spec => []Board!OneRunner
  BY PipelineImplementsBoard, OneRunnerAlways, PTL DEF ImplementsBoard

=============================================================================
