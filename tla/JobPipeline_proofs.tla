------------------------ MODULE JobPipeline_proofs ------------------------
(***************************************************************************)
(* Theorems about JobPipeline, for every set of jobs, workers, messages    *)
(* and callers and every retry limit.                                      *)
(***************************************************************************)
EXTENDS JobPipeline, TLAPS

\* The typed parts of the helper formulae.
LEMMA RowUpdates ==
    ASSUME NEW r \in Row
    PROVE  /\ Started(r) \in Row
           /\ Progressed(r, 10) \in Row
           /\ Progressed(r, 90) \in Row
           /\ Completed(r) \in Row
           /\ Failed(r) \in Row
           /\ Canceled(r) \in Row
           /\ Retried(r) \in Row
           /\ AbsentRow \in Row
           /\ NewRow \in Row
<1>0. r.retry_count + 1 \in Nat
  BY DEF Row
<1>1. Started(r) \in Row
  BY DEF Row, Status, Started
<1>2. Progressed(r, 10) \in Row /\ Progressed(r, 90) \in Row
  BY DEF Row, Progressed
<1>3. Completed(r) \in Row
  BY DEF Row, Status, Terminal, Completed
<1>4. Failed(r) \in Row
  <2>1. \A k \in Nat : [r EXCEPT !.status = "failed", !.error = TRUE,
                                 !.retry_count = k] \in Row
    BY DEF Row, Status, Terminal
  <2> QED
    BY <1>0, <2>1 DEF Failed
<1>5. Canceled(r) \in Row
  BY DEF Row, Status, Terminal, Canceled
<1>6. Retried(r) \in Row
  <2>1. \A k \in Nat : [r EXCEPT !.status = "pending", !.error = FALSE,
                                 !.progress = 0, !.retry_count = k] \in Row
    BY DEF Row, Status
  <2> QED
    BY <1>0, <2>1 DEF Retried
<1>7. AbsentRow \in Row /\ NewRow \in Row
  BY DEF Row, Status, AbsentRow, NewRow
<1> QED
  BY <1>1, <1>2, <1>3, <1>4, <1>5, <1>6, <1>7

\* Every outcome of an UPDATE leaves a well-typed table.
LEMMA UpdateType ==
    ASSUME rows \in [Jobs -> Row], NEW j \in Jobs, NEW r \in Row,
           \/ UpdateOk(j, r) \/ UpdateError(j, r)
           \/ WorkerUpdateOk(j, r) \/ WorkerUpdateError(j, r)
    PROVE  rows' \in [Jobs -> Row]
  BY DEF UpdateOk, UpdateError, WorkerUpdateOk, WorkerUpdateError, Store

\* So does every outcome of a publish for the broker.
LEMMA PublishType ==
    ASSUME msgs \in [Msgs -> Message], NEW j \in Jobs, NEW n \in Nat,
           PublishOk(j, n)
    PROVE  msgs' \in [Msgs -> Message]
<1>1. Queued(j, n) \in Message
  BY DEF Queued, Message
<1> QED
  BY <1>1 DEF PublishOk, Free

\* A publish adds one queued message and touches no other.
LEMMA PublishFrame ==
    ASSUME msgs \in [Msgs -> Message], NEW j, NEW n, PublishOk(j, n)
    PROVE  \A m \in Msgs :
              \/ msgs'[m] = msgs[m]
              \/ /\ msgs[m].loc = "none"
                 /\ msgs'[m].loc = "queue"
                 /\ msgs'[m].job = j
<1>1. CASE UNCHANGED msgs
  BY <1>1
<1>2. CASE \E m \in Free : msgs' = [msgs EXCEPT ![m] = Queued(j, n)]
  BY <1>2 DEF Free, Queued
<1> QED
  BY <1>1, <1>2 DEF PublishOk

LEMMA RequeuedType ==
    ASSUME msgs \in [Msgs -> Message]
    PROVE  Requeued(msgs) \in [Msgs -> Message]
  BY DEF Requeued, Message

LEMMA NoMessageType == NoMessage \in Message /\ IdleRetrier \in
           [at : {"idle", "update", "publish"}, job : Jobs \cup {NoJob}, count : Nat]
  BY DEF NoMessage, Message, IdleRetrier

LEMMA TypeInit == Init => TypeInv
<1> SUFFICES ASSUME Init PROVE TypeInv
  OBVIOUS
<1>1. TypeOK
  BY JobAssumption, NoMessageType DEF Init, TypeOK, Row, Status, Terminal, NewRow,
     AbsentRow, Labels
<1>2. DeliveryInv
  BY DEF Init, DeliveryInv, NoMessage, IdleRetrier
<1> QED
  BY <1>1, <1>2 DEF TypeInv

\* Every step of the pipeline preserves the types and the delivery rules.
LEMMA TypeNext == TypeInv /\ [Next]_vars => TypeInv'
<1> SUFFICES ASSUME TypeInv, [Next]_vars PROVE TypeInv'
  OBVIOUS
<1> USE DEF TypeInv
<1>1. ASSUME NEW j \in Jobs, InsertJob(j) PROVE TypeInv'
  <2>1. TypeOK'
    <3>1. NewRow \in Row
      <4>1. PICK r \in Row : r = rows[j]
        BY DEF TypeOK
      <4> QED
        BY <4>1, RowUpdates
    <3>2. rows' \in [Jobs -> Row]
      BY <1>1, <3>1 DEF InsertJob, Store, TypeOK
    <3> QED
      BY <1>1, <3>2 DEF InsertJob, TypeOK, broker, worker
  <2>2. DeliveryInv'
    BY <1>1 DEF InsertJob, DeliveryInv, TypeOK, broker, worker
  <2> QED
    BY <2>1, <2>2
<1>2. ASSUME NEW j \in Jobs, PublishCreated(j) PROVE TypeInv'
  <2>1. CASE UNCHANGED msgs
    <3>1. TypeOK'
      BY <1>2, <2>1, NoMessageType DEF PublishCreated, TypeOK, worker
    <3>2. DeliveryInv'
      BY <1>2, <2>1 DEF PublishCreated, DeliveryInv, TypeOK, worker
    <3> QED
      BY <3>1, <3>2
  <2>2. CASE PublishOk(j, 0)
    <3>1. j \in Jobs /\ 0 \in Nat
      BY <1>2 DEF PublishCreated, TypeOK, DeliveryInv, Message, Incremented
    <3>2. msgs' \in [Msgs -> Message]
      BY <2>2, <3>1, PublishType DEF TypeOK
    <3>3. TypeOK'
      BY <1>2, <3>2, NoMessageType DEF PublishCreated, TypeOK, worker
    <3>4. DeliveryInv'
      BY <1>2, <2>2, <3>1, PublishFrame DEF PublishCreated, DeliveryInv, TypeOK, worker
    <3> QED
      BY <3>3, <3>4
  <2> QED
    BY <1>2, <2>1, <2>2 DEF PublishCreated
<1>3. ASSUME NEW j \in Jobs, FailUnpublished(j) PROVE TypeInv'
  <2>1. TypeOK'
    BY <1>3, RowUpdates, UpdateType DEF FailUnpublished, TypeOK, broker, worker
  <2>2. DeliveryInv'
    BY <1>3 DEF FailUnpublished, DeliveryInv, TypeOK, broker, worker
  <2> QED
    BY <2>1, <2>2
<1>4. ASSUME NEW j \in Jobs, CancelJob(j) PROVE TypeInv'
  <2>1. TypeOK'
    BY <1>4, RowUpdates, UpdateType DEF CancelJob, TypeOK, broker, server, worker
  <2>2. DeliveryInv'
    BY <1>4 DEF CancelJob, DeliveryInv, TypeOK, broker, server, worker
  <2> QED
    BY <2>1, <2>2
<1>5. ASSUME NEW j \in Jobs, BridgePublish(j) PROVE TypeInv'
  <2>1. CASE UNCHANGED msgs
    <3>1. TypeOK'
      BY <1>5, <2>1, NoMessageType DEF BridgePublish, TypeOK, server, worker
    <3>2. DeliveryInv'
      BY <1>5, <2>1 DEF BridgePublish, DeliveryInv, TypeOK, server, worker
    <3> QED
      BY <3>1, <3>2
  <2>2. CASE PublishOk(j, 0)
    <3>1. j \in Jobs /\ 0 \in Nat
      BY <1>5 DEF BridgePublish, TypeOK, DeliveryInv, Message, Incremented
    <3>2. msgs' \in [Msgs -> Message]
      BY <2>2, <3>1, PublishType DEF TypeOK
    <3>3. TypeOK'
      BY <1>5, <3>2, NoMessageType DEF BridgePublish, TypeOK, server, worker
    <3>4. DeliveryInv'
      BY <1>5, <2>2, <3>1, PublishFrame DEF BridgePublish, DeliveryInv, TypeOK, server, worker
    <3> QED
      BY <3>3, <3>4
  <2> QED
    BY <1>5, <2>1, <2>2 DEF BridgePublish
<1>6. ASSUME NEW c \in Retriers, NEW j \in Jobs, ReadRetryCount(c, j) PROVE TypeInv'
  <2>1. TypeOK'
    BY <1>6, BoundAssumption DEF ReadRetryCount, TypeOK, broker, worker, Row
  <2>2. DeliveryInv'
    BY <1>6 DEF ReadRetryCount, DeliveryInv, TypeOK, broker, worker
  <2> QED
    BY <2>1, <2>2
<1>7. ASSUME NEW c \in Retriers, ResetRow(c) PROVE TypeInv'
  <2>1. retrier[c].job \in Jobs /\ rows[retrier[c].job] \in Row
    BY <1>7 DEF ResetRow, TypeOK, DeliveryInv
  <2>2. rows' \in [Jobs -> Row]
    BY <1>7, <2>1, RowUpdates, UpdateType DEF ResetRow, TypeOK
  <2>3. TypeOK'
    BY <1>7, <2>2, NoMessageType DEF ResetRow, TypeOK, broker, worker
  <2>4. DeliveryInv'
    <3>1. \A c2 \in Retriers : retrier'[c2].at # "idle" =>
                                 retrier'[c2].job \in Jobs
      BY <1>7 DEF ResetRow, DeliveryInv, TypeOK, IdleRetrier
    <3> QED
      BY <1>7, <3>1 DEF ResetRow, DeliveryInv, broker, worker
  <2> QED
    BY <2>3, <2>4
<1>8. ASSUME NEW c \in Retriers, PublishRetry(c) PROVE TypeInv'
  <2>1. CASE UNCHANGED msgs
    <3>1. TypeOK'
      BY <1>8, <2>1, NoMessageType DEF PublishRetry, TypeOK, worker
    <3>2. DeliveryInv'
      BY <1>8, <2>1 DEF PublishRetry, DeliveryInv, TypeOK, worker, IdleRetrier
    <3> QED
      BY <3>1, <3>2
  <2>2. CASE PublishOk(retrier[c].job, (retrier[c].count + 1))
    <3>1. retrier[c].job \in Jobs /\ (retrier[c].count + 1) \in Nat
      BY <1>8 DEF PublishRetry, TypeOK, DeliveryInv, Message, Incremented
    <3>2. msgs' \in [Msgs -> Message]
      BY <2>2, <3>1, PublishType DEF TypeOK
    <3>3. TypeOK'
      BY <1>8, <3>2, NoMessageType DEF PublishRetry, TypeOK, worker
    <3>4. DeliveryInv'
      <4>1. \A c2 \in Retriers : retrier'[c2].at # "idle" =>
                                   retrier'[c2].job \in Jobs
        BY <1>8 DEF PublishRetry, DeliveryInv, TypeOK, IdleRetrier
      <4>2. \A m \in Msgs : \/ msgs'[m] = msgs[m]
                             \/ /\ msgs[m].loc = "none"
                                /\ msgs'[m].loc = "queue"
                                /\ msgs'[m].job \in Jobs
        BY <2>2, <3>1, PublishFrame DEF TypeOK
      <4>3. held' = held /\ job' = job /\ pc' = pc /\ channel' = channel
        BY <1>8 DEF PublishRetry, worker
      <4> QED
        BY <4>1, <4>2, <4>3 DEF DeliveryInv, TypeOK
    <3> QED
      BY <3>3, <3>4
  <2> QED
    BY <1>8, <2>1, <2>2 DEF PublishRetry
<1>9. ASSUME NEW w \in Workers, NEW m \in Msgs, Deliver(w, m) PROVE TypeInv'
  <2>1. TypeOK'
    <3>1. [msgs[m] EXCEPT !.loc = "unacked"] \in Message
      BY DEF TypeOK, Message
    <3>2. msgs' \in [Msgs -> Message]
      BY <1>9, <3>1 DEF Deliver, TypeOK
    <3>3. UNCHANGED <<dlq, channel, server>>
      BY <1>9 DEF Deliver
    <3> QED
      BY <1>9, <3>2, <3>3 DEF Deliver, TypeOK, server, Message, Goto, Labels
  <2>2. /\ held[w] = NoMsg /\ held' = [held EXCEPT ![w] = m]
        /\ channel = "open" /\ msgs[m].loc = "queue"
        /\ msgs'[m].loc = "unacked" /\ msgs'[m].job = msgs[m].job
        /\ \A k \in Msgs : k # m => msgs'[k] = msgs[k]
        /\ UNCHANGED <<channel, pc, job, retrier>>
    BY <1>9 DEF Deliver, TypeOK, server, Message
  <2>3. \A k \in Msgs : msgs'[k].loc = "unacked" =>
                          \E v \in Workers : held'[v] = k
    <3> SUFFICES ASSUME NEW k \in Msgs, msgs'[k].loc = "unacked"
                 PROVE  \E v \in Workers : held'[v] = k
      OBVIOUS
    <3>1. CASE k = m
      BY <2>2, <3>1 DEF TypeOK
    <3>2. CASE k # m
      <4>1. PICK v \in Workers : held[v] = k
        BY <2>2, <3>2 DEF DeliveryInv
      <4>2. v # w
        BY <2>2, <4>1, JobAssumption
      <4> QED
        BY <2>2, <4>1, <4>2 DEF TypeOK
    <3> QED
      BY <3>1, <3>2
  <2>4. DeliveryInv'
    BY <2>2, <2>3, JobAssumption DEF DeliveryInv, TypeOK
  <2> QED
    BY <2>1, <2>4
<1>10. ASSUME NEW w \in Workers, GetJob(w) PROVE TypeInv'
  <2>1. TypeOK'
    BY <1>10 DEF GetJob, TypeOK, broker, server, Goto, Labels, Message
  <2>2. DeliveryInv'
    BY <1>10 DEF GetJob, DeliveryInv, TypeOK, broker, server, Goto
  <2> QED
    BY <2>1, <2>2
<1>11. ASSUME NEW w \in Workers, StartJob(w) PROVE TypeInv'
  <2>1. job[w] \in Jobs /\ rows[job[w]] \in Row
    BY <1>11 DEF StartJob, TypeOK, DeliveryInv
  <2>2. rows' \in [Jobs -> Row]
    BY <1>11, <2>1, RowUpdates, UpdateType DEF StartJob, TypeOK
  <2>3. TypeOK'
    BY <1>11, <2>2 DEF StartJob, TypeOK, broker, server, Goto, Labels
  <2>4. DeliveryInv'
    BY <1>11 DEF StartJob, DeliveryInv, TypeOK, broker, server, Goto
  <2> QED
    BY <2>3, <2>4
<1>12. ASSUME NEW w \in Workers, ReportStarted(w) PROVE TypeInv'
  <2>1. job[w] \in Jobs /\ rows[job[w]] \in Row
    BY <1>12 DEF ReportStarted, TypeOK, DeliveryInv
  <2>2. rows' \in [Jobs -> Row]
    BY <1>12, <2>1, RowUpdates, UpdateType DEF ReportStarted, TypeOK
  <2>3. TypeOK'
    BY <1>12, <2>2 DEF ReportStarted, TypeOK, broker, server, Goto, Labels
  <2>4. DeliveryInv'
    BY <1>12 DEF ReportStarted, DeliveryInv, TypeOK, broker, server, Goto
  <2> QED
    BY <2>3, <2>4
<1>13. ASSUME NEW w \in Workers, ScrapePage(w) PROVE TypeInv'
  <2>1. TypeOK'
    BY <1>13 DEF ScrapePage, TypeOK, broker, server, Goto, Labels
  <2>2. DeliveryInv'
    BY <1>13 DEF ScrapePage, DeliveryInv, TypeOK, broker, server, Goto
  <2> QED
    BY <2>1, <2>2
<1>14. ASSUME NEW w \in Workers, ReportScraped(w) PROVE TypeInv'
  <2>1. job[w] \in Jobs /\ rows[job[w]] \in Row
    BY <1>14 DEF ReportScraped, TypeOK, DeliveryInv
  <2>2. rows' \in [Jobs -> Row]
    BY <1>14, <2>1, RowUpdates, UpdateType DEF ReportScraped, TypeOK
  <2>3. TypeOK'
    BY <1>14, <2>2 DEF ReportScraped, TypeOK, broker, server, Goto, Labels
  <2>4. DeliveryInv'
    BY <1>14 DEF ReportScraped, DeliveryInv, TypeOK, broker, server, Goto
  <2> QED
    BY <2>3, <2>4
<1>15. ASSUME NEW w \in Workers, CompleteJob(w) PROVE TypeInv'
  <2>1. job[w] \in Jobs /\ rows[job[w]] \in Row
    BY <1>15 DEF CompleteJob, TypeOK, DeliveryInv
  <2>2. rows' \in [Jobs -> Row]
    BY <1>15, <2>1, RowUpdates, UpdateType DEF CompleteJob, TypeOK
  <2>3. TypeOK'
    BY <1>15, <2>2 DEF CompleteJob, TypeOK, broker, server, Goto, Labels
  <2>4. DeliveryInv'
    BY <1>15 DEF CompleteJob, DeliveryInv, TypeOK, broker, server, Goto
  <2> QED
    BY <2>3, <2>4
<1>16. ASSUME NEW w \in Workers, FailJob(w) PROVE TypeInv'
  <2>1. job[w] \in Jobs /\ rows[job[w]] \in Row
    BY <1>16 DEF FailJob, TypeOK, DeliveryInv
  <2>2. rows' \in [Jobs -> Row]
    BY <1>16, <2>1, RowUpdates, UpdateType DEF FailJob, TypeOK
  <2>3. TypeOK'
    BY <1>16, <2>2 DEF FailJob, TypeOK, broker, server, Goto, Labels
  <2>4. DeliveryInv'
    BY <1>16 DEF FailJob, DeliveryInv, TypeOK, broker, server, Goto
  <2> QED
    BY <2>3, <2>4
<1>17. ASSUME NEW w \in Workers, Republish(w) PROVE TypeInv'
  <2>1. CASE UNCHANGED msgs
    <3>1. TypeOK'
      BY <1>17, <2>1 DEF Republish, TypeOK, server, Goto, Labels
    <3>2. DeliveryInv'
      BY <1>17, <2>1 DEF Republish, DeliveryInv, TypeOK, server, Goto
    <3> QED
      BY <3>1, <3>2
  <2>2. CASE PublishOk(job[w], Incremented(msgs[held[w]].retry)) /\ msgs' # msgs
    <3>0. job[w] \in Jobs
      BY <1>17 DEF Republish, TypeOK, DeliveryInv
    <3>1. PICK n : PublishOk(job[w], n)
      BY <2>2
    <3>2. msgs' \in [Msgs -> Message]
      <4>1. channel = "open"
        BY <1>17, <2>2 DEF Republish
      <4>2. held[w] \in Msgs
        BY <1>17, <4>1 DEF Republish, DeliveryInv, TypeOK
      <4>3. Incremented(msgs[held[w]].retry) \in Nat
        BY <4>2 DEF TypeOK, Message, Incremented
      <4> QED
        BY <2>2, <4>3, <3>0, PublishType DEF TypeOK
    <3>3. TypeOK'
      BY <1>17, <3>2 DEF Republish, TypeOK, server, Goto, Labels
    <3>4. DeliveryInv'
      BY <1>17, <3>1, <3>0, PublishFrame DEF Republish, DeliveryInv, TypeOK, server, Goto
    <3> QED
      BY <3>3, <3>4
  <2> QED
    BY <1>17, <2>1, <2>2 DEF Republish
<1>18. ASSUME NEW w \in Workers, Ack(w) PROVE TypeInv'
  <2>1. Settle(w, FALSE) /\ job[w] \in Jobs
    BY <1>18 DEF Ack, DeliveryInv
  <2>2. msgs' \in [Msgs -> Message] /\ dlq' \subseteq Jobs
    BY <2>1, NoMessageType DEF Settle, TypeOK
  <2>3. TypeOK'
    BY <2>1, <2>2 DEF TypeOK, Settle, server, Goto, Labels
  <2>4. DeliveryInv'
    BY <2>1 DEF DeliveryInv, TypeOK, Settle, server, Goto, NoMessage
  <2> QED
    BY <2>3, <2>4
<1>19. ASSUME NEW w \in Workers, Nack(w) PROVE TypeInv'
  <2>1. Settle(w, TRUE) /\ job[w] \in Jobs
    BY <1>19 DEF Nack, DeliveryInv
  <2>2. msgs' \in [Msgs -> Message] /\ dlq' \subseteq Jobs
    BY <2>1, NoMessageType DEF Settle, TypeOK
  <2>3. TypeOK'
    BY <2>1, <2>2 DEF TypeOK, Settle, server, Goto, Labels
  <2>4. DeliveryInv'
    BY <2>1 DEF DeliveryInv, TypeOK, Settle, server, Goto, NoMessage
  <2> QED
    BY <2>3, <2>4
<1>20. ASSUME NEW w \in Workers, StopConsuming(w) PROVE TypeInv'
  <2>1. TypeOK'
    BY <1>20 DEF StopConsuming, TypeOK, broker, server, Goto, Labels
  <2>2. DeliveryInv'
    BY <1>20 DEF StopConsuming, DeliveryInv, TypeOK, broker, server, Goto
  <2> QED
    BY <2>1, <2>2
<1>21. ASSUME NEW m \in Msgs, Expire(m) PROVE TypeInv'
  <2>1. msgs[m].job \in Jobs
    BY <1>21 DEF Expire, DeliveryInv
  <2>2. TypeOK'
    BY <1>21, <2>1, NoMessageType DEF Expire, TypeOK, server, worker
  <2>3. DeliveryInv'
    BY <1>21 DEF Expire, DeliveryInv, TypeOK, server, worker, NoMessage, Message
  <2> QED
    BY <2>2, <2>3
<1>22. ASSUME Cleanup PROVE TypeInv'
  <2>1. TypeOK'
    BY <1>22, RowUpdates DEF Cleanup, TypeOK, broker, server, worker
  <2>2. DeliveryInv'
    BY <1>22 DEF Cleanup, DeliveryInv, TypeOK, broker, server, worker
  <2> QED
    BY <2>1, <2>2
<1>23. ASSUME BridgePoll PROVE TypeInv'
  <2>1. TypeOK'
    BY <1>23 DEF BridgePoll, TypeOK, broker, server, worker, Pending
  <2>2. DeliveryInv'
    BY <1>23 DEF BridgePoll, DeliveryInv, TypeOK, broker, server, worker
  <2> QED
    BY <2>1, <2>2
<1>24. ASSUME LoseConnection PROVE TypeInv'
  <2>1. TypeOK'
    BY <1>24, RequeuedType DEF LoseConnection, TypeOK, server
  <2>2. DeliveryInv'
    BY <1>24 DEF LoseConnection, DeliveryInv, TypeOK, server, Requeued, Message
  <2> QED
    BY <2>1, <2>2
<1>25. ASSUME StopPool PROVE TypeInv'
  <2>1. TypeOK'
    BY <1>25 DEF StopPool, TypeOK, broker, server, worker
  <2>2. DeliveryInv'
    BY <1>25 DEF StopPool, DeliveryInv, TypeOK, broker, server, worker
  <2> QED
    BY <2>1, <2>2
<1>26. ASSUME Crash PROVE TypeInv'
  <2>1. TypeOK'
    BY <1>26, RequeuedType, NoMessageType DEF Crash, TypeOK, Labels
  <2>2. DeliveryInv'
    BY <1>26 DEF Crash, DeliveryInv, TypeOK, Requeued, Message, IdleRetrier
  <2> QED
    BY <2>1, <2>2
<1>27. CASE UNCHANGED vars
  BY <1>27 DEF TypeOK, DeliveryInv, vars, broker, server, worker
<1> QED
  BY <1>1, <1>2, <1>3, <1>4, <1>5, <1>6, <1>7, <1>8, <1>9, <1>10, <1>11, <1>12,
     <1>13, <1>14, <1>15, <1>16, <1>17, <1>18, <1>19, <1>20, <1>21, <1>22, <1>23,
     <1>24, <1>25, <1>26, <1>27
     DEF Next, Step, Creation, RetryCall, Handler

\* Every variable keeps its type, and no delivery is ever held twice.
THEOREM TypeCorrect == Spec => []TypeInv
<1>1. TypeInv /\ [Next]_vars => TypeInv'
  BY TypeNext
<1> QED
  BY TypeInit, <1>1, PTL DEF Spec

-----------------------------------------------------------------------------
(* One worker per job.                                                     *)

\* A step that opens no job, lets no message carry a job it did not carry
\* before, starts no worker, and leaves unpublished jobs alone keeps the
\* invariant.
LEMMA SingleFrame ==
    ASSUME SingleInv,
           bridge' = {},
           \A c \in Retriers : retrier'[c].at = "idle",
           \A j \in Jobs : creator'[j] \in {"none", "publish", "fail"} =>
              /\ creator[j] \in {"none", "publish", "fail"}
              /\ \A w \in Workers : job'[w] # j
              /\ \A m \in Msgs : msgs'[m].loc # "none" => msgs'[m].job # j,
           \A j \in Jobs : Open(j)' => Open(j),
           \A j \in Jobs : IsPending(j)' => IsPending(j),
           \A m \in Msgs, j \in Jobs : Carries(m, j)' => Carries(m, j),
           \A w \in Workers, j \in Jobs : Executing(w, j)' => Executing(w, j),
           \A w \in Workers, j \in Jobs : Claims(w, j)' => Claims(w, j)
    PROVE  SingleInv'
<1>1. \A w \in Workers, j \in Jobs : Executing(w, j)' => ~IsPending(j)'
  BY DEF SingleInv
<1> QED
  BY <1>1 DEF SingleInv

\* No message carries a job anew when the broker's messages and deliveries
\* stand still and no Nack is taken back.
LEMMA CarriesFrame ==
    ASSUME msgs' = msgs, held' = held,
           \A w \in Workers : pc[w] = "nack" => pc'[w] = "nack"
    PROVE  \A m \in Msgs, j \in Jobs : Carries(m, j)' => Carries(m, j)
  BY DEF Carries

\* Workers that stand still claim and execute what they did.
LEMMA WorkerFrame ==
    ASSUME UNCHANGED <<pc, job, channel>>
    PROVE  /\ \A w \in Workers, j \in Jobs : Executing(w, j)' => Executing(w, j)
           /\ \A w \in Workers, j \in Jobs : Claims(w, j)' => Claims(w, j)
           /\ \A j \in Jobs : (IsPending(j)' => IsPending(j)) =>
                                (Open(j)' => Open(j))
  BY DEF Executing, Claims, Open

\* So do workers that only leave a job.
LEMMA LeaveFrame ==
    ASSUME TypeOK, NEW w \in Workers, NEW l, Goto(w, l),
           l \notin {"start", "options", "scrape", "scraped", "complete", "fail"},
           channel' = channel,
           \A v \in Workers : v # w => job'[v] = job[v]
    PROVE  /\ \A v \in Workers, j \in Jobs : Executing(v, j)' => Executing(v, j)
           /\ \A v \in Workers, j \in Jobs : Claims(v, j)' => Claims(v, j)
           /\ \A j \in Jobs : (IsPending(j)' => IsPending(j)) =>
                                (Open(j)' => Open(j))
<1>1. pc'[w] = l /\ \A v \in Workers : v # w => pc'[v] = pc[v]
  BY DEF Goto, TypeOK
<1> QED
  BY <1>1 DEF Executing, Claims, Open

\* And a worker that goes on with the job it executes.
LEMMA ProceedFrame ==
    ASSUME TypeOK, NEW w \in Workers, NEW l, Goto(w, l),
           pc[w] \in {"options", "scrape", "scraped", "complete", "fail"},
           l # "start", UNCHANGED <<job, channel>>
    PROVE  /\ \A v \in Workers, j \in Jobs : Executing(v, j)' => Executing(v, j)
           /\ \A v \in Workers, j \in Jobs : Claims(v, j)' => Claims(v, j)
           /\ \A j \in Jobs : (IsPending(j)' => IsPending(j)) =>
                                (Open(j)' => Open(j))
<1>1. pc'[w] = l /\ \A v \in Workers : v # w => pc'[v] = pc[v]
  BY DEF Goto, TypeOK
<1> QED
  BY <1>1 DEF Executing, Claims, Open

\* The UPDATEs other than RetryJob's make no row pending.
LEMMA PendingFrame ==
    ASSUME rows \in [Jobs -> Row], NEW j \in Jobs, NEW r,
           r \in {Started(rows[j]), Progressed(rows[j], 10),
                  Progressed(rows[j], 90), Completed(rows[j]),
                  Failed(rows[j]), Canceled(rows[j])},
           \/ UpdateOk(j, r) \/ UpdateError(j, r)
           \/ WorkerUpdateOk(j, r) \/ WorkerUpdateError(j, r)
    PROVE  \A k \in Jobs : IsPending(k)' => IsPending(k)
<1>1. r.status \in {"processing", "completed", "failed", "canceled",
                    rows[j].status}
  <2>1. /\ Started(rows[j]).status = "processing"
        /\ Progressed(rows[j], 10).status = rows[j].status
        /\ Progressed(rows[j], 90).status = rows[j].status
    BY DEF Started, Progressed, Row
  <2>2. /\ Completed(rows[j]).status = "completed"
        /\ Failed(rows[j]).status = "failed"
        /\ Canceled(rows[j]).status = "canceled"
    BY DEF Completed, Failed, Canceled, Row
  <2> QED
    BY <2>1, <2>2
<1>2. rows' = rows \/ rows' = [rows EXCEPT ![j] = r]
  BY DEF UpdateOk, UpdateError, WorkerUpdateOk, WorkerUpdateError, Store
<1> QED
  BY <1>1, <1>2 DEF IsPending

LEMMA SingleInit == Init => SingleInv
<1> SUFFICES ASSUME Init PROVE SingleInv
  OBVIOUS
<1>1. \A m \in Msgs : msgs[m].loc = "none"
  BY DEF Init, NoMessage
<1>2. \A w \in Workers : pc[w] = "idle" /\ job[w] = NoJob
  BY DEF Init
<1> QED
  BY <1>1, <1>2, JobAssumption
     DEF Init, SingleInv, Carries, Executing, Claims, IdleRetrier

LEMMA SingleNext ==
    ASSUME NoDuplicates, TypeInv, SingleInv, [Next]_vars
    PROVE  SingleInv'
<1> USE DEF TypeInv
<1>0. bridge = {} /\ \A c \in Retriers : retrier[c].at = "idle"
  BY DEF SingleInv
<1>1. ASSUME NEW j \in Jobs, InsertJob(j) PROVE SingleInv'
  <2>1. /\ creator[j] = "none"
        /\ \A k \in Jobs : k # j => rows'[k] = rows[k] /\ creator'[k] = creator[k]
        /\ UNCHANGED <<msgs, held, pc, job, channel, bridge, retrier>>
    BY <1>1 DEF InsertJob, TypeOK, Store, broker, worker
  <2>2. /\ \A m \in Msgs : msgs[m].loc # "none" => msgs[m].job # j
        /\ \A w \in Workers : job[w] # j
    BY <2>1 DEF SingleInv
  <2>3. \A m \in Msgs : ~Carries(m, j)'
    BY <2>1, <2>2 DEF Carries
  <2>4. \A k \in Jobs : k # j => /\ IsPending(k)' => IsPending(k)
                                 /\ Open(k)' => Open(k)
    BY <2>1 DEF IsPending, Open
  <2>5. \A k \in Jobs, m \in Msgs : Carries(m, k)' => Carries(m, k)
    BY <2>1, CarriesFrame
  <2>6. \A w \in Workers, k \in Jobs : /\ Executing(w, k)' => Executing(w, k) /\ k # j
                                       /\ Claims(w, k)' => Claims(w, k)
    BY <2>1, <2>2 DEF Executing, Claims
  <2>7. \A k \in Jobs, m1, m2 \in Msgs :
            Open(k)' /\ Carries(m1, k)' /\ Carries(m2, k)' => m1 = m2
    BY <2>3, <2>4, <2>5 DEF SingleInv
  <2>8. \A w \in Workers, k \in Jobs : Executing(w, k)' => ~IsPending(k)'
    BY <2>4, <2>6 DEF SingleInv
  <2>9. \A k \in Jobs : creator'[k] \in {"none", "publish", "fail"} =>
            /\ \A m \in Msgs : msgs'[m].loc # "none" => msgs'[m].job # k
            /\ \A w \in Workers : job'[w] # k
    BY <2>1, <2>2 DEF SingleInv
  <2> QED
    BY <2>1, <2>6, <2>7, <2>8, <2>9 DEF SingleInv
<1>2. ASSUME NEW j \in Jobs, PublishCreated(j) PROVE SingleInv'
  <2>0. /\ creator[j] = "publish"
        /\ \A k \in Jobs : k # j => creator'[k] = creator[k]
        /\ UNCHANGED <<rows, held, pc, job, channel, bridge, retrier>>
    BY <1>2 DEF PublishCreated, TypeOK, worker
  <2>1. /\ \A w \in Workers, k \in Jobs : Executing(w, k)' => Executing(w, k)
        /\ \A w \in Workers, k \in Jobs : Claims(w, k)' => Claims(w, k)
        /\ \A k \in Jobs : IsPending(k)' => IsPending(k)
        /\ \A k \in Jobs : Open(k)' => Open(k)
    BY <2>0, WorkerFrame DEF IsPending
  <2>2. CASE UNCHANGED msgs
    BY <2>0, <2>1, <2>2, CarriesFrame, SingleFrame DEF SingleInv
  <2>3. CASE PublishOk(j, 0) /\ creator' = [creator EXCEPT ![j] = "done"]
    <3>1. \A m \in Msgs : msgs[m].loc # "none" => msgs[m].job # j
      BY <2>0 DEF SingleInv
    <3>2. \A m \in Msgs : \/ msgs'[m] = msgs[m]
                          \/ msgs[m].loc = "none" /\ msgs'[m].job = j
      BY <2>3, PublishFrame DEF TypeOK
    <3>3. \A m1, m2 \in Msgs :
              msgs[m1] # msgs'[m1] /\ msgs[m2] # msgs'[m2] => m1 = m2
      BY <2>3 DEF PublishOk, Free, TypeOK
    <3>4. \A m \in Msgs, k \in Jobs : Carries(m, k)' =>
              \/ Carries(m, k) /\ k # j
              \/ k = j /\ msgs[m] # msgs'[m]
      BY <2>0, <3>1, <3>2 DEF Carries
    <3>5. \A k \in Jobs : creator'[k] \in {"none", "publish", "fail"} =>
              k # j /\ creator[k] \in {"none", "publish", "fail"}
      BY <2>0, <2>3 DEF TypeOK
    <3>6. \A k \in Jobs : creator'[k] \in {"none", "publish", "fail"} =>
              /\ \A m \in Msgs : msgs'[m].loc # "none" => msgs'[m].job # k
              /\ \A w \in Workers : job'[w] # k
      BY <2>0, <3>2, <3>5 DEF SingleInv
    <3>7. \A k \in Jobs, m1, m2 \in Msgs :
              Open(k)' /\ Carries(m1, k)' /\ Carries(m2, k)' => m1 = m2
      BY <2>1, <3>3, <3>4 DEF SingleInv
    <3>8. \A w \in Workers, k \in Jobs : Executing(w, k)' => ~IsPending(k)'
      BY <2>1 DEF SingleInv
    <3> QED
      BY <2>0, <2>1, <3>6, <3>7, <3>8 DEF SingleInv
  <2> QED
    BY <1>2, <2>2, <2>3 DEF PublishCreated, PublishOk
<1>3. ASSUME NEW j \in Jobs, FailUnpublished(j) PROVE SingleInv'
  <2>1. UNCHANGED <<msgs, held, pc, job, channel, bridge, retrier>>
    BY <1>3 DEF FailUnpublished, broker, worker
  <2>2. \A k \in Jobs : IsPending(k)' => IsPending(k)
    BY <1>3, PendingFrame DEF FailUnpublished, TypeOK
  <2>3. \A k \in Jobs : creator'[k] \in {"none", "publish", "fail"} =>
                           creator[k] \in {"none", "publish", "fail"}
    BY <1>3 DEF FailUnpublished, TypeOK
  <2> QED
    BY <1>0, <2>1, <2>2, <2>3, WorkerFrame, CarriesFrame, SingleFrame DEF SingleInv
<1>4. ASSUME NEW j \in Jobs, CancelJob(j) PROVE SingleInv'
  <2>1. UNCHANGED <<msgs, held, pc, job, channel, bridge, retrier, creator>>
    BY <1>4 DEF CancelJob, broker, worker, server
  <2>2. \A k \in Jobs : IsPending(k)' => IsPending(k)
    BY <1>4, PendingFrame DEF CancelJob, TypeOK
  <2> QED
    BY <1>0, <2>1, <2>2, WorkerFrame, CarriesFrame, SingleFrame DEF SingleInv
<1>5. ASSUME NEW j \in Jobs, BridgePublish(j) PROVE SingleInv'
  BY <1>0, <1>5 DEF BridgePublish
<1>6. ASSUME NEW c \in Retriers, NEW j \in Jobs, ReadRetryCount(c, j) PROVE SingleInv'
  BY <1>6 DEF ReadRetryCount, NoDuplicates
<1>7. ASSUME NEW c \in Retriers, ResetRow(c) PROVE SingleInv'
  BY <1>0, <1>7 DEF ResetRow
<1>8. ASSUME NEW c \in Retriers, PublishRetry(c) PROVE SingleInv'
  BY <1>0, <1>8 DEF PublishRetry
<1>9. ASSUME NEW w \in Workers, NEW m \in Msgs, Deliver(w, m) PROVE SingleInv'
  <2>1. UNCHANGED <<rows, channel, creator, retrier, bridge, pc, job>>
    BY <1>9 DEF Deliver, server
  <2>2. \A k \in Msgs : msgs'[k].loc # "none" =>
                          msgs[k].loc # "none" /\ msgs'[k].job = msgs[k].job
    BY <1>9 DEF Deliver, TypeOK, Message
  <2>3. \A k \in Msgs, j \in Jobs : Carries(k, j)' => Carries(k, j)
    BY <1>9 DEF Deliver, Carries, TypeOK, DeliveryInv, Message
  <2>4. \A k \in Jobs : IsPending(k)' => IsPending(k)
    BY <2>1 DEF IsPending
  <2> QED
    BY <1>0, <2>1, <2>2, <2>3, <2>4, WorkerFrame, SingleFrame DEF SingleInv
<1>10. ASSUME NEW w \in Workers, GetJob(w) PROVE SingleInv'
  <2> DEFINE j == msgs[held[w]].job
  <2>1. /\ pc[w] = "idle" /\ held[w] \in Msgs /\ j \in Jobs
        /\ msgs[held[w]].loc = "unacked" /\ channel = "open"
        /\ UNCHANGED <<rows, msgs, channel, creator, retrier, bridge, held>>
        /\ job'[w] = j /\ \A v \in Workers : v # w => job'[v] = job[v]
    BY <1>10 DEF GetJob, TypeOK, DeliveryInv, broker, server
  <2>2. \A v \in Workers : v # w => pc'[v] = pc[v]
    BY <1>10 DEF GetJob, Goto, TypeOK
  <2>3. \/ pc'[w] = "start" /\ IsPending(j)
        \/ pc'[w] = "error"
    BY <1>10 DEF GetJob, Goto, TypeOK
  <2>4. Carries(held[w], j)
    BY <2>1 DEF Carries
  <2>5. \A k \in Jobs : IsPending(k)' <=> IsPending(k)
    BY <2>1 DEF IsPending
  <2>6. \A m \in Msgs, k \in Jobs : Carries(m, k)' => Carries(m, k)
    BY <2>1, <2>2 DEF Carries
  <2>7. \A k \in Jobs : Open(k)' => Open(k)
    BY <2>1, <2>2, <2>3, <2>5 DEF Open
  <2>8. \A v \in Workers, k \in Jobs : Executing(v, k)' => v # w /\ Executing(v, k)
    BY <2>1, <2>2, <2>3 DEF Executing
  <2>9. \A v \in Workers, k \in Jobs : Claims(v, k)' =>
            \/ v # w /\ Claims(v, k)
            \/ v = w /\ k = j /\ IsPending(j)
    BY <2>1, <2>2, <2>3 DEF Claims, Executing
  <2>10. ASSUME IsPending(j), NEW v \in Workers, Claims(v, j), v # w PROVE FALSE
    <3>1. ~Executing(v, j)
      BY <2>1, <2>10 DEF SingleInv
    <3>2. pc[v] = "start" /\ job[v] = j
      BY <2>10, <3>1 DEF Claims
    <3>3. held[v] \in Msgs /\ Carries(held[v], j)
      BY <2>1, <3>2 DEF TypeOK, DeliveryInv, Carries
    <3>4. held[v] = held[w]
      BY <2>1, <2>4, <2>10, <3>3 DEF SingleInv, Open
    <3> QED
      BY <2>1, <2>10, <3>4, JobAssumption DEF DeliveryInv
  <2>11. \A v1, v2 \in Workers, k \in Jobs :
            Claims(v1, k)' /\ Claims(v2, k)' => v1 = v2
    BY <2>9, <2>10 DEF SingleInv
  <2>12. \A v \in Workers, k \in Jobs : Executing(v, k)' => ~IsPending(k)'
    BY <2>5, <2>8 DEF SingleInv
  <2>13. \A k \in Jobs : creator'[k] \in {"none", "publish", "fail"} =>
            /\ \A m \in Msgs : msgs'[m].loc # "none" => msgs'[m].job # k
            /\ \A v \in Workers : job'[v] # k
    BY <2>1 DEF SingleInv
  <2>14. \A k \in Jobs, m1, m2 \in Msgs :
            Open(k)' /\ Carries(m1, k)' /\ Carries(m2, k)' => m1 = m2
    BY <2>6, <2>7 DEF SingleInv
  <2> QED
    BY <1>0, <2>1, <2>11, <2>12, <2>13, <2>14 DEF SingleInv
<1>11. ASSUME NEW w \in Workers, StartJob(w) PROVE SingleInv'
  <2> DEFINE j == job[w]
  <2>1. /\ pc[w] = "start" /\ j \in Jobs
        /\ UNCHANGED <<msgs, channel, creator, retrier, bridge, held, job>>
    BY <1>11 DEF StartJob, TypeOK, DeliveryInv, broker, server
  <2>2. \A v \in Workers : v # w => pc'[v] = pc[v]
    BY <1>11 DEF StartJob, Goto, TypeOK
  <2>3. \A k \in Jobs : IsPending(k)' => IsPending(k)
    BY <1>11, <2>1, PendingFrame DEF StartJob, TypeOK
  <2>4. \/ pc'[w] = "options" /\ ~IsPending(j)'
        \/ pc'[w] = "error"
    BY <1>11, <2>1 DEF StartJob, Goto, TypeOK, WorkerUpdateOk, UpdateOk, Store,
       Started, IsPending, Row
  <2>5. \A m \in Msgs, k \in Jobs : Carries(m, k)' => Carries(m, k)
    BY <2>1, <2>2 DEF Carries
  <2>6. \A k \in Jobs : Open(k)' => Open(k)
    BY <2>1, <2>2, <2>3, <2>4 DEF Open
  <2>7. \A v \in Workers, k \in Jobs : Claims(v, k)' => Claims(v, k)
    BY <2>1, <2>2, <2>4 DEF Claims, Executing
  <2>8. \A v \in Workers, k \in Jobs : Executing(v, k)' => ~IsPending(k)'
    <3> SUFFICES ASSUME NEW v \in Workers, NEW k \in Jobs, Executing(v, k)'
                 PROVE  ~IsPending(k)'
      OBVIOUS
    <3>1. CASE v = w
      BY <2>1, <2>4, <3>1 DEF Executing
    <3>2. CASE v # w
      BY <2>1, <2>2, <2>3, <3>2 DEF Executing, SingleInv
    <3> QED
      BY <3>1, <3>2
  <2>9. \A k \in Jobs : creator'[k] \in {"none", "publish", "fail"} =>
            /\ \A m \in Msgs : msgs'[m].loc # "none" => msgs'[m].job # k
            /\ \A v \in Workers : job'[v] # k
    BY <2>1 DEF SingleInv
  <2>10. \A k \in Jobs, m1, m2 \in Msgs :
            Open(k)' /\ Carries(m1, k)' /\ Carries(m2, k)' => m1 = m2
    BY <2>5, <2>6 DEF SingleInv
  <2> QED
    BY <1>0, <2>1, <2>7, <2>8, <2>9, <2>10 DEF SingleInv
<1>12. ASSUME NEW w \in Workers, ReportStarted(w) PROVE SingleInv'
  <2>1. /\ pc[w] \in {"options", "scrape", "scraped", "complete", "fail"}
        /\ job[w] \in Jobs
        /\ UNCHANGED <<msgs, channel, creator, retrier, bridge, held, job>>
    BY <1>12 DEF ReportStarted, TypeOK, DeliveryInv, broker, server
  <2>2. \A k \in Jobs : IsPending(k)' => IsPending(k)
    <3>1. CASE UNCHANGED rows
      BY <3>1 DEF IsPending
    <3>2. CASE ~UNCHANGED rows
      BY <1>12, <2>1, <3>2, PendingFrame DEF ReportStarted, TypeOK
    <3> QED
      BY <3>1, <3>2
  <2>3. PICK l \in Labels : Goto(w, l) /\ l # "start"
    BY <1>12 DEF ReportStarted, Labels
  <2>4. \A v \in Workers : pc[v] = "nack" => pc'[v] = "nack"
    BY <2>1, <2>3 DEF Goto, TypeOK
  <2> QED
    BY <1>0, <2>1, <2>2, <2>3, <2>4, ProceedFrame, CarriesFrame, SingleFrame
       DEF SingleInv
<1>13. ASSUME NEW w \in Workers, ScrapePage(w) PROVE SingleInv'
  <2>1. /\ pc[w] \in {"options", "scrape", "scraped", "complete", "fail"}
        /\ job[w] \in Jobs
        /\ UNCHANGED <<msgs, channel, creator, retrier, bridge, held, job>>
    BY <1>13 DEF ScrapePage, TypeOK, DeliveryInv, broker, server
  <2>2. \A k \in Jobs : IsPending(k)' => IsPending(k)
    BY <1>13 DEF ScrapePage, IsPending
  <2>3. PICK l \in Labels : Goto(w, l) /\ l # "start"
    BY <1>13 DEF ScrapePage, Labels
  <2>4. \A v \in Workers : pc[v] = "nack" => pc'[v] = "nack"
    BY <2>1, <2>3 DEF Goto, TypeOK
  <2> QED
    BY <1>0, <2>1, <2>2, <2>3, <2>4, ProceedFrame, CarriesFrame, SingleFrame
       DEF SingleInv
<1>14. ASSUME NEW w \in Workers, ReportScraped(w) PROVE SingleInv'
  <2>1. /\ pc[w] \in {"options", "scrape", "scraped", "complete", "fail"}
        /\ job[w] \in Jobs
        /\ UNCHANGED <<msgs, channel, creator, retrier, bridge, held, job>>
    BY <1>14 DEF ReportScraped, TypeOK, DeliveryInv, broker, server
  <2>2. \A k \in Jobs : IsPending(k)' => IsPending(k)
    BY <1>14, <2>1, PendingFrame DEF ReportScraped, TypeOK
  <2>3. PICK l \in Labels : Goto(w, l) /\ l # "start"
    BY <1>14 DEF ReportScraped, Labels
  <2>4. \A v \in Workers : pc[v] = "nack" => pc'[v] = "nack"
    BY <2>1, <2>3 DEF Goto, TypeOK
  <2> QED
    BY <1>0, <2>1, <2>2, <2>3, <2>4, ProceedFrame, CarriesFrame, SingleFrame
       DEF SingleInv
<1>15. ASSUME NEW w \in Workers, CompleteJob(w) PROVE SingleInv'
  <2>1. /\ pc[w] \in {"options", "scrape", "scraped", "complete", "fail"}
        /\ job[w] \in Jobs
        /\ UNCHANGED <<msgs, channel, creator, retrier, bridge, held, job>>
    BY <1>15 DEF CompleteJob, TypeOK, DeliveryInv, broker, server
  <2>2. \A k \in Jobs : IsPending(k)' => IsPending(k)
    BY <1>15, <2>1, PendingFrame DEF CompleteJob, TypeOK
  <2>3. PICK l \in Labels : Goto(w, l) /\ l # "start"
    BY <1>15 DEF CompleteJob, Labels
  <2>4. \A v \in Workers : pc[v] = "nack" => pc'[v] = "nack"
    BY <2>1, <2>3 DEF Goto, TypeOK
  <2> QED
    BY <1>0, <2>1, <2>2, <2>3, <2>4, ProceedFrame, CarriesFrame, SingleFrame
       DEF SingleInv
<1>16. ASSUME NEW w \in Workers, FailJob(w) PROVE SingleInv'
  <2>1. /\ pc[w] \in {"options", "scrape", "scraped", "complete", "fail"}
        /\ job[w] \in Jobs
        /\ UNCHANGED <<msgs, channel, creator, retrier, bridge, held, job>>
    BY <1>16 DEF FailJob, TypeOK, DeliveryInv, broker, server
  <2>2. \A k \in Jobs : IsPending(k)' => IsPending(k)
    BY <1>16, <2>1, PendingFrame DEF FailJob, TypeOK
  <2>3. PICK l \in Labels : Goto(w, l) /\ l # "start"
    BY <1>16 DEF FailJob, Labels
  <2>4. \A v \in Workers : pc[v] = "nack" => pc'[v] = "nack"
    BY <2>1, <2>3 DEF Goto, TypeOK
  <2> QED
    BY <1>0, <2>1, <2>2, <2>3, <2>4, ProceedFrame, CarriesFrame, SingleFrame
       DEF SingleInv
<1>17. ASSUME NEW w \in Workers, Republish(w) PROVE SingleInv'
  <2>0. /\ pc[w] = "error" /\ job[w] \in Jobs
        /\ Goto(w, "nack")
        /\ UNCHANGED <<rows, channel, creator, retrier, bridge, held, job>>
    BY <1>17 DEF Republish, TypeOK, DeliveryInv, server
  <2>1. /\ pc'[w] = "nack"
        /\ \A v \in Workers : v # w => pc'[v] = pc[v]
    BY <2>0 DEF TypeOK, Goto
  <2>2. \A k \in Jobs : IsPending(k)' <=> IsPending(k)
    BY <2>0 DEF IsPending
  <2>3. /\ \A v \in Workers, k \in Jobs : Executing(v, k)' => Executing(v, k)
        /\ \A v \in Workers, k \in Jobs : Claims(v, k)' => Claims(v, k)
        /\ \A k \in Jobs : Open(k)' => Open(k)
    BY <2>0, <2>2, LeaveFrame
  <2>4. CASE UNCHANGED msgs
    <3>1. \A v \in Workers : pc[v] = "nack" => pc'[v] = "nack"
      BY <2>1
    <3> QED
      BY <1>0, <2>0, <2>2, <2>3, <2>4, <3>1, CarriesFrame, SingleFrame DEF SingleInv
  <2>5. CASE /\ channel = "open"
             /\ PublishOk(job[w], Incremented(msgs[held[w]].retry))
    <3> DEFINE j == job[w]
    <3>1. /\ held[w] \in Msgs
          /\ msgs[held[w]].loc = "unacked"
          /\ Carries(held[w], j)
      BY <2>0, <2>5 DEF TypeOK, DeliveryInv, Carries
    <3>2. \A m \in Msgs : \/ msgs'[m] = msgs[m]
                          \/ msgs[m].loc = "none" /\ msgs'[m].job = j
      BY <2>5, PublishFrame DEF TypeOK
    <3>3. \A m \in Msgs, k \in Jobs : Carries(m, k)' =>
              \/ Carries(m, k) /\ m # held[w]
              \/ k = j /\ msgs[m] # msgs'[m]
      <4> SUFFICES ASSUME NEW m \in Msgs, NEW k \in Jobs, Carries(m, k)'
                   PROVE  \/ Carries(m, k) /\ m # held[w]
                          \/ k = j /\ msgs[m] # msgs'[m]
        OBVIOUS
      <4>1. CASE msgs'[m] # msgs[m]
        BY <3>2, <4>1 DEF Carries
      <4>2. CASE msgs'[m] = msgs[m]
        <5>1. m # held[w]
          BY <2>0, <2>1, <3>1, <4>2, JobAssumption DEF Carries, DeliveryInv
        <5>2. Carries(m, k)
          BY <2>0, <2>1, <4>2, <5>1 DEF Carries
        <5> QED
          BY <5>1, <5>2
      <4> QED
        BY <4>1, <4>2
    <3>4. \A m1, m2 \in Msgs :
              msgs[m1] # msgs'[m1] /\ msgs[m2] # msgs'[m2] => m1 = m2
      BY <2>5 DEF PublishOk, Free, TypeOK
    <3>5. \A k \in Jobs, m1, m2 \in Msgs :
              Open(k)' /\ Carries(m1, k)' /\ Carries(m2, k)' => m1 = m2
      BY <2>3, <3>1, <3>3, <3>4 DEF SingleInv
    <3>6. \A v \in Workers, k \in Jobs : Executing(v, k)' => ~IsPending(k)'
      BY <2>2, <2>3 DEF SingleInv
    <3>7. \A k \in Jobs : creator'[k] \in {"none", "publish", "fail"} =>
            /\ \A m \in Msgs : msgs'[m].loc # "none" => msgs'[m].job # k
            /\ \A v \in Workers : job'[v] # k
      BY <2>0, <3>2 DEF SingleInv
    <3> QED
      BY <1>0, <2>0, <2>3, <3>5, <3>6, <3>7 DEF SingleInv
  <2> QED
    BY <1>17, <2>4, <2>5 DEF Republish
<1>18. ASSUME NEW w \in Workers, Ack(w) PROVE SingleInv'
  <2>1. Settle(w, FALSE)
    BY <1>18 DEF Ack
  <2>2. /\ UNCHANGED <<rows, channel, creator, retrier, bridge>>
        /\ Goto(w, "idle") /\ job' = [job EXCEPT ![w] = NoJob]
    BY <2>1 DEF Settle, server
  <2>3. \A m \in Msgs, j \in Jobs : Carries(m, j)' => Carries(m, j)
    BY <2>1, JobAssumption
       DEF Settle, Carries, TypeOK, DeliveryInv, NoMessage, Goto
  <2>4. \A m \in Msgs : msgs'[m].loc # "none" => msgs'[m] = msgs[m]
    BY <2>1 DEF Settle, TypeOK, NoMessage
  <2>5. \A j \in Jobs, v \in Workers : job'[v] = j => job[v] = j
    BY <2>2, JobAssumption DEF TypeOK
  <2>6. \A k \in Jobs : IsPending(k)' => IsPending(k)
    BY <2>2 DEF IsPending
  <2>7. \A v \in Workers : v # w => job'[v] = job[v]
    BY <2>2 DEF TypeOK
  <2>8. /\ \A v \in Workers, k \in Jobs : Executing(v, k)' => Executing(v, k)
        /\ \A v \in Workers, k \in Jobs : Claims(v, k)' => Claims(v, k)
        /\ \A k \in Jobs : Open(k)' => Open(k)
    BY <2>2, <2>6, <2>7, LeaveFrame
  <2>9. \A k \in Jobs : creator'[k] \in {"none", "publish", "fail"} =>
            /\ creator[k] \in {"none", "publish", "fail"}
            /\ \A m \in Msgs : msgs'[m].loc # "none" => msgs'[m].job # k
            /\ \A v \in Workers : job'[v] # k
    BY <2>2, <2>4, <2>5 DEF SingleInv
  <2> QED
    BY <1>0, <2>2, <2>3, <2>6, <2>8, <2>9, SingleFrame
<1>19. ASSUME NEW w \in Workers, Nack(w) PROVE SingleInv'
  <2>1. Settle(w, TRUE)
    BY <1>19 DEF Nack
  <2>2. /\ UNCHANGED <<rows, channel, creator, retrier, bridge>>
        /\ Goto(w, "idle") /\ job' = [job EXCEPT ![w] = NoJob]
    BY <2>1 DEF Settle, server
  <2>3. \A m \in Msgs, j \in Jobs : Carries(m, j)' => Carries(m, j)
    BY <2>1, JobAssumption
       DEF Settle, Carries, TypeOK, DeliveryInv, NoMessage, Goto
  <2>4. \A m \in Msgs : msgs'[m].loc # "none" => msgs'[m] = msgs[m]
    BY <2>1 DEF Settle, TypeOK, NoMessage
  <2>5. \A j \in Jobs, v \in Workers : job'[v] = j => job[v] = j
    BY <2>2, JobAssumption DEF TypeOK
  <2>6. \A k \in Jobs : IsPending(k)' => IsPending(k)
    BY <2>2 DEF IsPending
  <2>7. \A v \in Workers : v # w => job'[v] = job[v]
    BY <2>2 DEF TypeOK
  <2>8. /\ \A v \in Workers, k \in Jobs : Executing(v, k)' => Executing(v, k)
        /\ \A v \in Workers, k \in Jobs : Claims(v, k)' => Claims(v, k)
        /\ \A k \in Jobs : Open(k)' => Open(k)
    BY <2>2, <2>6, <2>7, LeaveFrame
  <2>9. \A k \in Jobs : creator'[k] \in {"none", "publish", "fail"} =>
            /\ creator[k] \in {"none", "publish", "fail"}
            /\ \A m \in Msgs : msgs'[m].loc # "none" => msgs'[m].job # k
            /\ \A v \in Workers : job'[v] # k
    BY <2>2, <2>4, <2>5 DEF SingleInv
  <2> QED
    BY <1>0, <2>2, <2>3, <2>6, <2>8, <2>9, SingleFrame
<1>20. ASSUME NEW w \in Workers, StopConsuming(w) PROVE SingleInv'
  <2>1. /\ pc[w] = "idle" /\ Goto(w, "stopped")
        /\ UNCHANGED <<rows, msgs, channel, creator, retrier, bridge, held, job>>
    BY <1>20 DEF StopConsuming, broker, server
  <2>2. \A k \in Jobs : IsPending(k)' => IsPending(k)
    BY <2>1 DEF IsPending
  <2>3. \A v \in Workers : pc[v] = "nack" => pc'[v] = "nack"
    BY <2>1 DEF Goto, TypeOK
  <2> QED
    BY <1>0, <2>1, <2>2, <2>3, LeaveFrame, CarriesFrame, SingleFrame DEF SingleInv
<1>21. ASSUME NEW m \in Msgs, Expire(m) PROVE SingleInv'
  <2>1. UNCHANGED <<rows, channel, creator, retrier, bridge, pc, held, job>>
    BY <1>21 DEF Expire, server, worker
  <2>2. \A k \in Msgs : msgs'[k].loc # "none" => msgs'[k] = msgs[k]
    BY <1>21 DEF Expire, TypeOK, NoMessage
  <2>3. \A k \in Msgs, j \in Jobs : Carries(k, j)' => Carries(k, j)
    BY <2>1, <2>2 DEF Carries
  <2>4. \A k \in Jobs : IsPending(k)' => IsPending(k)
    BY <2>1 DEF IsPending
  <2> QED
    BY <1>0, <2>1, <2>2, <2>3, <2>4, WorkerFrame, SingleFrame DEF SingleInv
<1>22. ASSUME Cleanup PROVE SingleInv'
  <2>1. UNCHANGED <<msgs, channel, creator, retrier, bridge, pc, held, job>>
    BY <1>22 DEF Cleanup, broker, server, worker
  <2>2. \A k \in Jobs : IsPending(k)' => IsPending(k)
    BY <1>22 DEF Cleanup, IsPending, AbsentRow
  <2> QED
    BY <1>0, <2>1, <2>2, WorkerFrame, CarriesFrame, SingleFrame DEF SingleInv
<1>23. ASSUME BridgePoll PROVE SingleInv'
  BY <1>23 DEF BridgePoll, NoDuplicates
<1>24. ASSUME LoseConnection \/ Crash PROVE SingleInv'
  <2>0. ~CopyUnsettled
    BY <1>24 DEF LoseConnection, Crash, MayFail, NoDuplicates
  <2>1. /\ UNCHANGED <<rows, bridge>>
        /\ msgs' = Requeued(msgs)
        /\ \A c \in Retriers : retrier'[c].at = "idle"
    BY <1>0, <1>24 DEF LoseConnection, Crash, server, IdleRetrier
  <2>2. \A m \in Msgs : /\ msgs'[m].job = msgs[m].job
                        /\ msgs'[m].loc = "none" <=> msgs[m].loc = "none"
    BY <2>1 DEF Requeued, TypeOK, Message
  <2>3. \A k \in Jobs : IsPending(k)' <=> IsPending(k)
    BY <2>1 DEF IsPending
  <2>4. \A k \in Jobs : Open(k)' => IsPending(k)
    BY <1>24, <2>3 DEF LoseConnection, Crash, Open
  <2>5. \A v \in Workers, k \in Jobs : /\ Executing(v, k)' => Executing(v, k)
                                       /\ Claims(v, k)' => Claims(v, k)
    BY <1>24 DEF LoseConnection, Crash, Executing, Claims
  <2>6. \A m \in Msgs, k \in Jobs : msgs[m].job = k /\ msgs[m].loc # "none" =>
            \/ Carries(m, k)
            \/ \E w \in Workers : held[w] = m /\ pc[w] = "nack" /\ job[w] = k
    <3> SUFFICES ASSUME NEW m \in Msgs, NEW k \in Jobs,
                        msgs[m].job = k, msgs[m].loc # "none", ~Carries(m, k)
                 PROVE  \E w \in Workers : held[w] = m /\ pc[w] = "nack" /\ job[w] = k
      OBVIOUS
    <3>1. msgs[m].loc = "unacked"
      BY DEF Carries, TypeOK, Message
    <3>2. PICK w \in Workers : held[w] = m
      BY <3>1 DEF DeliveryInv
    <3>3. pc[w] = "nack"
      BY <3>1, <3>2 DEF Carries
    <3>4. held[w] # NoMsg
      BY <3>2, JobAssumption
    <3>5. job[w] = k
      BY <3>2, <3>3, <3>4 DEF DeliveryInv
    <3> QED
      BY <3>2, <3>3, <3>5
  <2>7. ASSUME NEW k \in Jobs, NEW m1 \in Msgs, NEW m2 \in Msgs,
               Open(k)', Carries(m1, k)', Carries(m2, k)'
        PROVE  m1 = m2
    <3>1. /\ msgs[m1].job = k /\ msgs[m1].loc # "none"
          /\ msgs[m2].job = k /\ msgs[m2].loc # "none"
      BY <2>2, <2>7 DEF Carries
    <3>2. IsPending(k) /\ Open(k)
      BY <2>4, <2>7 DEF Open
    <3>3. ASSUME NEW n1 \in Msgs, NEW n2 \in Msgs, n1 # n2,
                 msgs[n1].job = k, msgs[n1].loc # "none",
                 msgs[n2].job = k, msgs[n2].loc # "none"
          PROVE  Carries(n1, k)
      <4> SUFFICES ASSUME ~Carries(n1, k) PROVE FALSE
        OBVIOUS
      <4>1. PICK w \in Workers : held[w] = n1 /\ pc[w] = "nack" /\ job[w] = k
        BY <2>6, <3>3
      <4>2. held[w] \notin {NoMsg, n2}
        BY <3>3, <4>1, JobAssumption
      <4> QED
        BY <2>0, <3>2, <3>3, <4>1, <4>2 DEF CopyUnsettled
    <3>4. m1 # m2 => Carries(m1, k) /\ Carries(m2, k)
      BY <3>1, <3>3
    <3> QED
      BY <3>2, <3>4 DEF SingleInv
  <2>8. \A w \in Workers, k \in Jobs : Executing(w, k)' => ~IsPending(k)'
    BY <2>3, <2>5 DEF SingleInv
  <2>9. \A k \in Jobs : creator'[k] \in {"none", "publish", "fail"} =>
            /\ \A m \in Msgs : msgs'[m].loc # "none" => msgs'[m].job # k
            /\ \A v \in Workers : job'[v] # k
    <3>1. \A k \in Jobs : creator'[k] \in {"none", "publish", "fail"} =>
                             creator[k] \in {"none", "publish", "fail"}
      BY <1>24 DEF LoseConnection, Crash, server
    <3>2. \A k \in Jobs, v \in Workers : job'[v] = k => job[v] = k
      BY <1>24, JobAssumption DEF LoseConnection, Crash
    <3> QED
      BY <2>2, <3>1, <3>2 DEF SingleInv
  <2> QED
    BY <1>0, <2>1, <2>5, <2>7, <2>8, <2>9 DEF SingleInv
<1>25. ASSUME StopPool PROVE SingleInv'
  <2>1. UNCHANGED <<rows, msgs, channel, creator, retrier, bridge, pc, held, job>>
    BY <1>25 DEF StopPool, broker, server, worker
  <2>2. \A k \in Jobs : IsPending(k)' => IsPending(k)
    BY <2>1 DEF IsPending
  <2> QED
    BY <1>0, <2>1, <2>2, WorkerFrame, CarriesFrame, SingleFrame DEF SingleInv
<1>26. CASE UNCHANGED vars
  <2>1. UNCHANGED <<rows, msgs, channel, creator, retrier, bridge, pc, held, job>>
    BY <1>26 DEF vars, broker, server, worker
  <2>2. \A k \in Jobs : IsPending(k)' => IsPending(k)
    BY <2>1 DEF IsPending
  <2> QED
    BY <1>0, <2>1, <2>2, WorkerFrame, CarriesFrame, SingleFrame DEF SingleInv
<1> QED
  BY <1>1, <1>2, <1>3, <1>4, <1>5, <1>6, <1>7, <1>8, <1>9, <1>10, <1>11, <1>12, <1>13, <1>14,
     <1>15, <1>16, <1>17, <1>18, <1>19, <1>20, <1>21, <1>22, <1>23, <1>24, <1>25, <1>26
     DEF Next, Step, Creation, RetryCall, Handler

\* Why a job has one executor: while it can still be started, one message
\* brings one worker to it, through crashes, redelivery and retries.
THEOREM SingleAlways ==
    ASSUME NoDuplicates
    PROVE  Spec => []SingleInv
<1>1. TypeInv /\ SingleInv /\ [Next]_vars => SingleInv'
  BY SingleNext
<1> QED
  BY TypeCorrect, SingleInit, <1>1, PTL DEF Spec

LEMMA SingleImpliesOne == SingleInv => AtMostOneExecutor
  BY DEF AtMostOneExecutor, SingleInv, Claims

\* Without a second publisher no job is executed by two workers at once,
\* whatever the database, the broker, expiry, cancellation, clean-up and
\* shutdown do, and whenever the connection or the process fails except
\* between the publish of a copy and the rejection of its original.
THEOREM OneExecutor ==
    ASSUME NoDuplicates
    PROVE  Spec => []AtMostOneExecutor
  BY SingleAlways, SingleImpliesOne, PTL

=============================================================================
