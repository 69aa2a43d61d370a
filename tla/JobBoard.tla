------------------------------ MODULE JobBoard ------------------------------
(***************************************************************************)
(* What the service promises about a job: it is run by at most one worker, *)
(* at most once, and only the worker that runs it decides how it ended.    *)
(* There are no queues, messages or database calls here; JobPipeline is    *)
(* shown to implement this specification.                                  *)
(***************************************************************************)
CONSTANTS Jobs, Workers, NoJob

VARIABLES
    phase,      \* the public status of each job
    runner      \* the job each worker is running, or NoJob

vars == <<phase, runner>>

Finished == {"completed", "failed", "canceled"}
Phases == {"new", "pending", "processing", "gone"} \cup Finished

\* A creation request stores the job, or fails to.
Submit(j) ==
    /\ phase[j] = "new"
    /\ \E p \in {"pending", "gone"} : phase' = [phase EXCEPT ![j] = p]
    /\ UNCHANGED runner

\* A job that could not be queued fails without having run.
Reject(j) ==
    /\ phase[j] = "pending"
    /\ phase' = [phase EXCEPT ![j] = "failed"]
    /\ UNCHANGED runner

\* A free worker starts a pending job.  It may lose the answer of the
\* database: the job is then marked as processing and nobody runs it.
Take(w, j) ==
    /\ phase[j] = "pending"
    /\ runner[w] = NoJob
    /\ phase' = [phase EXCEPT ![j] = "processing"]
    /\ UNCHANGED runner \/ runner' = [runner EXCEPT ![w] = j]

\* The worker that runs a job reports how it ended.
Finish(w, j) ==
    /\ runner[w] = j
    /\ phase[j] = "processing"
    /\ \E p \in {"completed", "failed"} : phase' = [phase EXCEPT ![j] = p]
    /\ runner' = [runner EXCEPT ![w] = NoJob]

\* Workers stop running their jobs without a report.
Abandon(W) ==
    /\ runner' = [w \in Workers |-> IF w \in W THEN NoJob ELSE runner[w]]
    /\ UNCHANGED phase

\* Finished jobs are deleted.
Purge(S) ==
    /\ \A j \in S : phase[j] \in Finished
    /\ phase' = [j \in Jobs |-> IF j \in S THEN "gone" ELSE phase[j]]
    /\ UNCHANGED runner

Init == /\ phase \in [Jobs -> {"new", "pending"}]
        /\ runner = [w \in Workers |-> NoJob]

Next ==
    \/ \E j \in Jobs : Submit(j) \/ Reject(j)
    \/ \E w \in Workers, j \in Jobs : Take(w, j) \/ Finish(w, j)
    \/ \E W \in SUBSET Workers : Abandon(W)
    \/ \E S \in SUBSET Jobs : Purge(S)

Spec == Init /\ [][Next]_vars

TypeOK == /\ phase \in [Jobs -> Phases]
          /\ runner \in [Workers -> Jobs \cup {NoJob}]

\* A job has one runner at most, and it is marked as processing while it has.
OneRunner ==
    \A w1 \in Workers : runner[w1] # NoJob =>
        /\ phase[runner[w1]] = "processing"
        /\ \A w2 \in Workers : runner[w2] = runner[w1] => w1 = w2

=============================================================================
