-------------------------- MODULE Callbacks_proofs --------------------------
(***************************************************************************)
(* Theorems about the callbacks of completed jobs, for every number of     *)
(* jobs, workers, messages, attempts and callback goroutines.  The         *)
(* composition implements the pipeline, so that what the pipeline keeps is *)
(* kept here too; what a receiver is told rests on the pipeline's being a  *)
(* JobBoard, on which a completed job changes no more.                     *)
(***************************************************************************)
EXTENDS Callbacks, JobBoard_proofs, FiniteSetTheorems

-----------------------------------------------------------------------------
(* The pipeline below.                                                     *)

\* No step of a callback, of the receiver or of the network touches the
\* pipeline, and the start of a callback does not hold it up.
LEMMA PipelineStep == [CallbackNext]_allVars => [Next]_vars
<1> SUFFICES ASSUME [CallbackNext]_allVars PROVE [Next]_vars
  OBVIOUS
<1>1. CASE Work
  BY <1>1 DEF Work, Next
<1>2. CASE Die
  BY <1>2 DEF Die, Next
<1>3. CASE Disconnect
  BY <1>3 DEF Disconnect, Next
<1>4. CASE \E i \in DOMAIN calls : Sender(i)
  BY <1>4 DEF Sender, Post, GiveUp, TimeOut
<1>5. CASE Receiver
  BY <1>5 DEF Receiver, Accept, Refuse, Lose
<1>6. CASE UNCHANGED allVars
  BY <1>6 DEF allVars
<1> QED
  BY <1>1, <1>2, <1>3, <1>4, <1>5, <1>6 DEF CallbackNext

\* The pipeline with callbacks is the pipeline.
THEOREM CallbacksKeepPipeline == CallbackSpec => Spec
<1>1. CallbackInit => Init
  BY DEF CallbackInit
<1> QED
  BY <1>1, PipelineStep, PTL DEF CallbackSpec, Spec

\* A worker that commits the result of a job does so by CompleteJob.
LEMMA CompletesIsComplete ==
    ASSUME TypeInv, Step, NEW w \in Workers, Completes(w)
    PROVE  CompleteJob(w)
<1> USE DEF TypeInv
<1>1. pc[w] = "complete" /\ pc'[w] = "ack"
  BY DEF Completes
<1>2. ASSUME NEW v \in Workers, Handler(v) PROVE CompleteJob(w)
  <2>1. \E l : Goto(v, l)
    BY <1>2 DEF Handler, GetJob, StartJob, ReportStarted, ScrapePage,
       ReportScraped, CompleteJob, FailJob, Republish, Ack, Nack, Settle,
       StopConsuming
  <2>2. v = w
    BY <1>1, <2>1 DEF Goto, TypeOK
  <2> QED
    BY <1>1, <1>2, <2>2 DEF Handler, GetJob, StartJob, ReportStarted,
       ScrapePage, ReportScraped, FailJob, Republish, Ack, Nack, StopConsuming
<1>3. CASE ~\E v \in Workers : Handler(v)
  <2>1. pc' = pc
    BY <1>3 DEF Step, Creation, InsertJob, PublishCreated, FailUnpublished,
       CancelJob, BridgePublish, RetryCall, ReadRetryCount, ResetRow,
       PublishRetry, Deliver, Expire, Cleanup, BridgePoll, StopPool, worker
  <2> QED
    BY <1>1, <2>1
<1> QED
  BY <1>2, <1>3

-----------------------------------------------------------------------------
(* One callback.                                                           *)

Call == [at : {"ready", "waiting"} \cup Ended, job : Jobs,
         attempt : 0..CallbackRetries, spoilt : SUBSET (0..CallbackRetries)]

\* Every attempt before the present one was spoilt; a request is only sent
\* while attempts are left; and an end has its reason.
CallOk(i) ==
    /\ calls[i].at = "waiting" => calls[i].attempt < CallbackRetries
    /\ \A n \in Nat : n < calls[i].attempt => n \in calls[i].spoilt
    /\ calls[i].at = "abandoned" => \/ hook[calls[i].job] = "malformed"
                                 \/ calls[i].attempt = CallbackRetries
    /\ calls[i].at = "sent" => accepted[calls[i].job] > 0

CallInv ==
    /\ CallbackTypeOK
    /\ inFlight \subseteq (DOMAIN calls) \X (0..(CallbackRetries - 1))
    /\ \A i \in DOMAIN calls : CallOk(i)

LEMMA CallIsTyped ==
    ASSUME CallbackTypeOK, NEW i \in DOMAIN calls
    PROVE  calls[i] \in Call
<1>1. calls \in Seq(Call)
  BY DEF CallbackTypeOK, Call
<1> QED
  BY <1>1

\* One callback changes.
LEMMA OneCall ==
    ASSUME CallbackTypeOK, NEW i \in DOMAIN calls, NEW c \in Call,
           calls' = [calls EXCEPT ![i] = c]
    PROVE  /\ calls' \in Seq(Call) /\ DOMAIN calls' = DOMAIN calls
           /\ calls'[i] = c
           /\ \A k \in DOMAIN calls : k # i => calls'[k] = calls[k]
<1>1. calls \in Seq(Call)
  BY DEF CallbackTypeOK, Call
<1> QED
  BY <1>1

\* What the three ways to change it do to its fields.
LEMMA CallEnds ==
    ASSUME CallbackTypeOK, NEW i \in DOMAIN calls,
           NEW how \in {"ready", "waiting"} \cup Ended, Ends(i, how)
    PROVE  /\ calls' \in Seq(Call) /\ DOMAIN calls' = DOMAIN calls
           /\ \A k \in DOMAIN calls : k # i => calls'[k] = calls[k]
           /\ calls'[i].at = how /\ calls'[i].job = calls[i].job
           /\ calls'[i].attempt = calls[i].attempt
           /\ calls'[i].spoilt = calls[i].spoilt
<1> DEFINE c == [calls[i] EXCEPT !.at = how]
<1>1. calls[i] \in Call
  BY CallIsTyped
<1>2. c \in Call /\ c.at = how /\ c.job = calls[i].job
      /\ c.attempt = calls[i].attempt /\ c.spoilt = calls[i].spoilt
  BY <1>1 DEF Call
<1>3. calls' = [calls EXCEPT ![i] = c]
  BY DEF Ends
<1> HIDE DEF c
<1> QED
  BY <1>2, <1>3, OneCall

LEMMA CallFails ==
    ASSUME CallbackTypeOK, NEW i \in DOMAIN calls,
           calls[i].attempt < CallbackRetries, Failure(i)
    PROVE  /\ calls' \in Seq(Call) /\ DOMAIN calls' = DOMAIN calls
           /\ \A k \in DOMAIN calls : k # i => calls'[k] = calls[k]
           /\ calls'[i].at = "ready" /\ calls'[i].job = calls[i].job
           /\ calls'[i].attempt = calls[i].attempt + 1
           /\ calls'[i].spoilt = calls[i].spoilt \cup {calls[i].attempt}
<1> DEFINE c == [calls[i] EXCEPT !.at = "ready", !.attempt = @ + 1,
                                 !.spoilt = @ \cup {calls[i].attempt}]
<1>1. calls[i] \in Call
  BY CallIsTyped
<1>2. c \in Call /\ c.at = "ready" /\ c.job = calls[i].job
      /\ c.attempt = calls[i].attempt + 1
      /\ c.spoilt = calls[i].spoilt \cup {calls[i].attempt}
  <2>1. /\ calls[i].attempt + 1 \in 0..CallbackRetries
        /\ calls[i].spoilt \cup {calls[i].attempt}
              \in SUBSET (0..CallbackRetries)
    BY <1>1, CallbackAssumption DEF Call
  <2> QED
    BY <1>1, <2>1 DEF Call
<1>3. calls' = [calls EXCEPT ![i] = c]
  BY DEF Failure
<1> HIDE DEF c
<1> QED
  BY <1>2, <1>3, OneCall

LEMMA CallSpoilt ==
    ASSUME CallbackTypeOK, NEW i \in DOMAIN calls,
           NEW n \in 0..CallbackRetries, Spoilt(i, n)
    PROVE  /\ calls' \in Seq(Call) /\ DOMAIN calls' = DOMAIN calls
           /\ \A k \in DOMAIN calls : k # i => calls'[k] = calls[k]
           /\ calls'[i].at = calls[i].at /\ calls'[i].job = calls[i].job
           /\ calls'[i].attempt = calls[i].attempt
           /\ calls'[i].spoilt = calls[i].spoilt \cup {n}
<1> DEFINE c == [calls[i] EXCEPT !.spoilt = @ \cup {n}]
<1>1. calls[i] \in Call
  BY CallIsTyped
<1>2. c \in Call /\ c.at = calls[i].at /\ c.job = calls[i].job
      /\ c.attempt = calls[i].attempt /\ c.spoilt = calls[i].spoilt \cup {n}
  BY <1>1 DEF Call
<1>3. calls' = [calls EXCEPT ![i] = c]
  BY DEF Spoilt
<1> HIDE DEF c
<1> QED
  BY <1>2, <1>3, OneCall

\* All callbacks that the end of the process finds alive end with it.
LEMMA CallsDie ==
    ASSUME CallbackTypeOK, Die
    PROVE  /\ calls' \in Seq(Call) /\ DOMAIN calls' = DOMAIN calls
           /\ \A i \in DOMAIN calls :
                 /\ calls'[i].job = calls[i].job
                 /\ calls'[i].attempt = calls[i].attempt
                 /\ calls'[i].spoilt = calls[i].spoilt
                 /\ IF calls[i].at \in {"ready", "waiting"}
                    THEN calls'[i].at = "killed"
                    ELSE calls'[i].at = calls[i].at
<1> DEFINE c(i) == IF calls[i].at \in {"ready", "waiting"}
                   THEN [calls[i] EXCEPT !.at = "killed"] ELSE calls[i]
<1>1. calls \in Seq(Call)
  BY DEF CallbackTypeOK, Call
<1>2. \A i \in DOMAIN calls :
         /\ c(i) \in Call
         /\ c(i).job = calls[i].job /\ c(i).attempt = calls[i].attempt
         /\ c(i).spoilt = calls[i].spoilt
         /\ IF calls[i].at \in {"ready", "waiting"} THEN c(i).at = "killed"
                                                   ELSE c(i).at = calls[i].at
  BY CallIsTyped DEF Call, Ended
<1>3. calls' = [i \in DOMAIN calls |-> c(i)]
  BY DEF Die
<1> HIDE DEF c
<1>4. calls' \in Seq(Call)
  BY <1>1, <1>2, <1>3
<1> QED
  BY <1>2, <1>3, <1>4

\* A step of the pipeline starts at most one callback, for a job that a
\* worker just completed.
LEMMA CallStarts ==
    ASSUME TypeInv, CallbackTypeOK, Work
    PROVE  \/ calls' = calls
           \/ \E w \in Workers, n \in Nat :
                 /\ CompleteJob(w) /\ pc'[w] = "ack" /\ job[w] \in Jobs
                 /\ n = Len(calls)
                 /\ calls' \in Seq(Call)
                 /\ DOMAIN calls = 1..n /\ DOMAIN calls' = 1..(n + 1)
                 /\ \A i \in DOMAIN calls : calls'[i] = calls[i]
                 /\ calls'[n + 1] = NewCall(job[w])
<1>1. CASE calls' = calls
  BY <1>1
<1>2. CASE calls' # calls
  <2>1. PICK w \in Workers : /\ Completes(w)
                             /\ calls' = Append(calls, NewCall(job[w]))
    BY <1>2 DEF Work
  <2>2. CompleteJob(w)
    BY <2>1, CompletesIsComplete DEF Work
  <2>3. pc'[w] = "ack" /\ job[w] \in Jobs
    BY <2>1, <2>2 DEF Completes, CompleteJob, TypeInv, DeliveryInv
  <2>4. NewCall(job[w]) \in Call
    BY <2>3, CallbackAssumption DEF NewCall, Call
  <2>5. calls \in Seq(Call)
    BY DEF CallbackTypeOK, Call
  <2>6. PICK n \in Nat : n = Len(calls)
    BY <2>5
  <2>7. /\ calls' \in Seq(Call)
        /\ DOMAIN calls = 1..n /\ DOMAIN calls' = 1..(n + 1)
        /\ \A i \in DOMAIN calls : calls'[i] = calls[i]
        /\ calls'[n + 1] = NewCall(job[w])
    BY <2>1, <2>4, <2>5, <2>6
  <2> QED
    BY <2>2, <2>3, <2>6, <2>7
<1> QED
  BY <1>1, <1>2

LEMMA CallFrame ==
    ASSUME CallbackTypeOK, NEW i \in DOMAIN calls, CallOk(i),
           calls'[i] = calls[i], hook' = hook, accepted' \in [Jobs -> Nat],
           \A j \in Jobs : accepted'[j] >= accepted[j]
    PROVE  CallOk(i)'
<1>1. calls[i].job \in Jobs /\ calls[i].attempt \in 0..CallbackRetries
  BY CallIsTyped DEF Call
<1>2. /\ accepted[calls[i].job] \in Nat /\ accepted'[calls[i].job] \in Nat
      /\ accepted'[calls[i].job] >= accepted[calls[i].job]
  BY <1>1 DEF CallbackTypeOK
<1> QED
  BY <1>1, <1>2, CallbackAssumption DEF CallOk

\* The ways a callback comes to be waiting, to end, to have failed once more,
\* or to be spoilt by an attempt of the past.
LEMMA CallMoves ==
    ASSUME CallbackTypeOK, NEW i \in DOMAIN calls, CallOk(i), hook' = hook,
           accepted' \in [Jobs -> Nat],
           \A j \in Jobs : accepted'[j] >= accepted[j],
           \/ Ends(i, "waiting") /\ calls[i].attempt < CallbackRetries
           \/ /\ Ends(i, "abandoned")
              /\ \/ ~(calls[i].attempt < CallbackRetries)
                 \/ hook[calls[i].job] = "malformed"
           \/ Ends(i, "sent") /\ accepted'[calls[i].job] > 0
           \/ Failure(i) /\ calls[i].attempt < CallbackRetries
           \/ \E n \in 0..CallbackRetries : Spoilt(i, n)
    PROVE  /\ calls' \in Seq(Call) /\ DOMAIN calls' = DOMAIN calls
           /\ \A k \in DOMAIN calls : k # i => calls'[k] = calls[k]
           /\ calls'[i].job = calls[i].job
           /\ CallOk(i)'
<1>1. /\ calls[i].attempt \in 0..CallbackRetries /\ calls[i].job \in Jobs
      /\ \A n \in Nat : n < calls[i].attempt => n \in calls[i].spoilt
      /\ CallbackRetries \in Nat
  BY CallIsTyped, CallbackAssumption DEF Call, CallOk
<1>2. accepted[calls[i].job] > 0 => accepted'[calls[i].job] > 0
  <2>1. /\ accepted[calls[i].job] \in Nat /\ accepted'[calls[i].job] \in Nat
        /\ accepted'[calls[i].job] >= accepted[calls[i].job]
    BY <1>1 DEF CallbackTypeOK
  <2> QED
    BY <2>1
<1>3. CASE Ends(i, "waiting") /\ calls[i].attempt < CallbackRetries
  BY <1>1, <1>3, CallEnds DEF CallOk
<1>4. CASE /\ Ends(i, "abandoned")
           /\ \/ ~(calls[i].attempt < CallbackRetries)
              \/ hook[calls[i].job] = "malformed"
  <2>1. calls[i].attempt = CallbackRetries \/ hook[calls[i].job] = "malformed"
    BY <1>1, <1>4, CallbackAssumption
  <2>2. "abandoned" \in Ended
    BY DEF Ended
  <2> QED
    BY <1>1, <1>4, <2>1, <2>2, CallEnds DEF CallOk
<1>5. CASE Ends(i, "sent") /\ accepted'[calls[i].job] > 0
  <2>1. "sent" \in Ended
    BY DEF Ended
  <2> QED
    BY <1>1, <1>5, <2>1, CallEnds DEF CallOk
<1>6. CASE Failure(i) /\ calls[i].attempt < CallbackRetries
  <2>1. \A n \in Nat : n < calls[i].attempt + 1 =>
                          n \in calls[i].spoilt \cup {calls[i].attempt}
    BY <1>1
  <2> QED
    BY <1>6, <2>1, CallFails DEF CallOk
<1>7. CASE \E n \in 0..CallbackRetries : Spoilt(i, n)
  <2>1. PICK n \in 0..CallbackRetries : Spoilt(i, n)
    BY <1>7
  <2> QED
    BY <1>1, <1>2, <2>1, CallSpoilt DEF CallOk
<1> QED
  BY <1>3, <1>4, <1>5, <1>6, <1>7

\* A step of one callback, or about one, that keeps its job.
LEMMA CallStep ==
    ASSUME CallInv, hook' = hook, NEW i \in DOMAIN calls,
           inFlight' \subseteq (DOMAIN calls) \X (0..(CallbackRetries - 1)),
           accepted' \in [Jobs -> Nat],
           \A j \in Jobs : accepted'[j] >= accepted[j],
           \/ Ends(i, "waiting") /\ calls[i].attempt < CallbackRetries
           \/ /\ Ends(i, "abandoned")
              /\ \/ ~(calls[i].attempt < CallbackRetries)
                 \/ hook[calls[i].job] = "malformed"
           \/ Ends(i, "sent") /\ accepted'[calls[i].job] > 0
           \/ Failure(i) /\ calls[i].attempt < CallbackRetries
           \/ \E n \in 0..CallbackRetries : Spoilt(i, n)
    PROVE  CallInv'
<1>0. CallbackTypeOK /\ \A k \in DOMAIN calls : CallOk(k)
  BY DEF CallInv
<1>1. /\ calls' \in Seq(Call) /\ DOMAIN calls' = DOMAIN calls
      /\ \A k \in DOMAIN calls : k # i => calls'[k] = calls[k]
      /\ CallOk(i)'
  BY <1>0, CallMoves
<1>2. CallbackTypeOK'
  <2>1. inFlight' \subseteq (DOMAIN calls') \X (0..CallbackRetries)
    BY <1>1, CallbackAssumption
  <2> QED
    BY <1>0, <1>1, <2>1 DEF CallbackTypeOK, Call
<1>3. \A k \in DOMAIN calls : CallOk(k)'
  BY <1>0, <1>1, CallFrame
<1> QED
  BY <1>1, <1>2, <1>3 DEF CallInv

LEMMA CallNext ==
    ASSUME TypeInv, CallInv, [CallbackNext]_allVars
    PROVE  CallInv'
<1> USE DEF CallInv
<1>0. /\ accepted \in [Jobs -> Nat]
      /\ \A i \in DOMAIN calls : calls[i] \in Call
  BY CallIsTyped DEF CallbackTypeOK
<1>1. CASE Work
  <2>1. UNCHANGED <<hook, inFlight, accepted>>
    BY <1>1 DEF Work
  <2>2. CASE calls' = calls
    BY <2>1, <2>2 DEF CallbackTypeOK, CallOk
  <2>3. ASSUME NEW w \in Workers, NEW n \in Nat,
               job[w] \in Jobs, calls' \in Seq(Call),
               DOMAIN calls = 1..n, DOMAIN calls' = 1..(n + 1),
               \A i \in DOMAIN calls : calls'[i] = calls[i],
               calls'[n + 1] = NewCall(job[w])
        PROVE  CallInv'
    <3>1. CallbackTypeOK'
      BY <2>1, <2>3 DEF CallbackTypeOK, Call
    <3>2. \A i \in DOMAIN calls : CallOk(i)'
      BY <1>0, <2>1, <2>3, CallFrame
    <3>3. CallOk(n + 1)'
      <4>1. calls'[n + 1].at = "ready" /\ calls'[n + 1].attempt = 0
        BY <2>3 DEF NewCall, Call
      <4> QED
        BY <4>1 DEF CallOk
    <3>4. \A i \in DOMAIN calls' : CallOk(i)'
      BY <2>3, <3>2, <3>3
    <3> QED
      BY <2>1, <2>3, <3>1, <3>4
  <2> QED
    BY <1>1, <2>2, <2>3, CallStarts
<1>2. CASE Die
  <2>1. UNCHANGED <<hook, inFlight, accepted>>
    BY <1>2 DEF Die
  <2>2. CallbackTypeOK'
    BY <1>2, <2>1, CallsDie DEF CallbackTypeOK, Call
  <2>3. \A i \in DOMAIN calls : CallOk(i)'
    BY <1>2, <2>1, CallsDie DEF CallOk
  <2> QED
    BY <1>2, <2>1, <2>2, <2>3, CallsDie
<1>3. CASE Disconnect \/ UNCHANGED allVars
  <2>1. UNCHANGED <<hook, calls, inFlight, accepted>>
    BY <1>3 DEF Disconnect, calling, allVars
  <2> QED
    BY <2>1 DEF CallbackTypeOK, CallOk
<1>4. ASSUME NEW i \in DOMAIN calls, Sender(i) PROVE CallInv'
  <2>1. hook' = hook /\ accepted' = accepted
    BY <1>4 DEF Sender, Post, GiveUp, TimeOut
  <2>2. calls[i].attempt \in 0..CallbackRetries /\ CallOk(i)
    BY <1>0 DEF Call
  <2>3. CASE Post(i)
    <3>1. /\ calls[i].attempt < CallbackRetries
          /\ inFlight' = inFlight \cup {<<i, calls[i].attempt>>}
          /\ Ends(i, "waiting")
      BY <2>3 DEF Post, TriesAgain
    <3>2. inFlight' \subseteq (DOMAIN calls) \X (0..(CallbackRetries - 1))
      BY <2>2, <3>1, CallbackAssumption
    <3> QED
      BY <1>0, <2>1, <2>2, <3>1, <3>2, CallStep
  <2>4. CASE GiveUp(i) \/ TimeOut(i)
    <3>1. /\ \/ /\ Ends(i, "abandoned")
                /\ \/ ~(calls[i].attempt < CallbackRetries)
                   \/ hook[calls[i].job] = "malformed"
             \/ Failure(i) /\ calls[i].attempt < CallbackRetries
          /\ inFlight' = inFlight
      BY <2>2, <2>4 DEF GiveUp, TriesAgain, TimeOut, CallOk
    <3> QED
      BY <1>0, <2>1, <2>2, <3>1, CallStep
  <2> QED
    BY <1>4, <2>3, <2>4 DEF Sender
<1>5. ASSUME NEW i \in DOMAIN calls, NEW n \in 0..CallbackRetries,
             Accept(i, n) \/ Refuse(i, n) \/ Lose(i, n)
      PROVE  CallInv'
  <2>1. /\ hook' = hook
        /\ inFlight' \subseteq (DOMAIN calls) \X (0..(CallbackRetries - 1))
    BY <1>5 DEF Accept, Refuse, Lose, Leaves
  <2>2. calls[i].job \in Jobs /\ CallOk(i)
    BY <1>0, CallIsTyped DEF Call
  <2>3. CASE Accept(i, n)
    <3>1. accepted' = [accepted EXCEPT ![calls[i].job] = @ + 1]
      BY <2>3 DEF Accept
    <3>2. /\ accepted' \in [Jobs -> Nat]
          /\ \A j \in Jobs : accepted'[j] >= accepted[j]
          /\ accepted'[calls[i].job] > 0
      BY <1>0, <2>2, <3>1
    <3>3. Ends(i, "sent") \/ Spoilt(i, n)
      BY <2>3 DEF Accept
    <3> QED
      BY <2>1, <2>2, <3>2, <3>3, CallStep
  <2>4. CASE Refuse(i, n) \/ Lose(i, n)
    <3>1. /\ accepted' = accepted
          /\ \/ Failure(i) /\ calls[i].attempt < CallbackRetries
             \/ Spoilt(i, n)
      BY <2>2, <2>4 DEF Refuse, Lose, Awaits, CallOk
    <3> QED
      BY <1>0, <2>1, <2>2, <3>1, CallStep
  <2> QED
    BY <1>5, <2>3, <2>4
<1> QED
  BY <1>1, <1>2, <1>3, <1>4, <1>5 DEF CallbackNext, Receiver

LEMMA CallAlways == CallbackSpec => []CallInv
<1>1. CallbackInit => CallInv
  BY DEF CallbackInit, CallInv, CallbackTypeOK
<1>2. TypeInv /\ CallInv /\ [CallbackNext]_allVars => CallInv'
  BY CallNext
<1> QED
  BY CallbacksKeepPipeline, TypeCorrect, <1>1, <1>2, PTL DEF CallbackSpec

\* Types, with no attempt counted beyond CallbackRetries, however late the
\* answers come.
THEOREM CallbackTypes == CallbackSpec => []CallbackTypeOK
<1>1. CallInv => CallbackTypeOK
  BY DEF CallInv
<1> QED
  BY <1>1, CallAlways, PTL

\* A callback that ended as sent was accepted, and one that was given up had
\* every attempt spoilt or has an unusable URL: sendHTTPCallback stops neither
\* too early nor with a wrong impression, in every environment.
THEOREM CallbackEndsAccounted == CallbackSpec => []EndsAccountedFor
<1>1. CallInv => EndsAccountedFor
  <2> SUFFICES ASSUME CallInv, NEW i \in DOMAIN calls
               PROVE  /\ calls[i].at = "sent" => accepted[calls[i].job] > 0
                      /\ calls[i].at = "abandoned" =>
                            \/ hook[calls[i].job] = "malformed"
                            \/ \A n \in 0..(CallbackRetries - 1) :
                                  n \in calls[i].spoilt
    BY DEF EndsAccountedFor
  <2>1. CallOk(i)
    BY DEF CallInv
  <2>2. \A n \in 0..(CallbackRetries - 1) : n \in Nat /\ n < CallbackRetries
    BY CallbackAssumption
  <2> QED
    BY <2>1, <2>2 DEF CallOk
<1> QED
  BY <1>1, CallAlways, PTL

-----------------------------------------------------------------------------
(* What the receiver is told.  A job has one callback at most, because it  *)
(* is completed once, and stays completed: that is what the board says.    *)
(* The requests on their way and the attempts still to come, together with *)
(* what was accepted, never exceed the attempts configured.                *)

Over(j) == PhaseBar[j] \in {"completed", "gone"}

Flying(i) == {n \in 0..(CallbackRetries - 1) : <<i, n>> \in inFlight}

AttemptsLeft(i) ==
    IF calls[i].at = "ready" THEN CallbackRetries - calls[i].attempt
    ELSE IF calls[i].at = "waiting"
         THEN CallbackRetries - calls[i].attempt - 1
         ELSE 0

Balanced(i) == accepted[calls[i].job] + Cardinality(Flying(i))
                 + AttemptsLeft(i) <= CallbackRetries

NoticeInv ==
    /\ \A j \in Jobs : accepted[j] > 0 =>
                          \E i \in DOMAIN calls : calls[i].job = j
    /\ \A i \in DOMAIN calls : Over(calls[i].job)
    /\ \A i, k \in DOMAIN calls : calls[i].job = calls[k].job => i = k
    /\ \A i \in DOMAIN calls : Balanced(i)

\* The board never takes a completed job up again.
LEMMA OverStays ==
    ASSUME BoardStep, NEW j \in Jobs, Over(j)
    PROVE  Over(j)'
<1>1. CASE UNCHANGED Board!vars
  BY <1>1 DEF Board!vars, Over
<1>2. CASE Board!Next
  <2>1. PhaseBar[j] \in {"completed", "gone"} /\ DOMAIN PhaseBar = Jobs
    BY DEF Over, PhaseBar
  <2>2. PhaseBar'[j] = PhaseBar[j] \/ PhaseBar'[j] = "gone"
    BY <1>2, <2>1 DEF Board!Next, Board!Submit, Board!Reject, Board!Take,
       Board!Finish, Board!Abandon, Board!Purge
  <2> QED
    BY <2>1, <2>2 DEF Over
<1> QED
  BY <1>1, <1>2 DEF BoardStep

\* A job is not over when a worker completes it, and is afterwards.
LEMMA CompletingEnds ==
    ASSUME TypeInv, BoardInv, NEW w \in Workers, CompleteJob(w),
           pc'[w] = "ack"
    PROVE  /\ ~Over(job[w])
           /\ Over(job[w])'
<1> USE DEF TypeInv
<1>1. PICK j \in Jobs : j = job[w]
  BY DEF CompleteJob, DeliveryInv
<1>2. pc[w] = "complete" /\ Executing(w, j)
  BY <1>1 DEF CompleteJob, Executing
<1>3. rows[j].status = "processing"
  BY <1>2 DEF BoardInv, BoardOk
<1>4. ~Over(j)
  BY <1>3 DEF Over, PhaseBar, Exists
<1>5. rows' = [rows EXCEPT ![j] = Completed(rows[j])]
  BY <1>1 DEF CompleteJob, Goto, TypeOK, WorkerUpdateOk, UpdateOk, Store
<1>6. rows'[j].status = "completed"
  BY <1>5, Columns DEF TypeOK
<1>7. Over(j)'
  BY <1>6 DEF Over, PhaseBar, Exists
<1>8. job' = job
  BY DEF CompleteJob
<1> QED
  BY <1>1, <1>4, <1>7, <1>8

LEMMA FlyingFinite ==
    ASSUME NEW i
    PROVE  IsFiniteSet(Flying(i)) /\ Cardinality(Flying(i)) \in Nat
<1>1. IsFiniteSet(0..(CallbackRetries - 1))
  BY CallbackAssumption, FS_Interval
<1>2. Flying(i) \in SUBSET (0..(CallbackRetries - 1))
  BY DEF Flying
<1> QED
  BY <1>1, <1>2, FS_Subset, FS_CardinalityType

\* A request leaves for the receiver, and arrives or is lost.
LEMMA FlyingAdds ==
    ASSUME NEW i, NEW n \in 0..(CallbackRetries - 1),
           inFlight' = inFlight \cup {<<i, n>>}
    PROVE  /\ Cardinality(Flying(i)') <= Cardinality(Flying(i)) + 1
           /\ Cardinality(Flying(i)') \in Nat
           /\ \A k : k # i => Flying(k)' = Flying(k)
<1>1. Flying(i)' = Flying(i) \cup {n}
  BY DEF Flying
<1>2. \A k : k # i => Flying(k)' = Flying(k)
  BY DEF Flying
<1>3. IsFiniteSet(Flying(i)) /\ Cardinality(Flying(i)) \in Nat
  BY FlyingFinite
<1>4. Cardinality(Flying(i) \cup {n}) =
         IF n \in Flying(i) THEN Cardinality(Flying(i))
                           ELSE Cardinality(Flying(i)) + 1
  BY <1>3, FS_AddElement
<1>5. Cardinality(Flying(i)') = Cardinality(Flying(i) \cup {n})
  BY <1>1
<1> QED
  BY <1>2, <1>3, <1>4, <1>5

LEMMA FlyingRemoves ==
    ASSUME NEW i, NEW n \in 0..(CallbackRetries - 1), Leaves(i, n)
    PROVE  /\ Cardinality(Flying(i)') = Cardinality(Flying(i)) - 1
           /\ \A k : k # i => Flying(k)' = Flying(k)
<1>1. Flying(i)' = Flying(i) \ {n} /\ n \in Flying(i)
  BY DEF Flying, Leaves
<1>2. \A k : k # i => Flying(k)' = Flying(k)
  BY DEF Flying, Leaves
<1> QED
  BY <1>1, <1>2, FlyingFinite, FS_RemoveElement

\* The counts of the balance, and what they become.
LEMMA Counts ==
    ASSUME CallInv, NEW i \in DOMAIN calls
    PROVE  /\ accepted[calls[i].job] \in Nat
           /\ Cardinality(Flying(i)) \in Nat
           /\ AttemptsLeft(i) \in Nat
           /\ calls[i].job \in Jobs
           /\ calls[i].attempt \in 0..CallbackRetries
           /\ calls[i].at = "waiting" => calls[i].attempt < CallbackRetries
           /\ CallbackRetries \in Nat
<1>1. CallOk(i) /\ calls[i] \in Call /\ accepted \in [Jobs -> Nat]
  BY CallIsTyped DEF CallInv, CallbackTypeOK
<1>2. /\ calls[i].job \in Jobs
      /\ calls[i].attempt \in 0..CallbackRetries
      /\ calls[i].at = "waiting" => calls[i].attempt < CallbackRetries
  BY <1>1 DEF Call, CallOk
<1>3. AttemptsLeft(i) \in Nat
  BY <1>2, CallbackAssumption DEF AttemptsLeft
<1> QED
  BY <1>1, <1>2, <1>3, FlyingFinite, CallbackAssumption

\* A step about one callback, which keeps its balance.
LEMMA NoticeStep ==
    ASSUME CallbackTypeOK, NoticeInv, BoardStep, NEW i \in DOMAIN calls,
           DOMAIN calls' = DOMAIN calls, calls'[i].job = calls[i].job,
           \A k \in DOMAIN calls : k # i => calls'[k] = calls[k],
           \A k \in DOMAIN calls : k # i => Flying(k)' = Flying(k),
           \A j \in Jobs : j # calls[i].job => accepted'[j] = accepted[j],
           Balanced(i)'
    PROVE  NoticeInv'
<1>1. \A k \in DOMAIN calls : calls[k].job \in Jobs
  BY CallIsTyped DEF Call
<1>2. \A k \in DOMAIN calls : calls'[k].job = calls[k].job
  OBVIOUS
<1>3. \A j \in Jobs : accepted'[j] > 0 =>
                         \E k \in DOMAIN calls' : calls'[k].job = j
  BY <1>2 DEF NoticeInv
<1>4. \A k \in DOMAIN calls' : Over(calls[k].job)'
  <2> SUFFICES ASSUME NEW j \in Jobs, Over(j) PROVE Over(j)'
    BY <1>1, <1>2 DEF NoticeInv, Over
  <2> QED
    BY OverStays
<1>5. ASSUME NEW k \in DOMAIN calls, k # i PROVE Balanced(k)'
  <2>1. calls[k].job # calls[i].job
    BY <1>5 DEF NoticeInv
  <2>2. accepted'[calls'[k].job] = accepted[calls[k].job]
    BY <1>1, <1>2, <2>1
  <2>3. AttemptsLeft(k)' = AttemptsLeft(k) /\ Flying(k)' = Flying(k)
    BY <1>5 DEF AttemptsLeft
  <2>4. Balanced(k)
    BY DEF NoticeInv
  <2> QED
    BY <2>2, <2>3, <2>4 DEF Balanced
<1> QED
  BY <1>2, <1>3, <1>4, <1>5 DEF NoticeInv

\* A callback starts.
LEMMA NoticeStarts ==
    ASSUME TypeInv, BoardInv, BoardStep, CallInv, CallInv', NoticeInv, Work
    PROVE  NoticeInv'
<1>1. UNCHANGED <<hook, inFlight, accepted>>
  BY DEF Work
<1>2. CallbackTypeOK /\ CallbackTypeOK'
  BY DEF CallInv
<1>3. /\ \A k \in DOMAIN calls : calls[k].job \in Jobs
      /\ \A k : Flying(k)' = Flying(k)
  BY <1>1, <1>2, CallIsTyped DEF Call, Flying
<1>4. \A j \in Jobs : Over(j) => Over(j)'
  BY OverStays
<1>5. CASE calls' = calls
  <2>2. \A k \in DOMAIN calls : Over(calls[k].job)'
    <3> SUFFICES ASSUME NEW j \in Jobs, Over(j) PROVE Over(j)'
      BY <1>3, <1>5 DEF NoticeInv, Over
    <3> QED
      BY <1>4
  <2>3. \A k \in DOMAIN calls : Balanced(k)'
    BY <1>1, <1>3, <1>5 DEF NoticeInv, Balanced, AttemptsLeft
  <2> QED
    BY <1>1, <1>5, <2>2, <2>3 DEF NoticeInv
<1>6. ASSUME NEW w \in Workers, NEW n \in Nat,
             CompleteJob(w), pc'[w] = "ack", job[w] \in Jobs,
             DOMAIN calls = 1..n, DOMAIN calls' = 1..(n + 1),
             \A i \in DOMAIN calls : calls'[i] = calls[i],
             calls'[n + 1] = NewCall(job[w])
      PROVE  NoticeInv'
  <2>1. PICK j \in Jobs : j = job[w]
    BY <1>6
  <2>2. ~Over(j) /\ Over(j)'
    <3>1. job' = job
      BY <1>6 DEF CompleteJob
    <3> QED
      BY <1>6, <2>1, <3>1, CompletingEnds DEF Over
  <2>3. \A k \in DOMAIN calls : calls[k].job # j
    BY <2>2 DEF NoticeInv
  <2>4. accepted[j] = 0
    <3>1. accepted[j] \in Nat /\ ~(accepted[j] > 0)
      BY <1>2, <2>3 DEF NoticeInv, CallbackTypeOK
    <3> QED
      BY <3>1
  <2>5. /\ calls'[n + 1].job = j
        /\ calls'[n + 1].at = "ready" /\ calls'[n + 1].attempt = 0
    BY <1>6, <2>1 DEF NewCall
  <2>6. \A k \in DOMAIN calls' : k \in DOMAIN calls \/ k = n + 1
    BY <1>6
  <2>7. \A k \in DOMAIN calls : calls'[k].job = calls[k].job /\ k # n + 1
    BY <1>6
  <2>8. \A k \in DOMAIN calls : Over(calls[k].job)'
    <3> SUFFICES ASSUME NEW i \in Jobs, Over(i) PROVE Over(i)'
      BY <1>3, <2>7 DEF NoticeInv, Over
    <3> QED
      BY <1>4
  <2>9. Over(calls[n + 1].job)'
    BY <2>2, <2>5 DEF Over
  <2>10. ASSUME NEW k \in DOMAIN calls PROVE Balanced(k)'
    BY <1>1, <1>3, <1>6 DEF NoticeInv, Balanced, AttemptsLeft
  <2>11. Balanced(n + 1)'
    <3>1. Flying(n + 1) = {}
      BY <1>6 DEF Flying, CallInv
    <3>2. Cardinality(Flying(n + 1)') = 0
      BY <1>3, <3>1, FS_EmptySet
    <3>3. AttemptsLeft(n + 1)' = CallbackRetries
      BY <2>5, CallbackAssumption DEF AttemptsLeft
    <3> QED
      BY <1>1, <2>4, <2>5, <3>2, <3>3, CallbackAssumption DEF Balanced
  <2>12. \A i \in Jobs : accepted'[i] > 0 =>
                            \E k \in DOMAIN calls' : calls'[k].job = i
    BY <1>1, <1>6, <2>7 DEF NoticeInv
  <2>13. \A i, k \in DOMAIN calls' : calls'[i].job = calls'[k].job => i = k
    BY <2>3, <2>5, <2>6, <2>7 DEF NoticeInv
  <2>14. \A k \in DOMAIN calls' : Over(calls[k].job)' /\ Balanced(k)'
    BY <2>6, <2>8, <2>9, <2>10, <2>11
  <2> QED
    BY <2>12, <2>13, <2>14 DEF NoticeInv
<1> QED
  BY <1>2, <1>5, <1>6, CallStarts

LEMMA NoticeNext ==
    ASSUME Uncanceled, TypeInv, SingleInv, BoardInv, CallInv, CallInv',
           NoticeInv, [CallbackNext]_allVars
    PROVE  NoticeInv'
<1>0. BoardStep /\ CallbackTypeOK
  BY PipelineStep, BoardNext DEF CallInv
<1>1. CASE Work
  BY <1>0, <1>1, NoticeStarts
<1>2. CASE Die
  <2>1. UNCHANGED <<hook, inFlight, accepted>>
    BY <1>2 DEF Die
  <2>2. /\ DOMAIN calls' = DOMAIN calls
        /\ \A k \in DOMAIN calls : /\ calls'[k].job = calls[k].job
                                   /\ calls[k].job \in Jobs
    BY <1>0, <1>2, CallsDie, CallIsTyped DEF Call
  <2>3. \A k \in DOMAIN calls : Over(calls[k].job)'
    <3> SUFFICES ASSUME NEW j \in Jobs, Over(j) PROVE Over(j)'
      BY <2>2 DEF NoticeInv, Over
    <3> QED
      BY <1>0, OverStays
  <2>4. ASSUME NEW k \in DOMAIN calls PROVE Balanced(k)'
    <3>1. Flying(k)' = Flying(k)
      BY <2>1 DEF Flying
    <3>2. /\ AttemptsLeft(k) \in Nat /\ accepted[calls[k].job] \in Nat
          /\ Cardinality(Flying(k)) \in Nat /\ CallbackRetries \in Nat
      BY Counts
    <3>3. AttemptsLeft(k)' = 0 \/ AttemptsLeft(k)' = AttemptsLeft(k)
      BY <1>0, <1>2, CallsDie DEF AttemptsLeft
    <3>4. accepted'[calls'[k].job] = accepted[calls[k].job]
      BY <2>1, <2>2
    <3> QED
      BY <3>1, <3>2, <3>3, <3>4 DEF NoticeInv, Balanced
  <2> QED
    BY <2>1, <2>2, <2>3, <2>4 DEF NoticeInv
<1>3. CASE Disconnect \/ UNCHANGED allVars
  <2>1. UNCHANGED <<hook, calls, inFlight, accepted>>
    BY <1>3 DEF Disconnect, calling, allVars
  <2>2. \A k \in DOMAIN calls : Over(calls[k].job)'
    <3> SUFFICES ASSUME NEW j \in Jobs, Over(j) PROVE Over(j)'
      BY <1>0, <2>1, CallIsTyped DEF Call, NoticeInv, Over
    <3> QED
      BY <1>0, OverStays
  <2> QED
    BY <2>1, <2>2 DEF NoticeInv, Balanced, Flying, AttemptsLeft
<1>4. ASSUME NEW i \in DOMAIN calls, Sender(i) PROVE NoticeInv'
  <2>0. /\ accepted[calls[i].job] \in Nat
        /\ Cardinality(Flying(i)) \in Nat /\ AttemptsLeft(i) \in Nat
        /\ calls[i].attempt \in 0..CallbackRetries
        /\ calls[i].at = "waiting" => calls[i].attempt < CallbackRetries
        /\ CallbackRetries \in Nat
    BY Counts
  <2>1. accepted' = accepted /\ Balanced(i)
    BY <1>4 DEF Sender, Post, GiveUp, TimeOut, NoticeInv
  <2>2. CASE Post(i)
    <3>1. /\ calls[i].at = "ready" /\ calls[i].attempt < CallbackRetries
          /\ Ends(i, "waiting")
          /\ inFlight' = inFlight \cup {<<i, calls[i].attempt>>}
      BY <2>2 DEF Post, TriesAgain
    <3>2. calls[i].attempt \in 0..(CallbackRetries - 1)
      BY <2>0, <3>1
    <3>3. /\ Cardinality(Flying(i)') <= Cardinality(Flying(i)) + 1
          /\ Cardinality(Flying(i)') \in Nat
          /\ \A k : k # i => Flying(k)' = Flying(k)
      BY <3>1, <3>2, FlyingAdds
    <3>4. /\ DOMAIN calls' = DOMAIN calls
          /\ \A k \in DOMAIN calls : k # i => calls'[k] = calls[k]
          /\ calls'[i].at = "waiting" /\ calls'[i].job = calls[i].job
          /\ calls'[i].attempt = calls[i].attempt
      BY <1>0, <3>1, CallEnds
    <3>5. AttemptsLeft(i)' = AttemptsLeft(i) - 1
      BY <2>0, <3>1, <3>4 DEF AttemptsLeft
    <3>6. Balanced(i)'
      BY <2>0, <2>1, <3>3, <3>4, <3>5 DEF Balanced
    <3> QED
      BY <1>0, <2>1, <3>3, <3>4, <3>6, NoticeStep
  <2>3. CASE GiveUp(i) \/ TimeOut(i)
    <3>1. \A k : Flying(k)' = Flying(k)
      BY <2>3 DEF GiveUp, TimeOut, Flying
    <3>2. /\ DOMAIN calls' = DOMAIN calls
          /\ \A k \in DOMAIN calls : k # i => calls'[k] = calls[k]
          /\ calls'[i].job = calls[i].job
          /\ \/ calls'[i].at = "abandoned"
             \/ /\ calls[i].at = "waiting" /\ calls'[i].at = "ready"
                /\ calls'[i].attempt = calls[i].attempt + 1
      BY <1>0, <2>0, <2>3, CallEnds, CallFails DEF GiveUp, TimeOut, Ended
    <3>3. AttemptsLeft(i)' = 0 \/ AttemptsLeft(i)' = AttemptsLeft(i)
      BY <2>0, <3>2 DEF AttemptsLeft
    <3>4. Balanced(i)'
      BY <2>0, <2>1, <3>1, <3>2, <3>3 DEF Balanced
    <3> QED
      BY <1>0, <2>1, <3>1, <3>2, <3>4, NoticeStep
  <2> QED
    BY <1>4, <2>2, <2>3 DEF Sender
<1>5. ASSUME NEW i \in DOMAIN calls, NEW n \in 0..CallbackRetries,
             Accept(i, n) \/ Refuse(i, n) \/ Lose(i, n)
      PROVE  NoticeInv'
  <2>0. /\ accepted[calls[i].job] \in Nat /\ calls[i].job \in Jobs
        /\ Cardinality(Flying(i)) \in Nat /\ AttemptsLeft(i) \in Nat
        /\ calls[i].attempt \in 0..CallbackRetries
        /\ calls[i].at = "waiting" => calls[i].attempt < CallbackRetries
        /\ CallbackRetries \in Nat
    BY Counts
  <2>1. n \in 0..(CallbackRetries - 1) /\ Leaves(i, n)
    BY <1>5 DEF Accept, Refuse, Lose, Leaves, CallInv
  <2>2. /\ Cardinality(Flying(i)') = Cardinality(Flying(i)) - 1
        /\ \A k : k # i => Flying(k)' = Flying(k)
    BY <2>1, FlyingRemoves
  <2>3. /\ DOMAIN calls' = DOMAIN calls
        /\ \A k \in DOMAIN calls : k # i => calls'[k] = calls[k]
        /\ calls'[i].job = calls[i].job
        /\ \/ calls'[i].at = "sent"
           \/ /\ calls[i].at = "waiting" /\ calls'[i].at = "ready"
              /\ calls'[i].attempt = calls[i].attempt + 1
           \/ /\ calls'[i].at = calls[i].at
              /\ calls'[i].attempt = calls[i].attempt
    BY <1>0, <1>5, <2>0, CallEnds, CallFails, CallSpoilt
       DEF Accept, Refuse, Lose, Awaits, Ended
  <2>4. AttemptsLeft(i)' = 0 \/ AttemptsLeft(i)' = AttemptsLeft(i)
    BY <2>0, <2>3 DEF AttemptsLeft
  <2>5. /\ accepted'[calls[i].job] <= accepted[calls[i].job] + 1
        /\ accepted'[calls[i].job] \in Nat
        /\ \A j \in Jobs : j # calls[i].job => accepted'[j] = accepted[j]
    <3>1. \/ accepted' = accepted
          \/ accepted' = [accepted EXCEPT ![calls[i].job] = @ + 1]
      BY <1>5 DEF Accept, Refuse, Lose
    <3>2. accepted \in [Jobs -> Nat]
      BY <1>0 DEF CallbackTypeOK
    <3> QED
      BY <2>0, <3>1, <3>2
  <2>6. Balanced(i)'
    BY <2>0, <2>2, <2>3, <2>4, <2>5 DEF Balanced, NoticeInv
  <2> QED
    BY <1>0, <2>2, <2>3, <2>5, <2>6, NoticeStep
<1> QED
  BY <1>1, <1>2, <1>3, <1>4, <1>5 DEF CallbackNext, Receiver

LEMMA NoticeAlways ==
    ASSUME Uncanceled
    PROVE  CallbackSpec => []NoticeInv
<1>1. CallbackInit => NoticeInv
  BY DEF CallbackInit, NoticeInv
<1>2. TypeInv /\ SingleInv /\ BoardInv /\ CallInv /\ CallInv' /\ NoticeInv
        /\ [CallbackNext]_allVars => NoticeInv'
  BY NoticeNext
<1>3. NoDuplicates
  BY DEF Uncanceled
<1> QED
  BY CallbacksKeepPipeline, TypeCorrect, SingleAlways, BoardAlways, CallAlways,
     <1>1, <1>2, <1>3, PTL DEF CallbackSpec

\* Whatever a receiver was told of a job remains true of its row until the
\* row is deleted: neither a redelivered message nor a retry after a database
\* error changes a job whose results have left in sendCallback.
THEOREM ToldStaysTrue ==
    ASSUME Uncanceled
    PROVE  CallbackSpec => []ToldIsTrue
<1>1. TypeInv /\ NoticeInv => ToldIsTrue
  <2> SUFFICES ASSUME TypeInv, NoticeInv, NEW j \in Jobs, accepted[j] > 0
               PROVE  rows[j].status \in {"completed", "absent"}
    BY DEF ToldIsTrue
  <2>1. PICK i \in DOMAIN calls : calls[i].job = j
    BY DEF NoticeInv
  <2>2. Over(j)
    BY <2>1 DEF NoticeInv
  <2>3. rows[j].status \in Status
    BY DEF TypeInv, TypeOK, Row
  <2> QED
    BY <2>2, <2>3 DEF Over, PhaseBar, Exists, Status, Terminal
<1> QED
  BY <1>1, CallbacksKeepPipeline, TypeCorrect, NoticeAlways, PTL

\* Retries, late arrivals and lost answers together bring a receiver the
\* results of one job CallbackRetries times at most, however many workers and
\* messages there are: one job starts one callback.
THEOREM NoticesAreBounded ==
    ASSUME Uncanceled
    PROVE  CallbackSpec => []NoticesBounded
<1>1. NoticeInv /\ CallInv => NoticesBounded
  <2> SUFFICES ASSUME NoticeInv, CallInv, NEW j \in Jobs
               PROVE  accepted[j] <= CallbackRetries
    BY DEF NoticesBounded
  <2>1. accepted[j] \in Nat
    BY DEF CallInv, CallbackTypeOK
  <2>2. CASE accepted[j] > 0
    <3>1. PICK i \in DOMAIN calls : calls[i].job = j
      BY <2>2 DEF NoticeInv
    <3>2. Balanced(i)
      BY DEF NoticeInv
    <3>3. /\ Cardinality(Flying(i)) \in Nat /\ AttemptsLeft(i) \in Nat
          /\ CallbackRetries \in Nat
      BY Counts
    <3> QED
      BY <2>1, <3>1, <3>2, <3>3 DEF Balanced
  <2> QED
    BY <2>1, <2>2, CallbackAssumption
<1> QED
  BY <1>1, NoticeAlways, CallAlways, PTL

=============================================================================
