----------------------------- MODULE Callbacks -----------------------------
(***************************************************************************)
(* Callback delivery, composed with the job pipeline.  When executeJob has *)
(* completed a job whose row carries a callback URL it starts a goroutine  *)
(* (sendCallback, sendHTTPCallback) that posts the results, retries after  *)
(* an error or a status other than 2xx, and ends after CallbackRetries     *)
(* attempts.  Its context is context.Background(): neither the shutdown of *)
(* the pool nor the end of the job stops it, only the end of the process.  *)
(*                                                                         *)
(* The receiver is another process.  A request may be lost, refused, or    *)
(* accepted after its sender has given it up, and an answer may be lost.   *)
(***************************************************************************)
EXTENDS JobPipeline, Sequences

CONSTANTS
    CallbackRetries,    \* config.CallbackRetries, attempts per callback
    MaxCalls            \* bound on the callback goroutines

ASSUME CallbackAssumption ==
    CallbackRetries \in Nat /\ MaxCalls \in Nat

VARIABLES
    hook,       \* what the callback_url of each job holds
    calls,      \* the callback goroutines, in the order they were started
    inFlight,   \* requests on their way, as <<goroutine, attempt>>
    accepted    \* how often the receiver accepted the results of each job

calling == <<hook, calls, inFlight, accepted>>
allVars == <<vars, calling>>

-----------------------------------------------------------------------------

\* spoilt records the attempts that the network or the receiver disturbed.
NewCall(j) == [at |-> "ready", job |-> j, attempt |-> 0, spoilt |-> {}]

\* Mutant of Completes: a scrape that failed is reported too.
CompletesOrFails(w) == pc[w] \in {"complete", "fail"} /\ pc'[w] = "ack"
\* Worker w commits the result of its job and has seen the reply.
Completes(w) == pc[w] = "complete" /\ pc'[w] = "ack"

\* A step of the pipeline, which starts a callback if it completes a job.
Work ==
    /\ Step
    /\ IF \E w \in Workers : Completes(w) /\ hook[job[w]] # "none"
       THEN /\ Len(calls) < MaxCalls
            /\ \E w \in Workers :
                  Completes(w) /\ calls' = Append(calls, NewCall(job[w]))
       ELSE UNCHANGED calls
    /\ UNCHANGED <<hook, inFlight, accepted>>

\* The process dies, and its goroutines with it; requests that have left
\* may still arrive.
Die ==
    /\ Crash
    /\ calls' = [i \in DOMAIN calls |->
                    IF calls[i].at \in {"ready", "waiting"}
                    THEN [calls[i] EXCEPT !.at = "killed"] ELSE calls[i]]
    /\ UNCHANGED <<hook, inFlight, accepted>>

Disconnect ==
    /\ LoseConnection
    /\ UNCHANGED calling

-----------------------------------------------------------------------------
(* The goroutine.                                                          *)

Ends(i, how) == calls' = [calls EXCEPT ![i].at = how]

\* Mutant of TriesAgain: attempt <= maxRetries.
TriesOnceMore(i) == calls[i].attempt <= CallbackRetries
TriesAgain(i) == calls[i].attempt < CallbackRetries

\* Build the request and send it.
Post(i) ==
    /\ calls[i].at = "ready"
    /\ TriesAgain(i)
    /\ hook[calls[i].job] = "url"
    /\ Ends(i, "waiting")
    /\ inFlight' = inFlight \cup {<<i, calls[i].attempt>>}
    /\ UNCHANGED <<vars, hook, accepted>>

\* The loop is over, or http.NewRequest rejects the URL.
GiveUp(i) ==
    /\ calls[i].at = "ready"
    /\ \/ ~TriesAgain(i)
       \/ hook[calls[i].job] = "malformed"
    /\ Ends(i, "abandoned")
    /\ UNCHANGED <<vars, hook, inFlight, accepted>>

Sent(i) == <<i, calls[i].attempt>> \in inFlight

\* The attempt failed.  The sleep that follows only takes time.
Failure(i) ==
    calls' = [calls EXCEPT ![i].at = "ready",
                           ![i].attempt = @ + 1,
                           ![i].spoilt = @ \cup {calls[i].attempt}]

\* Mutant of TimeOut: a client without a timeout learns nothing of a request
\* that got lost.
TimeOutWhileSlow(i) ==
    /\ calls[i].at = "waiting"
    /\ Sent(i)
    /\ Failure(i)
    /\ UNCHANGED <<vars, hook, inFlight, accepted>>

\* CallbackTimeout passes or the connection breaks: the request is still on
\* its way, or it was lost, or its answer was.
TimeOut(i) ==
    /\ calls[i].at = "waiting"
    /\ Failure(i)
    /\ UNCHANGED <<vars, hook, inFlight, accepted>>

-----------------------------------------------------------------------------
(* The receiver and the network.                                           *)

Awaits(i, n) == calls[i].at = "waiting" /\ calls[i].attempt = n
Leaves(i, n) == <<i, n>> \in inFlight /\ inFlight' = inFlight \ {<<i, n>>}
Spoilt(i, n) == calls' = [calls EXCEPT ![i].spoilt = @ \cup {n}]

\* The receiver accepts the results; the answer arrives, is lost, or comes
\* too late.
Accept(i, n) ==
    /\ Leaves(i, n)
    /\ accepted' = [accepted EXCEPT ![calls[i].job] = @ + 1]
    /\ \/ Awaits(i, n) /\ Ends(i, "sent")
       \/ Spoilt(i, n)
    /\ UNCHANGED <<vars, hook>>

\* Mutant of Refuse: any answer counts as success.
RefuseUnseen(i, n) ==
    /\ Leaves(i, n)
    /\ Awaits(i, n)
    /\ Ends(i, "sent")
    /\ UNCHANGED <<vars, hook, accepted>>

\* The receiver answers with a status other than 2xx.
Refuse(i, n) ==
    /\ Leaves(i, n)
    /\ Awaits(i, n)
    /\ Failure(i)
    /\ UNCHANGED <<vars, hook, accepted>>

Lose(i, n) ==
    /\ Leaves(i, n)
    /\ Spoilt(i, n)
    /\ UNCHANGED <<vars, hook, accepted>>

-----------------------------------------------------------------------------

CallbackInit ==
    /\ Init
    /\ hook \in [Jobs -> {"none", "url", "malformed"}]
    /\ calls = <<>>
    /\ inFlight = {}
    /\ accepted = [j \in Jobs |-> 0]

Sender(i) == Post(i) \/ GiveUp(i) \/ TimeOut(i)
Receiver == \E i \in DOMAIN calls, n \in 0..CallbackRetries :
                Accept(i, n) \/ Refuse(i, n) \/ Lose(i, n)

CallbackNext ==
    \/ Work \/ Die \/ Disconnect
    \/ \E i \in DOMAIN calls : Sender(i)
    \/ Receiver

\* Goroutines go on and timers fire; nothing is asked of the receiver.
CallbackFairness ==
    \A i \in 1..MaxCalls : WF_allVars(i \in DOMAIN calls /\ Sender(i))

CallbackSpec == CallbackInit /\ [][CallbackNext]_allVars /\ CallbackFairness

-----------------------------------------------------------------------------
(* Properties.                                                             *)

Ended == {"sent", "abandoned", "killed"}

CallbackTypeOK ==
    /\ hook \in [Jobs -> {"none", "url", "malformed"}]
    /\ calls \in Seq([at : {"ready", "waiting"} \cup Ended, job : Jobs,
                      attempt : 0..CallbackRetries,
                      spoilt : SUBSET (0..CallbackRetries)])
    /\ inFlight \subseteq (DOMAIN calls) \X (0..CallbackRetries)
    /\ accepted \in [Jobs -> Nat]

\* What a receiver was told stays true: through redelivery, database errors
\* and lost messages, the row of a job it was told about remains completed
\* until it is deleted.
ToldIsTrue ==
    \A j \in Jobs : accepted[j] > 0 =>
                       rows[j].status \in {"completed", "absent"}

\* Retries and late arrivals together bring a receiver the results of one
\* job CallbackRetries times at most.
NoticesBounded == \A j \in Jobs : accepted[j] <= CallbackRetries

\* A callback that ended as sent was accepted; one that was given up had
\* every one of its attempts spoilt, or no usable URL.
EndsAccountedFor ==
    \A i \in DOMAIN calls :
        /\ calls[i].at = "sent" => accepted[calls[i].job] > 0
        /\ calls[i].at = "abandoned" =>
              \/ hook[calls[i].job] = "malformed"
              \/ \A n \in 0..(CallbackRetries - 1) : n \in calls[i].spoilt

\* Every callback goroutine ends.
CallbackEnds ==
    \A i \in 1..MaxCalls :
        i \in DOMAIN calls ~> i \in DOMAIN calls /\ calls[i].at \in Ended

=============================================================================
