------------------------------ MODULE JobQueue ------------------------------
(***************************************************************************)
(* helpers/queue.js, the path of a job: sendToQueue() writes a row of the  *)
(* jobs table and publishes a message, a worker's consume() handler runs   *)
(* the job and records its verdict, retryFailedJobs() sends failed jobs    *)
(* again.  Senders and retriers are requests, workers are processes that   *)
(* consume; by default (server.js, RUN_WORKERS) a worker's process serves  *)
(* requests too, and takes some of them along when it dies.  Every await   *)
(* of a database query or of the job's callback is a point where the       *)
(* others run, so each is a step of its own.                               *)
(*                                                                         *)
(* The broker and MySQL are external, modelled from how queue.js uses      *)
(* them: durable queues, manual acknowledgement, unacknowledged messages   *)
(* requeued when their connection goes, nack without requeue sent to the   *)
(* dead letter queue.  The circuit breaker of sendToQueue() has a module   *)
(* of its own; here it is one more reason for a publish to be refused.     *)
(***************************************************************************)
EXTENDS Naturals, FiniteSets, Sequences

CONSTANTS
    Jobs,          \* the jobs the application submits
    Workers,       \* processes that consume the queue
    Retriers,      \* concurrent calls of retryFailedJobs()
    MaxAttempts,   \* options.maxAttempts of every job
    RetryLimit,    \* the limit of one retryFailedJobs() call
    MaxMessages,   \* bound of the model: messages ever published
    MaxFaults,     \* bound of the model: faults that may happen
    Faults,        \* kinds of fault that may happen, see FaultKinds
    DataForms,     \* forms in which the database driver may return jobs.data
    NoJob          \* null

FaultKinds ==
    { "refused",       \* publish throws: not connected, or breaker OPEN
      "backpressure",  \* channel.sendToQueue() returns false
      "unconfirmed",   \* a message written to the connection never reaches the broker
      "disconnect",    \* a worker's broker connection goes
      "workerCrash",   \* a process that consumes dies
      "senderCrash",   \* the process of a sendToQueue() or retryFailedJobs() call dies
      "database" }     \* a query fails

(* The column has type json. mysql2 hands over a JSON column of MySQL parsed,  *)
(* as an object, and that of MariaDB, an alias of LONGTEXT, as text.         *)
AllDataForms == {"object", "text"}

ASSUME JobQueueAssumption ==
    /\ MaxAttempts \in Nat \ {0}
    /\ RetryLimit \in Nat \ {0}
    /\ MaxMessages \in Nat
    /\ MaxFaults \in Nat
    /\ Faults \subseteq FaultKinds
    /\ DataForms \subseteq AllDataForms
    /\ NoJob \notin Jobs
    /\ Workers \intersect {"queued", "acked", "dead"} = {}
    /\ IsFiniteSet(Retriers)

VARIABLES
    status,    \* jobs.status by job, "absent" while there is no row
    attempts,  \* jobs.attempts
    message,   \* message[m]: the m-th message published
    sender,    \* sender[j]: where the sendToQueue() call of job j stands
    retrier,   \* retrier[r]: where call r of retryFailedJobs() stands
    channel,   \* channel[w]: this.channel of worker process w
    handler,   \* handler[m][w]: where w's handler of message m stands
    done,      \* history: messages whose callback has returned
    erred,     \* history: messages whose callback has thrown
    faults     \* faults so far

vars == <<status, attempts, message, sender, retrier, channel, handler,
          done, erred, faults>>

dbVars == <<status, attempts>>
workerVars == <<channel, handler, done, erred>>

Messages == 1..MaxMessages

(* No call of retryFailedJobs() is running. *)
NoCall == [step |-> "idle", batch |-> {}, job |-> NoJob]

(* A message carries the job's data; tagged says whether its jobId is set.  *)
Message == [job : Jobs, tagged : BOOLEAN,
            at : {"queued", "acked", "dead"} \union Workers]

HandlerStep == {"none", "received", "running", "returned", "recorded", "threw", "rejecting"}

TypeOK ==
    /\ status \in [Jobs -> {"absent", "pending", "processing", "completed", "failed"}]
    /\ attempts \in [Jobs -> Nat]
    /\ message \in Seq(Message)
    /\ Len(message) <= MaxMessages
    /\ sender \in [Jobs -> {"idle", "inserted", "unsent", "over", "dropped", "dead"}]
    /\ retrier \in [Retriers -> [step : {"idle", "next", "marked", "unsent", "caught"},
                                 batch : SUBSET Jobs, job : Jobs \union {NoJob}]]
    /\ channel \in [Workers -> {"consuming", "lost", "reopened", "down"}]
    /\ handler \in [Messages -> [Workers -> HandlerStep]]
    /\ done \subseteq Messages
    /\ erred \subseteq Messages
    /\ faults \in 0..MaxFaults

-----------------------------------------------------------------------------

Init ==
    /\ status = [j \in Jobs |-> "absent"]
    /\ attempts = [j \in Jobs |-> 0]
    /\ message = <<>>
    /\ sender = [j \in Jobs |-> "idle"]
    /\ retrier = [r \in Retriers |-> NoCall]
    /\ channel = [w \in Workers |-> "consuming"]
    /\ handler = [m \in Messages |-> [w \in Workers |-> "none"]]
    /\ done = {}
    /\ erred = {}
    /\ faults = 0

Fault(kind) ==
    /\ kind \in Faults
    /\ faults < MaxFaults
    /\ faults' = faults + 1

SetStatus(j, s) == status' = [status EXCEPT ![j] = s]

(* updateJobStatus(): an unconditional UPDATE whose failure is swallowed. *)
UpdateJobStatus(j, s) ==
    \/ /\ SetStatus(j, s)
       /\ UNCHANGED faults
    \/ /\ Fault("database")
       /\ UNCHANGED status

(* channel.sendToQueue() called through the circuit breaker.  A message is   *)
(* tagged with jobId; with a full write buffer amqplib keeps it all the same *)
(* and returns false, which sendToQueue() takes for a failure.               *)
Publish(j, tagged) ==
    /\ Len(message) < MaxMessages
    /\ message' = Append(message, [job |-> j, tagged |-> tagged, at |-> "queued"])

PublishSucceeds(j, tagged) == Publish(j, tagged) /\ UNCHANGED faults

(* The channel has no publisher confirms: sendToQueue() returns true for a   *)
(* message that is still in the write buffer, and is never told when that    *)
(* buffer goes down with its connection or its process.                      *)
PublishIsLost == Fault("unconfirmed") /\ UNCHANGED message

PublishFails(j, tagged) ==
    \/ Fault("refused") /\ UNCHANGED message
    \/ Fault("backpressure") /\ Publish(j, tagged)

-----------------------------------------------------------------------------
(* sendToQueue() of a new job *)

Insert(j) ==
    /\ sender[j] = "idle"
    /\ \/ /\ SetStatus(j, "pending")
          /\ sender' = [sender EXCEPT ![j] = "inserted"]
          /\ UNCHANGED faults
       \/ /\ Fault("database")
          /\ sender' = [sender EXCEPT ![j] = "over"]
          /\ UNCHANGED status
    /\ UNCHANGED <<attempts, message, retrier, workerVars>>

Send(j) ==
    /\ sender[j] = "inserted"
    /\ \/ /\ PublishSucceeds(j, TRUE)
          /\ sender' = [sender EXCEPT ![j] = "over"]
       \/ /\ PublishIsLost
          /\ sender' = [sender EXCEPT ![j] = "dropped"]
       \/ /\ PublishFails(j, TRUE)
          /\ sender' = [sender EXCEPT ![j] = "unsent"]
    /\ UNCHANGED <<dbVars, retrier, workerVars>>

RecordUnsent(j) ==
    /\ sender[j] = "unsent"
    /\ UpdateJobStatus(j, "failed")
    /\ sender' = [sender EXCEPT ![j] = "over"]
    /\ UNCHANGED <<attempts, message, retrier, workerVars>>

SenderCrash(j) ==
    /\ sender[j] \in {"inserted", "unsent"}
    /\ Fault("senderCrash")
    /\ sender' = [sender EXCEPT ![j] = "dead"]
    /\ UNCHANGED <<dbVars, message, retrier, workerVars>>

-----------------------------------------------------------------------------
(* The handler that consume() registers, for message m on worker w *)

Step(m, w, s) == handler' = [handler EXCEPT ![m][w] = s]

(* The broker requeues what worker w has not acknowledged. *)
RequeueAll(w) ==
    message' = [m \in DOMAIN message |->
                  IF message[m].at = w THEN [message[m] EXCEPT !.at = "queued"]
                                       ELSE message[m]]

(* The calls that a process takes along: whichever requests it was serving.  *)
RequestsDie ==
    \E orphans \in SUBSET Jobs, gone \in SUBSET Retriers :
       /\ sender' = [j \in Jobs |->
                       IF j \in orphans /\ sender[j] \in {"inserted", "unsent"}
                       THEN "dead" ELSE sender[j]]
       /\ retrier' = [r \in Retriers |-> IF r \in gone THEN NoCall ELSE retrier[r]]

(* The process is gone, and with it every handler that was running and the   *)
(* requests it served.                                                       *)
ProcessDies(w) ==
    /\ channel' = [channel EXCEPT ![w] = "down"]
    /\ handler' = [m \in Messages |-> [handler[m] EXCEPT ![w] = "none"]]
    /\ RequeueAll(w)
    /\ RequestsDie

Deliver(m, w) ==
    /\ m \in DOMAIN message
    /\ message[m].at = "queued"
    /\ channel[w] = "consuming"
    /\ message' = [message EXCEPT ![m].at = w]
    /\ Step(m, w, "received")
    /\ UNCHANGED <<dbVars, sender, retrier, channel, done, erred, faults>>

(* A handler writes the job's status only if the message carries a jobId. *)
HandlerUpdates(m, s) ==
    IF message[m].tagged THEN UpdateJobStatus(message[m].job, s)
                         ELSE UNCHANGED <<status, faults>>

RecordProcessing(m, w) ==
    /\ handler[m][w] = "received"
    /\ HandlerUpdates(m, "processing")
    /\ Step(m, w, "running")
    /\ UNCHANGED <<attempts, message, sender, retrier, channel, done, erred>>

CallbackReturns(m, w) ==
    /\ handler[m][w] = "running"
    /\ done' = done \union {m}
    /\ Step(m, w, "returned")
    /\ UNCHANGED <<dbVars, message, sender, retrier, channel, erred, faults>>

CallbackThrows(m, w) ==
    /\ handler[m][w] = "running"
    /\ erred' = erred \union {m}
    /\ Step(m, w, "threw")
    /\ UNCHANGED <<dbVars, message, sender, retrier, channel, done, faults>>

(* Mutant: the status written before the callback is awaited. *)
RecordCompletedEarly(m, w) ==
    /\ handler[m][w] = "running"
    /\ HandlerUpdates(m, "completed")
    /\ Step(m, w, "recorded")
    /\ UNCHANGED <<attempts, message, sender, retrier, channel, done, erred>>

RecordCompleted(m, w) ==
    /\ handler[m][w] = "returned"
    /\ HandlerUpdates(m, "completed")
    /\ Step(m, w, "recorded")
    /\ UNCHANGED <<attempts, message, sender, retrier, channel, done, erred>>

(* Settling on this.channel: the broker knows the delivery only on the       *)
(* channel it was made on. For any other it closes the channel, with which   *)
(* the connection may go.                                                    *)
SettleAs(m, w, verdict) ==
    /\ \/ /\ channel[w] = "consuming"
          /\ message' = [message EXCEPT ![m].at = verdict]
          /\ UNCHANGED channel
       \/ /\ channel[w] = "reopened"
          /\ channel' \in {[channel EXCEPT ![w] = c] : c \in {"reopened", "lost"}}
          /\ UNCHANGED message
    /\ Step(m, w, "none")

(* Mutant: acknowledged on receipt. *)
AckOnReceipt(m, w) ==
    /\ handler[m][w] \in {"running", "recorded"}
    /\ SettleAs(m, w, "acked")
    /\ UNCHANGED <<dbVars, sender, retrier, done, erred, faults>>

(* With no channel at all ack() throws, into the handler's catch block. *)
Ack(m, w) ==
    /\ handler[m][w] = "recorded"
    /\ \/ SettleAs(m, w, "acked")
       \/ /\ channel[w] = "lost"
          /\ Step(m, w, "threw")
          /\ UNCHANGED <<message, channel>>
    /\ UNCHANGED <<dbVars, sender, retrier, done, erred, faults>>

(* Mutant: the failure is only logged. *)
RecordFailedSilent(m, w) ==
    /\ handler[m][w] = "threw"
    /\ Step(m, w, "rejecting")
    /\ UNCHANGED <<dbVars, message, sender, retrier, channel, done, erred, faults>>

RecordFailed(m, w) ==
    /\ handler[m][w] = "threw"
    /\ HandlerUpdates(m, "failed")
    /\ Step(m, w, "rejecting")
    /\ UNCHANGED <<attempts, message, sender, retrier, channel, done, erred>>

(* Mutant: nack() with requeue. *)
NackRequeues(m, w) ==
    /\ handler[m][w] = "rejecting"
    /\ SettleAs(m, w, "queued")
    /\ UNCHANGED <<dbVars, sender, retrier, done, erred, faults>>

(* With no channel nack() throws out of the catch block of an async handler: *)
(* an unhandled rejection, which ends a Node.js process.                     *)
Nack(m, w) ==
    /\ handler[m][w] = "rejecting"
    /\ \/ /\ SettleAs(m, w, "dead")
          /\ UNCHANGED <<sender, retrier>>
       \/ /\ channel[w] = "lost"
          /\ ProcessDies(w)
    /\ UNCHANGED <<dbVars, done, erred, faults>>

-----------------------------------------------------------------------------
(* Worker processes and their connection *)

(* handleConnectionClose(): this.channel becomes null. *)
Disconnect(w) ==
    /\ channel[w] \in {"consuming", "reopened"}
    /\ Fault("disconnect")
    /\ channel' = [channel EXCEPT ![w] = "lost"]
    /\ RequeueAll(w)
    /\ UNCHANGED <<dbVars, sender, retrier, handler, done, erred>>

(* Mutant: the consumer is registered again while handlers of the lost       *)
(* channel still run.                                                        *)
ReconnectConsuming(w) ==
    /\ channel[w] = "lost"
    /\ channel' = [channel EXCEPT ![w] = "consuming"]
    /\ UNCHANGED <<dbVars, message, sender, retrier, handler, done, erred, faults>>

(* connect() opens a new channel; nobody calls consume() on it again. *)
Reconnect(w) ==
    /\ channel[w] = "lost"
    /\ channel' = [channel EXCEPT ![w] = "reopened"]
    /\ UNCHANGED <<dbVars, message, sender, retrier, handler, done, erred, faults>>

WorkerCrash(w) ==
    /\ channel[w] # "down"
    /\ Fault("workerCrash")
    /\ ProcessDies(w)
    /\ UNCHANGED <<dbVars, done, erred>>

(* WorkerManager.start(): connect, then consume() once. *)
Restart(w) ==
    /\ channel[w] = "down"
    /\ channel' = [channel EXCEPT ![w] = "consuming"]
    /\ UNCHANGED <<dbVars, message, sender, retrier, handler, done, erred, faults>>

-----------------------------------------------------------------------------
(* retryFailedJobs() *)

(* Mutant: the limit reached but not passed. *)
RetryableAtLimit == {j \in Jobs : status[j] = "failed" /\ attempts[j] <= MaxAttempts}

Retryable == {j \in Jobs : status[j] = "failed" /\ attempts[j] < MaxAttempts}

(* SELECT ... LIMIT: as many retryable jobs as the limit allows. *)
SelectFailed(r) ==
    /\ retrier[r].step = "idle"
    /\ \E batch \in SUBSET Retryable :
          /\ batch # {}
          /\ Cardinality(batch) <= RetryLimit
          /\ batch # Retryable => Cardinality(batch) = RetryLimit
          /\ retrier' = [retrier EXCEPT ![r] = [step |-> "next", batch |-> batch, job |-> NoJob]]
    /\ UNCHANGED <<dbVars, message, sender, workerVars, faults>>

ToNextJob(r) ==
    retrier' = [retrier EXCEPT ![r].step = IF retrier[r].batch = {} THEN "idle" ELSE "next",
                               ![r].job = NoJob]

GiveUpBatch(r) == retrier' = [retrier EXCEPT ![r] = NoCall]

(* Mutant: only the attempts are updated. *)
MarkPendingKeepsStatus(r) ==
    /\ retrier[r].step = "next"
    /\ \E j \in retrier[r].batch :
          /\ attempts' = [attempts EXCEPT ![j] = @ + 1]
          /\ retrier' = [retrier EXCEPT ![r] = [step |-> "marked", job |-> j,
                                                batch |-> @.batch \ {j}]]
    /\ UNCHANGED <<status, message, sender, workerVars, faults>>

(* The UPDATE to pending; an exception goes to the job's catch block. *)
MarkPending(r) ==
    /\ retrier[r].step = "next"
    /\ \E j \in retrier[r].batch :
          \/ /\ SetStatus(j, "pending")
             /\ attempts' = [attempts EXCEPT ![j] = @ + 1]
             /\ retrier' = [retrier EXCEPT ![r] = [step |-> "marked", job |-> j,
                                                   batch |-> @.batch \ {j}]]
             /\ UNCHANGED faults
          \/ /\ Fault("database")
             /\ retrier' = [retrier EXCEPT ![r] = [step |-> "caught", job |-> j,
                                                   batch |-> @.batch \ {j}]]
             /\ UNCHANGED dbVars
    /\ UNCHANGED <<message, sender, workerVars>>

(* JSON.parse(job.data) throws when the driver has parsed it already, and    *)
(* the job's catch block takes over. Otherwise sendToQueue() is called with  *)
(* skipDbInsert, so that jobId stays null in the message.                    *)
DataUnreadable(r) ==
    /\ retrier[r].step = "marked"
    /\ "object" \in DataForms
    /\ retrier' = [retrier EXCEPT ![r].step = "caught"]
    /\ UNCHANGED <<dbVars, message, sender, workerVars, faults>>

Resend(r) ==
    /\ retrier[r].step = "marked"
    /\ "text" \in DataForms
    /\ \/ /\ PublishSucceeds(retrier[r].job, FALSE) \/ PublishIsLost
          /\ ToNextJob(r)
       \/ /\ PublishFails(retrier[r].job, FALSE)
          /\ retrier' = [retrier EXCEPT ![r].step = "unsent"]
    /\ UNCHANGED <<dbVars, sender, workerVars>>

(* The job could not be sent, or an exception was caught: it is made failed  *)
(* again. An exception in the first case is caught like any other; one in    *)
(* the catch block itself ends the whole call.                               *)
RevertToFailed(r) ==
    /\ retrier[r].step \in {"unsent", "caught"}
    /\ \/ /\ SetStatus(retrier[r].job, "failed")
          /\ ToNextJob(r)
          /\ UNCHANGED faults
       \/ /\ Fault("database")
          /\ IF retrier[r].step = "unsent"
             THEN retrier' = [retrier EXCEPT ![r].step = "caught"]
             ELSE GiveUpBatch(r)
          /\ UNCHANGED status
    /\ UNCHANGED <<attempts, message, sender, workerVars>>

RetrierCrash(r) ==
    /\ retrier[r].step # "idle"
    /\ Fault("senderCrash")
    /\ GiveUpBatch(r)
    /\ UNCHANGED <<dbVars, message, sender, workerVars>>

-----------------------------------------------------------------------------

SenderStep(j) == Insert(j) \/ Send(j) \/ RecordUnsent(j)

RetrierContinues(r) ==
    MarkPending(r) \/ DataUnreadable(r) \/ Resend(r) \/ RevertToFailed(r)

RetrierStep(r) == SelectFailed(r) \/ RetrierContinues(r)

HandlerNext(m, w) ==
    \/ RecordProcessing(m, w)
    \/ CallbackReturns(m, w)
    \/ CallbackThrows(m, w)
    \/ RecordCompleted(m, w)
    \/ Ack(m, w)
    \/ RecordFailed(m, w)
    \/ Nack(m, w)

ConnectionStep(w) == Disconnect(w) \/ Reconnect(w) \/ WorkerCrash(w) \/ Restart(w)

Next ==
    \/ \E j \in Jobs : SenderStep(j) \/ SenderCrash(j)
    \/ \E r \in Retriers : RetrierStep(r) \/ RetrierCrash(r)
    \/ \E m \in Messages, w \in Workers : Deliver(m, w) \/ HandlerNext(m, w)
    \/ \E w \in Workers : ConnectionStep(w)

Spec == Init /\ [][Next]_vars

(* Requests and handlers run to their end, the broker delivers what waits in *)
(* a queue with a consumer, and the container runtime starts a dead process  *)
(* again (docker-compose.yml:18, restart: unless-stopped, on the service     *)
(* that serves requests and, by default, runs the workers: the requests it   *)
(* took along do not come back). Nobody is obliged to submit or retry a job, *)
(* no fault is obliged to happen, and a lost connection need not come back   *)
(* (see QueueConnection).                                                    *)
Fairness ==
    /\ \A j \in Jobs : WF_vars(Send(j)) /\ WF_vars(RecordUnsent(j))
    /\ \A r \in Retriers : WF_vars(RetrierContinues(r))
    /\ \A m \in Messages :
          /\ WF_vars(\E w \in Workers : Deliver(m, w))
          /\ \A w \in Workers : WF_vars(HandlerNext(m, w))
    /\ \A w \in Workers : WF_vars(Restart(w))

FairSpec == Spec /\ Fairness

-----------------------------------------------------------------------------
(* Properties that hold whatever faults happen *)

(* A message leaves the broker as acknowledged only if its callback returned *)
(* (consume() acks last), and goes to the dead letter queue only if it       *)
(* threw: no crash or lost connection loses a job that was never run.        *)
VerdictMatchesCallback ==
    \A m \in DOMAIN message :
       /\ message[m].at = "acked" => m \in done
       /\ message[m].at = "dead" => m \in erred

(* A handler can settle a delivery only while its own worker holds the       *)
(* message: one left over from a lost connection cannot acknowledge what the *)
(* broker has given to somebody else.                                        *)
OnlyTheHolderSettles ==
    \A m \in Messages, w \in Workers :
       handler[m][w] # "none" /\ channel[w] = "consuming" =>
          m \in DOMAIN message /\ message[m].at = w

(* A job shown as completed has been run to its end at least once, by a      *)
(* message that carries its id.                                              *)
CompletedMeansDone ==
    \A j \in Jobs : status[j] = "completed" =>
       \E m \in done : message[m].job = j /\ message[m].tagged

(* attempts < max_attempts is checked in one query and the increment made in *)
(* another, so concurrent retryFailedJobs() calls can exceed max_attempts,   *)
(* but by no more than one each.                                             *)
AttemptsBounded ==
    \A j \in Jobs : attempts[j] + 1 <= MaxAttempts + Cardinality(Retriers)

(* While processes crash and restart, publishes are refused or lost and      *)
(* queries succeed, every job that was submitted ends completed or failed,   *)
(* at least for a moment, with two exceptions, and no third: the process     *)
(* of its sendToQueue() died between the INSERT of the row and the publish   *)
(* or the record of its failure, or the published message never reached the  *)
(* broker.                                                                   *)
NewJobsSettle ==
    \A j \in Jobs : status[j] = "pending" /\ attempts[j] = 0
                       ~> \/ status[j] \in {"completed", "failed"}
                          \/ sender[j] \in {"dead", "dropped"}

(* And every message that the broker has ends acknowledged or dead-lettered. *)
MessagesSettle ==
    \A m \in Messages :
       m \in DOMAIN message
          ~> m \in DOMAIN message /\ message[m].at \in {"acked", "dead"}

-----------------------------------------------------------------------------
(* Properties of undisturbed operation: one retryFailedJobs() call at a time *)
(* and no fault but a refused publish                                        *)

(* The jobs table goes through the documented life of a job.                 *)
Lifecycle == INSTANCE JobLifecycle
             WITH Jobs <- Jobs, MaxAttempts <- MaxAttempts,
                  status <- status, attempts <- attempts

ImplementsLifecycle == Lifecycle!Spec

(* No job is run to success twice.                                           *)
DoneAtMostOnce ==
    \A j \in Jobs : Cardinality({m \in done : message[m].job = j}) <= 1
=============================================================================
