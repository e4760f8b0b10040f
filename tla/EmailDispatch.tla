---------------------------- MODULE EmailDispatch ----------------------------
(***************************************************************************)
(* Sending e-mail: sendEmailSmart() of helpers/queuedEmail.js, which races *)
(* the queue operation against a timeout and falls back to SMTP; the path  *)
(* of the message through email_queue; and workers/emailWorker.js.  The    *)
(* callers are login.js (one code), createNewUser (one welcome) and        *)
(* uploadNewUser (one after the other), all of them in setImmediate(),     *)
(* after the response.                                                     *)
(*                                                                         *)
(* Callers and worker share one process and its queueService, as server.js *)
(* runs them by default (RUN_WORKERS): they lose the connection together   *)
(* and die together.  Workers of their own are in JobQueue.                *)
(*                                                                         *)
(* RabbitMQ, MySQL and the SMTP server are external.  A mail is taken by   *)
(* SMTP or not, and the answer may be lost.  The channel has no publisher  *)
(* confirms: a message waits in the connection's buffer, and goes down     *)
(* with it unless the broker has taken it.                                 *)
(***************************************************************************)
EXTENDS Naturals, Sequences, FiniteSets, Functions

CONSTANTS
    Codes,      \* mails with a one-time code
    Welcomes,   \* mails to new users
    Occasions,  \* what may have to be sent: codes, welcomes of single new users
                \* and those of an upload, in its order
    MaxFaults   \* bound of the model: faults that may happen

Mails == Codes \union Welcomes

ASSUME EmailAssumption ==
    /\ Codes \intersect Welcomes = {}
    /\ Occasions \subseteq [codes : SUBSET Codes, created : SUBSET Welcomes, upload : Seq(Welcomes)]
    /\ MaxFaults \in Nat

VARIABLES
    occasion,    \* what has to be sent
    connected,   \* queueService.isConnected
    caller,      \* caller[m]: how far sendEmailSmart() is with m
    op,          \* op[m]: how far its queue operation is
    jobs,        \* jobs[m]: the status of its row in the jobs table
    at,          \* at[m]: where its message is, see Places
    consumer,    \* of email_queue: "down" before start(), "consuming", and "gone" when
                 \* it failed to start or its channel was lost
    handler,     \* handler[m]: how far consume()'s handler is with m
    inbox,       \* inbox[m]: how often m was delivered to its addressee
    faults,
    deaths,      \* history: how often the process died
    unrecorded   \* history: mails whose handler failed to write that they failed

vars == <<occasion, connected, caller, op, jobs, at, consumer, handler, inbox,
          faults, deaths, unrecorded>>

(* Nowhere yet; in the connection's write buffer; in email_queue; delivered  *)
(* to the consumer and not settled; acknowledged; dead-lettered; discarded   *)
(* with the buffer.                                                          *)
Places == {"none", "buffered", "queued", "held", "acked", "dead", "lost"}

Init ==
    /\ occasion \in Occasions
    /\ connected = FALSE
    /\ caller = [m \in Mails |-> "idle"]
    /\ op = [m \in Mails |-> "none"]
    /\ jobs = [m \in Mails |-> "none"]
    /\ at = [m \in Mails |-> "none"]
    /\ consumer = "down"
    /\ handler = [m \in Mails |-> "none"]
    /\ inbox = [m \in Mails |-> 0]
    /\ faults = 0
    /\ deaths = 0
    /\ unrecorded = {}

Over == {"success", "failed", "thrown", "dead"}

Fault ==
    /\ faults < MaxFaults
    /\ faults' = faults + 1

(* updateJobStatus(): a failed UPDATE is only logged.                        *)
updateJobStatus(m, s) ==
    \/ jobs' = [jobs EXCEPT ![m] = s] /\ UNCHANGED faults
    \/ Fault /\ UNCHANGED jobs

(* What each side of the process leaves alone.                               *)
workerVars == <<consumer, handler, unrecorded>>

callerVars == <<occasion, caller, op>>

-----------------------------------------------------------------------------
(* sendEmailSmart() *)

queueOTPEmail(m) == m \in Codes /\ op' = [op EXCEPT ![m] = "inserting"]

queueWelcomeEmail(m) == m \in Welcomes /\ op' = [op EXCEPT ![m] = "inserting"]

(* The queue is used if it seems to be there.                                *)
sendEmailSmart(m) ==
    /\ caller[m] = "idle"
    /\ IF connected
       THEN /\ caller' = [caller EXCEPT ![m] = "racing"]
            /\ queueOTPEmail(m) \/ queueWelcomeEmail(m)
       ELSE /\ caller' = [caller EXCEPT ![m] = "fallback"]
            /\ UNCHANGED op
    /\ UNCHANGED <<occasion, connected, jobs, at, workerVars, inbox, faults, deaths>>

(* login: the redirect to the code's page has been sent.                     *)
SendCode(m) == m \in occasion.codes /\ sendEmailSmart(m)

(* createNewUser: the new password has been shown.                           *)
SendWelcome(m) == m \in occasion.created /\ sendEmailSmart(m)

(* uploadNewUser: one after the other, whatever came of the one before.      *)
SendNextWelcome(i) ==
    /\ \A j \in 1..(i - 1) : caller[occasion.upload[j]] \in {"success", "failed", "thrown"}
    /\ sendEmailSmart(occasion.upload[i])

(* Promise.race(): the queue operation has settled; it returns its failure   *)
(* and throws nothing, so there is no fallback.                              *)
QueueSettles(m) ==
    /\ caller[m] = "racing"
    /\ op[m] \in {"true", "false"}
    /\ caller' = [caller EXCEPT ![m] = IF op[m] = "true" THEN "success" ELSE "failed"]
    /\ UNCHANGED <<occasion, connected, op, jobs, at, workerVars, inbox, faults, deaths>>

(* Mutant: the catch block can read queueTimeout, and falls back.            *)
TimeoutFallsBack(m) ==
    /\ caller[m] = "racing"
    /\ caller' = [caller EXCEPT ![m] = "fallback"]
    /\ UNCHANGED <<occasion, connected, op, jobs, at, workerVars, inbox, faults, deaths>>

(* Mutant: Promise.race() without the timer.                                 *)
TimeoutNever(m) == FALSE /\ UNCHANGED vars

(* EMAIL_QUEUE_TIMEOUT: the catch block reads queueTimeout, declared inside  *)
(* the try block, and throws a ReferenceError instead of falling back. The   *)
(* queue operation goes on.                                                  *)
Timeout(m) ==
    /\ caller[m] = "racing"
    /\ caller' = [caller EXCEPT ![m] = "thrown"]
    /\ UNCHANGED <<occasion, connected, op, jobs, at, workerVars, inbox, faults, deaths>>

(* sendOTPEmail() of emailOTP.js: the SMTP server takes the mail or not, and *)
(* an error becomes a result.                                                *)
SendNow(m) ==
    \/ /\ inbox' = [inbox EXCEPT ![m] = @ + 1]
       /\ caller' = [caller EXCEPT ![m] = "success"]
       /\ UNCHANGED faults
    \/ /\ Fault
       /\ \/ inbox' = [inbox EXCEPT ![m] = @ + 1]
          \/ UNCHANGED inbox
       /\ caller' = [caller EXCEPT ![m] = "failed"]

(* fallbackToSyncEmail() only knows codes.                                   *)
fallbackToSyncEmail(m) ==
    /\ caller[m] = "fallback"
    /\ \/ m \in Codes /\ SendNow(m)
       \/ /\ m \in Welcomes
          /\ caller' = [caller EXCEPT ![m] = "failed"]
          /\ UNCHANGED <<inbox, faults>>
    /\ UNCHANGED <<occasion, connected, op, jobs, at, workerVars, deaths>>

-----------------------------------------------------------------------------
(* queueOTPEmail(), queueWelcomeEmail(): sendToQueue() *)

InsertJob(m) ==
    /\ op[m] = "inserting"
    /\ \/ /\ op' = [op EXCEPT ![m] = "publishing"]
          /\ jobs' = [jobs EXCEPT ![m] = "pending"]
          /\ UNCHANGED faults
       \/ /\ Fault
          /\ op' = [op EXCEPT ![m] = "false"]
          /\ UNCHANGED jobs
    /\ UNCHANGED <<occasion, connected, caller, at, workerVars, inbox, deaths>>

(* Mutant: true is returned before the message is on the channel.            *)
PublishMailBlindly(m) ==
    /\ op[m] = "publishing"
    /\ at' = IF connected THEN [at EXCEPT ![m] = "buffered"] ELSE at
    /\ op' = [op EXCEPT ![m] = "true"]
    /\ UNCHANGED <<occasion, connected, caller, jobs, workerVars, inbox, faults, deaths>>

(* The message is in the buffer, and true is returned; or the buffer is full *)
(* and false is returned for a message it has kept; or nothing is sent, with *)
(* no connection or an OPEN circuit breaker.                                 *)
PublishMail(m) ==
    /\ op[m] = "publishing"
    /\ \/ /\ connected
          /\ at' = [at EXCEPT ![m] = "buffered"]
          /\ \/ op' = [op EXCEPT ![m] = "true"] /\ UNCHANGED faults
             \/ op' = [op EXCEPT ![m] = "recording"] /\ Fault
       \/ /\ op' = [op EXCEPT ![m] = "recording"]
          /\ IF connected THEN Fault ELSE UNCHANGED faults
          /\ UNCHANGED at
    /\ UNCHANGED <<occasion, connected, caller, jobs, workerVars, inbox, deaths>>

RecordUnpublished(m) ==
    /\ op[m] = "recording"
    /\ op' = [op EXCEPT ![m] = "false"]
    /\ updateJobStatus(m, "failed")
    /\ UNCHANGED <<occasion, connected, caller, at, workerVars, inbox, deaths>>

(* The broker has what was in the buffer.                                    *)
BrokerTakes(m) ==
    /\ at[m] = "buffered"
    /\ at' = [at EXCEPT ![m] = "queued"]
    /\ UNCHANGED <<callerVars, connected, jobs, workerVars, inbox, faults, deaths>>

-----------------------------------------------------------------------------
(* The worker: start(), the handler of consume() and processEmailJob() *)

(* Mutant: a process that was restarted does not start its workers.          *)
startOnce ==
    /\ consumer = "down" /\ deaths = 0
    /\ connected
    /\ consumer' = "consuming"
    /\ UNCHANGED <<callerVars, connected, jobs, at, handler, inbox, faults, deaths, unrecorded>>

(* WorkerManager waits for the connection, 30 s at most; the SMTP server is  *)
(* asked, then the consumer registered. An error of any of these is logged,  *)
(* and the process goes on without this worker.                              *)
start ==
    /\ consumer = "down"
    /\ \/ connected /\ consumer' = "consuming" /\ UNCHANGED faults
       \/ connected /\ consumer' = "gone" /\ Fault
       \/ ~connected /\ consumer' = "gone" /\ UNCHANGED faults
    /\ UNCHANGED <<callerVars, connected, jobs, at, handler, inbox, deaths, unrecorded>>

Step(m, s) == handler' = [handler EXCEPT ![m] = s]

(* There is no prefetch limit: the handlers of several mails run at once.    *)
Deliver(m) ==
    /\ at[m] = "queued"
    /\ consumer = "consuming"
    /\ at' = [at EXCEPT ![m] = "held"]
    /\ Step(m, "received")
    /\ UNCHANGED <<callerVars, connected, jobs, consumer, inbox, faults, deaths, unrecorded>>

RecordProcessing(m) ==
    /\ handler[m] = "received"
    /\ updateJobStatus(m, "processing")
    /\ Step(m, "sending")
    /\ UNCHANGED <<callerVars, connected, at, consumer, inbox, deaths, unrecorded>>

(* What the SMTP server answers; an error becomes a result, which            *)
(* processEmailJob() throws after logging it.                                *)
SmtpAnswers(m) ==
    /\ handler[m] = "sending"
    /\ \/ /\ inbox' = [inbox EXCEPT ![m] = @ + 1]
          /\ Step(m, "sent")
          /\ UNCHANGED faults
       \/ /\ Fault
          /\ \/ inbox' = [inbox EXCEPT ![m] = @ + 1]
             \/ UNCHANGED inbox
          /\ Step(m, "failing")
    /\ UNCHANGED <<callerVars, connected, jobs, at, consumer, deaths, unrecorded>>

sendOTPEmail(m) == m \in Codes /\ SmtpAnswers(m)

sendWelcomeEmail(m) == m \in Welcomes /\ SmtpAnswers(m)

RecordCompleted(m) ==
    /\ handler[m] = "sent"
    /\ updateJobStatus(m, "completed")
    /\ Step(m, "recorded")
    /\ UNCHANGED <<callerVars, connected, at, consumer, inbox, deaths, unrecorded>>

(* Mutant: RecordFailed without the UPDATE.                                  *)
RecordFailedSilent(m) ==
    /\ handler[m] = "failing"
    /\ Step(m, "rejecting")
    /\ UNCHANGED <<callerVars, connected, jobs, at, consumer, inbox, faults, deaths, unrecorded>>

RecordFailed(m) ==
    /\ handler[m] = "failing"
    /\ Step(m, "rejecting")
    /\ \/ /\ jobs' = [jobs EXCEPT ![m] = "failed"]
          /\ UNCHANGED <<faults, unrecorded>>
       \/ /\ Fault
          /\ unrecorded' = unrecorded \union {m}
          /\ UNCHANGED jobs
    /\ UNCHANGED <<callerVars, connected, at, consumer, inbox, deaths>>

(* What was in the connection's buffer is discarded, and what was not        *)
(* acknowledged goes back to the queue.                                      *)
AfterLoss(place) ==
    CASE place = "buffered" -> "lost"
      [] place = "held"     -> "queued"
      [] OTHER              -> place

ConnectionGoes ==
    /\ connected' = FALSE
    /\ at' = [m \in Mails |-> AfterLoss(at[m])]
    /\ consumer' = IF consumer = "consuming" THEN "gone" ELSE consumer

(* this.channel is a later one, on which the delivery is not known: the      *)
(* broker closes it, and the connection may go too.                          *)
SettledTooLate ==
    /\ connected /\ consumer = "gone"
    /\ ConnectionGoes \/ UNCHANGED <<connected, at, consumer>>

(* The process is gone: nothing of what setImmediate() began is left, and no *)
(* handler; an upload that has begun does not go on.                         *)
ProcessDies ==
    LET started == \E m \in Range(occasion.upload) : caller[m] # "idle"
    IN /\ caller' = [m \in Mails |->
                       IF \/ caller[m] \in {"racing", "fallback"}
                          \/ caller[m] = "idle" /\ started /\ m \in Range(occasion.upload)
                       THEN "dead" ELSE caller[m]]
       /\ op' = [m \in Mails |-> IF op[m] \in {"true", "false"} THEN op[m] ELSE "none"]
       /\ handler' = [m \in Mails |-> "none"]
       /\ connected' = FALSE
       /\ at' = [m \in Mails |-> AfterLoss(at[m])]
       /\ consumer' = "down"
       /\ deaths' = deaths + 1
       /\ UNCHANGED <<occasion, jobs, inbox, unrecorded>>

(* ack(): with no channel at all it throws, into the handler's catch block.  *)
AckMail(m) ==
    /\ handler[m] = "recorded"
    /\ \/ /\ consumer = "consuming"
          /\ at' = [at EXCEPT ![m] = "acked"]
          /\ Step(m, "none")
          /\ UNCHANGED <<connected, consumer>>
       \/ /\ SettledTooLate
          /\ Step(m, "none")
       \/ /\ ~connected
          /\ Step(m, "failing")
          /\ UNCHANGED <<connected, at, consumer>>
    /\ UNCHANGED <<callerVars, jobs, inbox, faults, deaths, unrecorded>>

(* nack() without requeue: the mail waits for an administrator's retry. With *)
(* no channel it throws out of the catch block of an async function, and an  *)
(* unhandled rejection ends the process.                                     *)
NackMail(m) ==
    /\ handler[m] = "rejecting"
    /\ \/ /\ consumer = "consuming"
          /\ at' = [at EXCEPT ![m] = "dead"]
          /\ Step(m, "none")
          /\ UNCHANGED <<callerVars, connected, jobs, consumer, inbox, deaths, unrecorded>>
       \/ /\ SettledTooLate
          /\ Step(m, "none")
          /\ UNCHANGED <<callerVars, jobs, inbox, deaths, unrecorded>>
       \/ ~connected /\ ProcessDies
    /\ UNCHANGED faults

-----------------------------------------------------------------------------
(* The connection and the process *)

(* connect(), of the start or of a reconnect: nobody calls consume() again.  *)
Connect ==
    /\ ~connected
    /\ connected' = TRUE
    /\ UNCHANGED <<callerVars, jobs, at, workerVars, inbox, faults, deaths>>

(* handleConnectionClose()                                                   *)
ConnectionLost ==
    /\ connected
    /\ Fault
    /\ ConnectionGoes
    /\ UNCHANGED <<callerVars, jobs, handler, inbox, deaths, unrecorded>>

ProcessKilled == Fault /\ ProcessDies

HandlerStep(m) ==
    \/ RecordProcessing(m)
    \/ sendOTPEmail(m)
    \/ sendWelcomeEmail(m)
    \/ RecordCompleted(m)
    \/ AckMail(m)
    \/ RecordFailed(m)
    \/ NackMail(m)

Next ==
    \/ \E m \in Mails :
          \/ SendCode(m)
          \/ SendWelcome(m)
          \/ QueueSettles(m)
          \/ Timeout(m)
          \/ fallbackToSyncEmail(m)
          \/ InsertJob(m)
          \/ PublishMail(m)
          \/ RecordUnpublished(m)
          \/ BrokerTakes(m)
          \/ Deliver(m)
          \/ HandlerStep(m)
    \/ \E i \in DOMAIN occasion.upload : SendNextWelcome(i)
    \/ start
    \/ Connect
    \/ ConnectionLost
    \/ ProcessKilled

Spec == Init /\ [][Next]_vars

(* The event loop goes on; SMTP calls and status updates return; the timer   *)
(* of the race fires; a buffer is flushed or lost; the broker delivers to a  *)
(* consumer; a process that dies is started again with its workers           *)
(* (docker-compose.yml:18, server.js). Nothing is assumed of the queue       *)
(* operation, which may hang in the database, nor of reconnection.           *)
Fairness ==
    /\ \A m \in Mails : /\ WF_vars(QueueSettles(m) \/ Timeout(m))
                        /\ WF_vars(fallbackToSyncEmail(m))
                        /\ WF_vars(BrokerTakes(m))
                        /\ WF_vars(Deliver(m))
                        /\ WF_vars(HandlerStep(m))
    /\ WF_vars(start)

FairSpec == Spec /\ Fairness

-----------------------------------------------------------------------------
(* Properties *)

OnItsWay(m) == at[m] \in {"buffered", "queued", "held"}

(* "E-mail sent" in the activity log means that the mail was delivered, is    *)
(* still on its way, or has failed in the jobs table where an administrator  *)
(* finds it.  There are two ways, and no third, in which it is lost from     *)
(* sight, whatever "reliable message delivery" (architecture.md:166) says:   *)
(* its message went down with the connection's buffer, or its failure could  *)
(* not be written to the jobs table and it was dead-lettered all the same.   *)
(* A job is completed, and a message acknowledged, only after the SMTP       *)
(* server has taken the mail.                                                *)
MailsLeaveATrace ==
    \A m \in Mails :
       /\ caller[m] = "success" =>
             \/ inbox[m] > 0 \/ OnItsWay(m) \/ jobs[m] = "failed"
             \/ at[m] = "lost"
             \/ at[m] = "dead" /\ m \in unrecorded
       /\ at[m] = "dead" => jobs[m] = "failed" \/ m \in unrecorded
       /\ jobs[m] = "completed" \/ at[m] = "acked" => inbox[m] > 0

(* The race never sends a mail both ways, and no lost connection does: one   *)
(* delivery, and one more for each death of the process between the SMTP     *)
(* server's answer and ack().                                                *)
MailedOnce == \A m \in Mails : inbox[m] <= 1 + deaths

(* Whatever becomes of the queue, sendEmailSmart() comes back to its caller, *)
(* so that an upload gets to its next mail.                                  *)
CallersComeBack == \A m \in Mails : caller[m] \in {"racing", "fallback"} ~> caller[m] \in Over

(* A mail that was published is delivered or fails for good, though          *)
(* processes die and are started again; unless it is lost with the buffer,   *)
(* its failure could not be written, or nobody consumes any more: the        *)
(* consumer is registered once, when the process starts, and again by        *)
(* nothing when that failed or after a reconnect.                            *)
QueuedMailsSettle ==
    \A m \in Mails :
       OnItsWay(m) ~> \/ inbox[m] > 0 \/ jobs[m] = "failed"
                      \/ at[m] = "lost" \/ m \in unrecorded
                      \/ consumer = "gone"
=============================================================================
