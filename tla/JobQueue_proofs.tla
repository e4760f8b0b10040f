--------------------------- MODULE JobQueue_proofs ---------------------------
(* Theorems about JobQueue, for any jobs, workers, concurrent retries, limits *)
(* and faults of every kind.                                                 *)
EXTENDS JobQueue, FiniteSetTheorems, SequenceTheorems, TLAPS

-----------------------------------------------------------------------------
(* What the steps do to the messages *)

(* Messages are only added, and keep their job and their tag. *)
Kept(old, new) ==
    /\ DOMAIN old \subseteq DOMAIN new
    /\ \A m \in DOMAIN old : new[m].job = old[m].job /\ new[m].tagged = old[m].tagged

MessagesOK == message \in Seq(Message) /\ Len(message) <= MaxMessages

LEMMA MessageFacts ==
  ASSUME MessagesOK
  PROVE  /\ DOMAIN message = 1..Len(message)
         /\ DOMAIN message \subseteq Messages
         /\ \A m \in DOMAIN message : message[m] \in Message
<1>1. Len(message) \in Nat /\ DOMAIN message = 1..Len(message)
  BY DEF MessagesOK
<1>2. \A m \in DOMAIN message : message[m] \in Message
  BY DEF MessagesOK
<1>3. DOMAIN message \subseteq Messages
  BY <1>1, JobQueueAssumption DEF MessagesOK, Messages
<1> QED  BY <1>1, <1>2, <1>3

(* A published message waits in the queue, behind those there were. *)
LEMMA Published ==
  ASSUME MessagesOK, NEW j \in Jobs, NEW tagged \in BOOLEAN, Publish(j, tagged)
  PROVE  /\ MessagesOK'
         /\ Kept(message, message')
         /\ \A m \in DOMAIN message : message'[m] = message[m]
         /\ \A m \in DOMAIN message' : m \notin DOMAIN message => message'[m].at = "queued"
<1> DEFINE new == [job |-> j, tagged |-> tagged, at |-> "queued"]
<1>1. new \in Message
  BY DEF Message
<1>2. message' = Append(message, new) /\ Len(message) < MaxMessages
  BY DEF Publish
<1>3. new.at = "queued"
  OBVIOUS
<1> HIDE DEF new
<1>4. /\ message' \in Seq(Message)
      /\ Len(message') = Len(message) + 1
      /\ \A m \in 1..Len(message) : message'[m] = message[m]
      /\ message'[Len(message) + 1] = new
  BY <1>1, <1>2 DEF MessagesOK
<1>5. /\ Len(message) \in Nat
      /\ DOMAIN message = 1..Len(message)
      /\ DOMAIN message' = 1..(Len(message) + 1)
  BY <1>4 DEF MessagesOK
<1>6. MessagesOK'
  BY <1>2, <1>4, <1>5, JobQueueAssumption DEF MessagesOK
<1>7. /\ \A m \in DOMAIN message : message'[m] = message[m]
      /\ \A m \in DOMAIN message' : m \notin DOMAIN message => message'[m].at = "queued"
  BY <1>3, <1>4, <1>5
<1>8. Kept(message, message')
  BY <1>5, <1>7 DEF Kept
<1> QED  BY <1>6, <1>7, <1>8

(* Moving messages about keeps them. *)
LEMMA Moved ==
  ASSUME MessagesOK,
         DOMAIN message' = DOMAIN message,
         \A m \in DOMAIN message :
            \E place \in {"queued", "acked", "dead"} \union Workers :
               message'[m] = [message[m] EXCEPT !.at = place],
         message' = [m \in DOMAIN message |-> message'[m]]
  PROVE  MessagesOK' /\ Kept(message, message')
<1>1. \A m \in DOMAIN message :
         /\ message'[m] \in Message
         /\ message'[m].job = message[m].job
         /\ message'[m].tagged = message[m].tagged
  BY MessageFacts DEF Message
<1>2. DOMAIN message = 1..Len(message) /\ Len(message) \in Nat
  BY DEF MessagesOK
<1>3. message' \in Seq(Message) /\ Len(message') = Len(message)
  BY <1>1, <1>2
<1> QED  BY <1>1, <1>3 DEF MessagesOK, Kept

LEMMA Placed ==
  ASSUME MessagesOK, NEW m, NEW place \in {"queued", "acked", "dead"} \union Workers,
         message' = [message EXCEPT ![m].at = place]
  PROVE  /\ MessagesOK'
         /\ Kept(message, message')
         /\ DOMAIN message' = DOMAIN message
         /\ \A n \in DOMAIN message : n # m => message'[n] = message[n]
         /\ m \in DOMAIN message => message'[m].at = place
<1>1. DOMAIN message' = DOMAIN message
  OBVIOUS
<1>2. \A n \in DOMAIN message : n # m => message'[n] = message[n]
  OBVIOUS
<1>3. \A n \in DOMAIN message : message[n] = [message[n] EXCEPT !.at = message[n].at]
  BY MessageFacts DEF Message
<1>4. \A n \in DOMAIN message : message[n].at \in {"queued", "acked", "dead"} \union Workers
  BY MessageFacts DEF Message
<1>5. m \in DOMAIN message => message'[m] = [message[m] EXCEPT !.at = place]
  OBVIOUS
<1>6. m \in DOMAIN message => message'[m].at = place
  BY <1>5, MessageFacts DEF Message
<1>7. message' = [n \in DOMAIN message |-> message'[n]]
  BY <1>1
<1> QED  BY <1>1, <1>2, <1>3, <1>4, <1>5, <1>6, <1>7, Moved

LEMMA Requeued ==
  ASSUME MessagesOK, NEW w \in Workers, RequeueAll(w)
  PROVE  /\ MessagesOK'
         /\ Kept(message, message')
         /\ DOMAIN message' = DOMAIN message
         /\ \A n \in DOMAIN message :
               /\ message[n].at # w => message'[n] = message[n]
               /\ message[n].at = w => message'[n].at = "queued"
<1>1. /\ DOMAIN message' = DOMAIN message
      /\ message' = [n \in DOMAIN message |-> message'[n]]
      /\ \A n \in DOMAIN message :
            message'[n] = IF message[n].at = w THEN [message[n] EXCEPT !.at = "queued"]
                                               ELSE message[n]
  BY DEF RequeueAll
<1>2. \A n \in DOMAIN message : message[n] = [message[n] EXCEPT !.at = message[n].at]
  BY MessageFacts DEF Message
<1>3. \A n \in DOMAIN message : message[n].at \in {"queued", "acked", "dead"} \union Workers
  BY MessageFacts DEF Message
<1>4. \A n \in DOMAIN message : message[n].at = w => message'[n].at = "queued"
  BY <1>1, MessageFacts DEF Message
<1>5. MessagesOK' /\ Kept(message, message')
  BY <1>1, <1>2, <1>3, Moved
<1> QED  BY <1>1, <1>4, <1>5

-----------------------------------------------------------------------------
(* Type correctness *)

(* A call of retryFailedJobs() past its UPDATE has a job in hand. *)
JobInHand ==
    \A r \in Retriers : retrier[r].step \in {"marked", "unsent", "caught"} => retrier[r].job \in Jobs

TypesInv == TypeOK /\ JobInHand

LEMMA FaultType ==
  ASSUME faults \in 0..MaxFaults, UNCHANGED faults \/ \E kind \in FaultKinds : Fault(kind)
  PROVE  faults' \in 0..MaxFaults
BY JobQueueAssumption DEF Fault

LEMMA KindsOfFault ==
  /\ "refused" \in FaultKinds /\ "backpressure" \in FaultKinds
  /\ "disconnect" \in FaultKinds /\ "workerCrash" \in FaultKinds
  /\ "senderCrash" \in FaultKinds /\ "database" \in FaultKinds
  /\ "unconfirmed" \in FaultKinds
BY DEF FaultKinds

(* Every step keeps the messages there are. *)
LEMMA MessageStep == TypesInv /\ [Next]_vars => MessagesOK' /\ Kept(message, message')
<1> SUFFICES ASSUME TypesInv, [Next]_vars  PROVE MessagesOK' /\ Kept(message, message')
  OBVIOUS
<1>1. MessagesOK
  BY DEF TypesInv, TypeOK, MessagesOK
<1>2. UNCHANGED message => MessagesOK' /\ Kept(message, message')
  BY <1>1 DEF MessagesOK, Kept
<1>3. ASSUME NEW j \in Jobs, SenderStep(j) \/ SenderCrash(j)
      PROVE  MessagesOK' /\ Kept(message, message')
  <2>1. UNCHANGED message \/ Publish(j, TRUE)
    BY <1>3 DEF SenderStep, SenderCrash, Insert, Send, RecordUnsent, PublishSucceeds, PublishIsLost, PublishFails
  <2> QED  BY <1>1, <1>2, <2>1, Published
<1>4. ASSUME NEW r \in Retriers, RetrierStep(r) \/ RetrierCrash(r)
      PROVE  MessagesOK' /\ Kept(message, message')
  <2>1. UNCHANGED message \/ (retrier[r].step = "marked" /\ Publish(retrier[r].job, FALSE))
    BY <1>4 DEF RetrierStep, RetrierContinues, RetrierCrash, SelectFailed, MarkPending,
                DataUnreadable, Resend, RevertToFailed, PublishSucceeds, PublishIsLost, PublishFails
  <2>2. retrier[r].step = "marked" => retrier[r].job \in Jobs
    BY DEF TypesInv, JobInHand
  <2> QED  BY <1>1, <1>2, <2>1, <2>2, Published
<1>5. ASSUME NEW m \in Messages, NEW w \in Workers, Deliver(m, w) \/ HandlerNext(m, w)
      PROVE  MessagesOK' /\ Kept(message, message')
  <2>1. \/ UNCHANGED message
        \/ RequeueAll(w)
        \/ \E place \in {"queued", "acked", "dead"} \union Workers :
              message' = [message EXCEPT ![m].at = place]
    BY <1>5 DEF Deliver, HandlerNext, RecordProcessing, CallbackReturns, CallbackThrows,
                RecordCompleted, Ack, RecordFailed, Nack, SettleAs, ProcessDies
  <2> QED  BY <1>1, <1>2, <2>1, Requeued, Placed
<1>6. ASSUME NEW w \in Workers, ConnectionStep(w)
      PROVE  MessagesOK' /\ Kept(message, message')
  <2>1. UNCHANGED message \/ RequeueAll(w)
    BY <1>6 DEF ConnectionStep, Disconnect, Reconnect, WorkerCrash, Restart, ProcessDies
  <2> QED  BY <1>1, <1>2, <2>1, Requeued
<1>7. CASE UNCHANGED vars
  BY <1>2, <1>7 DEF vars
<1> QED  BY <1>3, <1>4, <1>5, <1>6, <1>7 DEF Next

LEMMA TypesInit == Init => TypesInv
<1> SUFFICES ASSUME Init  PROVE TypesInv
  OBVIOUS
<1>1. message \in Seq(Message) /\ Len(message) <= MaxMessages
  BY JobQueueAssumption DEF Init
<1>2. retrier \in [Retriers -> [step : {"idle", "next", "marked", "unsent", "caught"},
                                batch : SUBSET Jobs, job : Jobs \union {NoJob}]]
  BY DEF Init, NoCall
<1>3. handler \in [Messages -> [Workers -> HandlerStep]]
  BY DEF Init, HandlerStep
<1>4. /\ status \in [Jobs -> {"absent", "pending", "processing", "completed", "failed"}]
      /\ attempts \in [Jobs -> Nat]
      /\ sender \in [Jobs -> {"idle", "inserted", "unsent", "over", "dropped", "dead"}]
      /\ channel \in [Workers -> {"consuming", "lost", "reopened", "down"}]
      /\ done \subseteq Messages /\ erred \subseteq Messages
      /\ faults \in 0..MaxFaults
  BY JobQueueAssumption DEF Init
<1>5. JobInHand
  BY DEF Init, JobInHand, NoCall
<1> QED  BY <1>1, <1>2, <1>3, <1>4, <1>5 DEF TypesInv, TypeOK

(* The columns of the table. *)
LEMMA ColumnTypes ==
  TypesInv /\ [Next]_vars =>
     /\ status' \in [Jobs -> {"absent", "pending", "processing", "completed", "failed"}]
     /\ attempts' \in [Jobs -> Nat]
<1> SUFFICES ASSUME TypesInv, [Next]_vars
             PROVE  /\ status' \in [Jobs -> {"absent", "pending", "processing", "completed", "failed"}]
                    /\ attempts' \in [Jobs -> Nat]
  OBVIOUS
<1>1. /\ status \in [Jobs -> {"absent", "pending", "processing", "completed", "failed"}]
      /\ attempts \in [Jobs -> Nat]
  BY DEF TypesInv, TypeOK
<1>2. ASSUME NEW j \in Jobs, SenderStep(j) \/ SenderCrash(j)
      PROVE  /\ UNCHANGED attempts
             /\ \/ UNCHANGED status
                \/ \E s \in {"pending", "failed"} : status' = [status EXCEPT ![j] = s]
  BY <1>2 DEF SenderStep, SenderCrash, Insert, Send, RecordUnsent, SetStatus, UpdateJobStatus, dbVars
<1>3. ASSUME NEW r \in Retriers, RetrierStep(r) \/ RetrierCrash(r)
      PROVE  \/ UNCHANGED <<status, attempts>>
             \/ /\ UNCHANGED attempts
                /\ status' = [status EXCEPT ![retrier[r].job] = "failed"]
             \/ \E j \in retrier[r].batch :
                   /\ status' = [status EXCEPT ![j] = "pending"]
                   /\ attempts' = [attempts EXCEPT ![j] = @ + 1]
  BY <1>3 DEF RetrierStep, RetrierContinues, RetrierCrash, SelectFailed, MarkPending,
              DataUnreadable, Resend, RevertToFailed, SetStatus, dbVars
<1>4. ASSUME NEW m \in Messages, NEW w \in Workers, Deliver(m, w) \/ HandlerNext(m, w)
      PROVE  /\ UNCHANGED attempts
             /\ \/ UNCHANGED status
                \/ \E s \in {"processing", "completed", "failed"} :
                      status' = [status EXCEPT ![message[m].job] = s]
  BY <1>4 DEF Deliver, HandlerNext, RecordProcessing, CallbackReturns, CallbackThrows,
              RecordCompleted, Ack, RecordFailed, Nack, HandlerUpdates, SetStatus, UpdateJobStatus, dbVars
<1>5. ASSUME NEW w \in Workers, ConnectionStep(w)
      PROVE  UNCHANGED <<status, attempts>>
  BY <1>5 DEF ConnectionStep, Disconnect, Reconnect, WorkerCrash, Restart, dbVars
<1>6. CASE UNCHANGED vars
  BY <1>1, <1>6 DEF vars
<1> QED  BY <1>1, <1>2, <1>3, <1>4, <1>5, <1>6 DEF Next

(* The calls of sendToQueue() and retryFailedJobs(). *)
Call == [step : {"idle", "next", "marked", "unsent", "caught"},
         batch : SUBSET Jobs, job : Jobs \union {NoJob}]

(* One call goes on, the others stay. *)
LEMMA CallGoesOn ==
  ASSUME TypesInv, NEW r \in Retriers, NEW c \in Call,
         c.step \in {"marked", "unsent", "caught"} => c.job \in Jobs,
         retrier' = [retrier EXCEPT ![r] = c]
  PROVE  retrier' \in [Retriers -> Call] /\ JobInHand'
<1>1. retrier \in [Retriers -> Call]
  BY DEF TypesInv, TypeOK, Call
<1>2. retrier' \in [Retriers -> Call]
  BY <1>1
<1>3. JobInHand'
  BY <1>1 DEF TypesInv, JobInHand
<1> QED  BY <1>2, <1>3

(* The calls that a dying process takes along hold nothing any more.         *)
LEMMA CallsDie ==
  ASSUME TypesInv, RequestsDie
  PROVE  /\ sender' \in [Jobs -> {"idle", "inserted", "unsent", "over", "dropped", "dead"}]
         /\ \A j \in Jobs : sender'[j] \in {sender[j], "dead"}
         /\ retrier' \in [Retriers -> Call]
         /\ JobInHand'
         /\ \A r \in Retriers : retrier'[r].batch \subseteq retrier[r].batch
<1>1. /\ sender \in [Jobs -> {"idle", "inserted", "unsent", "over", "dropped", "dead"}]
      /\ retrier \in [Retriers -> Call]
      /\ JobInHand
  BY DEF TypesInv, TypeOK, Call
<1>2. NoCall \in Call /\ NoCall.step = "idle" /\ NoCall.batch = {}
  BY DEF NoCall, Call
<1>3. PICK orphans \in SUBSET Jobs, gone \in SUBSET Retriers :
         /\ sender' = [j \in Jobs |->
                         IF j \in orphans /\ sender[j] \in {"inserted", "unsent"}
                         THEN "dead" ELSE sender[j]]
         /\ retrier' = [r \in Retriers |-> IF r \in gone THEN NoCall ELSE retrier[r]]
  BY DEF RequestsDie
<1>4. /\ \A j \in Jobs : sender'[j] \in {sender[j], "dead"}
      /\ sender' \in [Jobs -> {"idle", "inserted", "unsent", "over", "dropped", "dead"}]
  BY <1>1, <1>3
<1>5. \A r \in Retriers : retrier'[r] \in {NoCall, retrier[r]}
  BY <1>3
<1>6. retrier' \in [Retriers -> Call]
  BY <1>1, <1>2, <1>3
<1> QED  BY <1>1, <1>2, <1>4, <1>5, <1>6 DEF JobInHand

LEMMA CallTypes ==
  TypesInv /\ [Next]_vars =>
     /\ sender' \in [Jobs -> {"idle", "inserted", "unsent", "over", "dropped", "dead"}]
     /\ retrier' \in [Retriers -> Call]
     /\ JobInHand'
<1> SUFFICES ASSUME TypesInv, [Next]_vars
             PROVE  /\ sender' \in [Jobs -> {"idle", "inserted", "unsent", "over", "dropped", "dead"}]
                    /\ retrier' \in [Retriers -> Call]
                    /\ JobInHand'
  OBVIOUS
<1>1. /\ sender \in [Jobs -> {"idle", "inserted", "unsent", "over", "dropped", "dead"}]
      /\ retrier \in [Retriers -> Call]
      /\ JobInHand
  BY DEF TypesInv, TypeOK, Call
<1>2. UNCHANGED retrier => retrier' \in [Retriers -> Call] /\ JobInHand'
  BY <1>1 DEF JobInHand
<1>3. ASSUME NEW j \in Jobs, SenderStep(j) \/ SenderCrash(j)
      PROVE  /\ sender' \in [Jobs -> {"idle", "inserted", "unsent", "over", "dropped", "dead"}]
             /\ UNCHANGED retrier
  BY <1>1, <1>3 DEF SenderStep, SenderCrash, Insert, Send, RecordUnsent
<1>4. ASSUME NEW r \in Retriers, RetrierStep(r) \/ RetrierCrash(r)
      PROVE  /\ UNCHANGED sender
             /\ retrier' \in [Retriers -> Call] /\ JobInHand'
  <2>1. UNCHANGED sender
    BY <1>4 DEF RetrierStep, RetrierContinues, RetrierCrash, SelectFailed, MarkPending,
                DataUnreadable, Resend, RevertToFailed
  <2>2. retrier[r] \in Call
    BY <1>1
  <2>3. CASE SelectFailed(r)
    <3>1. PICK batch \in SUBSET Retryable :
             retrier' = [retrier EXCEPT ![r] = [step |-> "next", batch |-> batch, job |-> NoJob]]
      BY <2>3 DEF SelectFailed
    <3>2. [step |-> "next", batch |-> batch, job |-> NoJob] \in Call
      BY DEF Call, Retryable
    <3> QED  BY <2>1, <3>1, <3>2, CallGoesOn
  <2>4. CASE MarkPending(r)
    <3>1. PICK j \in retrier[r].batch, step \in {"marked", "caught"} :
             retrier' = [retrier EXCEPT ![r] = [step |-> step, job |-> j,
                                                batch |-> retrier[r].batch \ {j}]]
      BY <2>4 DEF MarkPending
    <3>2. [step |-> step, job |-> j, batch |-> retrier[r].batch \ {j}] \in Call /\ j \in Jobs
      BY <2>2 DEF Call
    <3> QED  BY <2>1, <3>1, <3>2, CallGoesOn
  <2>5. ASSUME NEW step \in {"unsent", "caught"}, retrier[r].job \in Jobs,
               retrier' = [retrier EXCEPT ![r].step = step]
        PROVE  retrier' \in [Retriers -> Call] /\ JobInHand'
    <3> DEFINE c == [retrier[r] EXCEPT !.step = step]
    <3>1. c \in Call /\ c.job \in Jobs
      BY <2>2, <2>5 DEF Call
    <3>2. retrier' = [retrier EXCEPT ![r] = c]
      BY <2>5
    <3> HIDE DEF c
    <3> QED  BY <2>1, <3>1, <3>2, CallGoesOn
  <2>6. CASE ToNextJob(r)
    <3> DEFINE c == [retrier[r] EXCEPT !.step = IF retrier[r].batch = {} THEN "idle" ELSE "next",
                                       !.job = NoJob]
    <3>1. c \in Call /\ c.step \in {"idle", "next"}
      BY <2>2 DEF Call
    <3>2. retrier' = [retrier EXCEPT ![r] = c]
      BY <1>1, <2>2, <2>6 DEF ToNextJob, Call
    <3> HIDE DEF c
    <3> QED  BY <2>1, <3>1, <3>2, CallGoesOn
  <2>7. CASE GiveUpBatch(r)
    <3>1. NoCall \in Call /\ NoCall.step = "idle"
      BY DEF Call, NoCall
    <3> QED  BY <2>1, <2>7, <3>1, CallGoesOn DEF GiveUpBatch
  <2>8. retrier[r].step \in {"marked", "unsent", "caught"} => retrier[r].job \in Jobs
    BY <1>1 DEF JobInHand
  <2>9. CASE DataUnreadable(r)
    BY <2>1, <2>5, <2>8, <2>9 DEF DataUnreadable
  <2>10. CASE Resend(r)
    BY <2>5, <2>6, <2>8, <2>10 DEF Resend
  <2>11. CASE RevertToFailed(r)
    BY <2>5, <2>6, <2>7, <2>8, <2>11 DEF RevertToFailed
  <2>12. CASE RetrierCrash(r)
    BY <2>1, <2>7, <2>12 DEF RetrierCrash
  <2> QED  BY <1>4, <2>1, <2>3, <2>4, <2>9, <2>10, <2>11, <2>12 DEF RetrierStep, RetrierContinues
<1>5. ASSUME NEW m \in Messages, NEW w \in Workers, Deliver(m, w) \/ HandlerNext(m, w)
      PROVE  UNCHANGED <<sender, retrier>> \/ RequestsDie
  BY <1>5 DEF Deliver, HandlerNext, RecordProcessing, CallbackReturns, CallbackThrows,
              RecordCompleted, Ack, RecordFailed, Nack, ProcessDies
<1>6. ASSUME NEW w \in Workers, ConnectionStep(w)
      PROVE  UNCHANGED <<sender, retrier>> \/ RequestsDie
  BY <1>6 DEF ConnectionStep, Disconnect, Reconnect, WorkerCrash, Restart, ProcessDies
<1>7. CASE UNCHANGED vars
  BY <1>1, <1>2, <1>7 DEF vars
<1> QED  BY <1>1, <1>2, <1>3, <1>4, <1>5, <1>6, <1>7, CallsDie DEF Next

(* The handlers of the workers. *)
LEMMA HandlerMoves ==
  ASSUME TypesInv, NEW m \in Messages, NEW w \in Workers, NEW s \in HandlerStep, Step(m, w, s)
  PROVE  /\ handler' \in [Messages -> [Workers -> HandlerStep]]
         /\ handler'[m][w] = s
         /\ \A n \in Messages, v \in Workers : n # m \/ v # w => handler'[n][v] = handler[n][v]
<1>1. handler \in [Messages -> [Workers -> HandlerStep]]
  BY DEF TypesInv, TypeOK
<1>2. handler' = [handler EXCEPT ![m][w] = s]
  BY DEF Step
<1> QED  BY <1>1, <1>2

LEMMA HandlersDie ==
  ASSUME TypesInv, NEW w \in Workers, ProcessDies(w)
  PROVE  /\ handler' \in [Messages -> [Workers -> HandlerStep]]
         /\ channel' \in [Workers -> {"consuming", "lost", "reopened", "down"}]
         /\ \A n \in Messages : handler'[n][w] = "none"
         /\ \A n \in Messages, v \in Workers : v # w => handler'[n][v] = handler[n][v]
         /\ channel'[w] = "down"
         /\ \A v \in Workers : v # w => channel'[v] = channel[v]
<1>1. /\ handler \in [Messages -> [Workers -> HandlerStep]]
      /\ channel \in [Workers -> {"consuming", "lost", "reopened", "down"}]
  BY DEF TypesInv, TypeOK
<1>2. "none" \in HandlerStep
  BY DEF HandlerStep
<1>3. /\ handler' = [m \in Messages |-> [handler[m] EXCEPT ![w] = "none"]]
      /\ channel' = [channel EXCEPT ![w] = "down"]
  BY DEF ProcessDies
<1> QED  BY <1>1, <1>2, <1>3

(* What the steps of one handler do to it and to its worker. *)
LEMMA HandlerEffect ==
  ASSUME NEW m \in Messages, NEW w \in Workers, Deliver(m, w) \/ HandlerNext(m, w)
  PROVE  /\ \/ /\ \E s \in HandlerStep : Step(m, w, s)
               /\ \/ UNCHANGED channel
                  \/ \E c \in {"reopened", "lost"} : channel' = [channel EXCEPT ![w] = c]
            \/ ProcessDies(w)
         /\ done' \in {done, done \union {m}}
         /\ erred' \in {erred, erred \union {m}}
<1>1. "none" \in HandlerStep /\ "received" \in HandlerStep /\ "running" \in HandlerStep
  BY DEF HandlerStep
<1>2. "returned" \in HandlerStep /\ "recorded" \in HandlerStep /\ "threw" \in HandlerStep
  BY DEF HandlerStep
<1>3. "rejecting" \in HandlerStep
  BY DEF HandlerStep
<1>4. done' \in {done, done \union {m}} /\ erred' \in {erred, erred \union {m}}
  BY DEF Deliver, HandlerNext, RecordProcessing, CallbackReturns, CallbackThrows,
         RecordCompleted, Ack, RecordFailed, Nack
<1>5. CASE Deliver(m, w)
  BY <1>1, <1>4, <1>5 DEF Deliver
<1>6. ASSUME RecordProcessing(m, w) \/ CallbackReturns(m, w) \/ CallbackThrows(m, w)
             \/ RecordCompleted(m, w) \/ RecordFailed(m, w)
      PROVE  (\E s \in HandlerStep : Step(m, w, s)) /\ UNCHANGED channel
  BY <1>1, <1>2, <1>3, <1>6 DEF RecordProcessing, CallbackReturns, CallbackThrows,
                                RecordCompleted, RecordFailed
<1>7. ASSUME NEW verdict, SettleAs(m, w, verdict)
      PROVE  /\ \E s \in HandlerStep : Step(m, w, s)
             /\ \/ UNCHANGED channel
                \/ \E c \in {"reopened", "lost"} : channel' = [channel EXCEPT ![w] = c]
  BY <1>1, <1>7 DEF SettleAs
<1>8. CASE Ack(m, w)
  BY <1>2, <1>4, <1>7, <1>8 DEF Ack
<1>9. CASE Nack(m, w)
  BY <1>4, <1>7, <1>9 DEF Nack
<1> QED  BY <1>4, <1>5, <1>6, <1>8, <1>9 DEF HandlerNext

LEMMA WorkerTypes ==
  TypesInv /\ [Next]_vars =>
     /\ channel' \in [Workers -> {"consuming", "lost", "reopened", "down"}]
     /\ handler' \in [Messages -> [Workers -> HandlerStep]]
     /\ done' \subseteq Messages
     /\ erred' \subseteq Messages
<1> SUFFICES ASSUME TypesInv, [Next]_vars
             PROVE  /\ channel' \in [Workers -> {"consuming", "lost", "reopened", "down"}]
                    /\ handler' \in [Messages -> [Workers -> HandlerStep]]
                    /\ done' \subseteq Messages
                    /\ erred' \subseteq Messages
  OBVIOUS
<1>1. /\ channel \in [Workers -> {"consuming", "lost", "reopened", "down"}]
      /\ handler \in [Messages -> [Workers -> HandlerStep]]
      /\ done \subseteq Messages /\ erred \subseteq Messages
  BY DEF TypesInv, TypeOK
<1>2. ASSUME NEW j \in Jobs, SenderStep(j) \/ SenderCrash(j)
      PROVE  UNCHANGED <<channel, handler, done, erred>>
  BY <1>2 DEF SenderStep, SenderCrash, Insert, Send, RecordUnsent, workerVars
<1>3. ASSUME NEW r \in Retriers, RetrierStep(r) \/ RetrierCrash(r)
      PROVE  UNCHANGED <<channel, handler, done, erred>>
  BY <1>3 DEF RetrierStep, RetrierContinues, RetrierCrash, SelectFailed, MarkPending,
              DataUnreadable, Resend, RevertToFailed, workerVars
<1>4. ASSUME NEW m \in Messages, NEW w \in Workers, Deliver(m, w) \/ HandlerNext(m, w)
      PROVE  /\ channel' \in [Workers -> {"consuming", "lost", "reopened", "down"}]
             /\ handler' \in [Messages -> [Workers -> HandlerStep]]
             /\ done' \subseteq Messages /\ erred' \subseteq Messages
  <2>1. done' \subseteq Messages /\ erred' \subseteq Messages
    BY <1>1, <1>4, HandlerEffect
  <2>2. CASE ProcessDies(w)
    BY <2>1, <2>2, HandlersDie
  <2>3. ASSUME NEW s \in HandlerStep, Step(m, w, s)
        PROVE  handler' \in [Messages -> [Workers -> HandlerStep]]
    BY <2>3, HandlerMoves
  <2>4. UNCHANGED channel \/ (\E c \in {"reopened", "lost"} : channel' = [channel EXCEPT ![w] = c])
           => channel' \in [Workers -> {"consuming", "lost", "reopened", "down"}]
    BY <1>1
  <2> QED  BY <1>4, <2>1, <2>2, <2>3, <2>4, HandlerEffect
<1>5. ASSUME NEW w \in Workers, ConnectionStep(w)
      PROVE  /\ channel' \in [Workers -> {"consuming", "lost", "reopened", "down"}]
             /\ handler' \in [Messages -> [Workers -> HandlerStep]]
             /\ UNCHANGED <<done, erred>>
  <2>1. CASE WorkerCrash(w)
    BY <2>1, HandlersDie DEF WorkerCrash
  <2>2. CASE Disconnect(w) \/ Reconnect(w) \/ Restart(w)
    BY <1>1, <2>2 DEF Disconnect, Reconnect, Restart
  <2> QED  BY <1>5, <2>1, <2>2 DEF ConnectionStep
<1>6. CASE UNCHANGED vars
  BY <1>1, <1>6 DEF vars
<1> QED  BY <1>1, <1>2, <1>3, <1>4, <1>5, <1>6 DEF Next

LEMMA FaultTypes == TypesInv /\ [Next]_vars => faults' \in 0..MaxFaults
<1> SUFFICES ASSUME TypesInv, [Next]_vars  PROVE faults' \in 0..MaxFaults
  OBVIOUS
<1>1. faults \in 0..MaxFaults
  BY DEF TypesInv, TypeOK
<1>2. ASSUME NEW j \in Jobs, SenderStep(j) \/ SenderCrash(j)
      PROVE  UNCHANGED faults \/ \E kind \in FaultKinds : Fault(kind)
  BY <1>2, KindsOfFault DEF SenderStep, SenderCrash, Insert, Send, RecordUnsent,
       UpdateJobStatus, PublishSucceeds, PublishIsLost, PublishFails
<1>3. ASSUME NEW r \in Retriers, RetrierStep(r) \/ RetrierCrash(r)
      PROVE  UNCHANGED faults \/ \E kind \in FaultKinds : Fault(kind)
  BY <1>3, KindsOfFault DEF RetrierStep, RetrierContinues, RetrierCrash, SelectFailed,
       MarkPending, DataUnreadable, Resend, RevertToFailed, PublishSucceeds, PublishIsLost, PublishFails
<1>4. ASSUME NEW m \in Messages, NEW w \in Workers, Deliver(m, w) \/ HandlerNext(m, w)
      PROVE  UNCHANGED faults \/ \E kind \in FaultKinds : Fault(kind)
  BY <1>4, KindsOfFault DEF Deliver, HandlerNext, RecordProcessing, CallbackReturns,
       CallbackThrows, RecordCompleted, Ack, RecordFailed, Nack, HandlerUpdates, UpdateJobStatus
<1>5. ASSUME NEW w \in Workers, ConnectionStep(w)
      PROVE  UNCHANGED faults \/ \E kind \in FaultKinds : Fault(kind)
  BY <1>5, KindsOfFault DEF ConnectionStep, Disconnect, Reconnect, WorkerCrash, Restart
<1>6. CASE UNCHANGED vars
  BY <1>1, <1>6 DEF vars
<1> QED  BY <1>1, <1>2, <1>3, <1>4, <1>5, <1>6, FaultType DEF Next

LEMMA TypesStep == TypesInv /\ [Next]_vars => TypesInv'
<1> SUFFICES ASSUME TypesInv, [Next]_vars  PROVE TypesInv'
  OBVIOUS
<1> QED  BY MessageStep, ColumnTypes, CallTypes, WorkerTypes, FaultTypes
         DEF TypesInv, TypeOK, MessagesOK, Call, Messages

(* Rows, messages, calls and handlers of helpers/queue.js keep their types,  *)
(* whatever fails and however calls and deliveries overlap.                  *)
THEOREM TypeCorrect == Spec => []TypeOK
<1>1. TypesInv => TypeOK
  BY DEF TypesInv
<1> QED  BY <1>1, TypesInit, TypesStep, PTL DEF Spec

-----------------------------------------------------------------------------
(* Deliveries and verdicts *)

(* A process that is down runs no handler, so that the consumer it registers *)
(* after its restart finds none left from before.                            *)
DownMeansIdle ==
    \A w \in Workers : channel[w] = "down" => \A m \in Messages : handler[m][w] = "none"

HandledArePublished ==
    \A m \in Messages, w \in Workers : handler[m][w] # "none" => m \in DOMAIN message

DeliveryInv == DownMeansIdle /\ HandledArePublished /\ OnlyTheHolderSettles

(* A handler gets past its callback only by the outcome of the callback: by  *)
(* a return, or, as long as its delivery can still be settled, by a throw.   *)
(* Without a channel, ack() throws as well; that handler can settle nothing. *)
OutcomesAreRemembered ==
    /\ done \subseteq DOMAIN message
    /\ \A m \in Messages, w \in Workers :
          /\ handler[m][w] \in {"returned", "recorded"} => m \in done
          /\ handler[m][w] \in {"threw", "rejecting"} /\ channel[w] = "consuming" => m \in erred

(* What requests and retries do to the messages: at most, add one. *)
Added ==
    /\ UNCHANGED <<channel, handler, done, erred>>
    /\ DOMAIN message \subseteq DOMAIN message'
    /\ \A m \in DOMAIN message : message'[m] = message[m]
    /\ \A m \in DOMAIN message' : m \notin DOMAIN message => message'[m].at = "queued"

LEMMA RequestsAdd ==
  ASSUME TypesInv,
         \/ \E j \in Jobs : SenderStep(j) \/ SenderCrash(j)
         \/ \E r \in Retriers : RetrierStep(r) \/ RetrierCrash(r)
         \/ UNCHANGED vars
  PROVE  Added
<1>1. MessagesOK
  BY DEF TypesInv, TypeOK, MessagesOK
<1>2. UNCHANGED <<channel, handler, done, erred, message>> => Added
  BY DEF Added
<1>3. ASSUME NEW j \in Jobs, NEW tagged \in BOOLEAN, Publish(j, tagged),
             UNCHANGED <<channel, handler, done, erred>>
      PROVE  Added
  BY <1>1, <1>3, Published DEF Added, Kept
<1>4. ASSUME NEW j \in Jobs, SenderStep(j) \/ SenderCrash(j)
      PROVE  Added
  <2>1. UNCHANGED <<channel, handler, done, erred>>
    BY <1>4 DEF SenderStep, SenderCrash, Insert, Send, RecordUnsent, workerVars
  <2>2. UNCHANGED message \/ Publish(j, TRUE)
    BY <1>4 DEF SenderStep, SenderCrash, Insert, Send, RecordUnsent, PublishSucceeds, PublishIsLost, PublishFails
  <2> QED  BY <1>2, <1>3, <2>1, <2>2
<1>5. ASSUME NEW r \in Retriers, RetrierStep(r) \/ RetrierCrash(r)
      PROVE  Added
  <2>1. UNCHANGED <<channel, handler, done, erred>>
    BY <1>5 DEF RetrierStep, RetrierContinues, RetrierCrash, SelectFailed, MarkPending,
                DataUnreadable, Resend, RevertToFailed, workerVars
  <2>2. UNCHANGED message \/ (retrier[r].step = "marked" /\ Publish(retrier[r].job, FALSE))
    BY <1>5 DEF RetrierStep, RetrierContinues, RetrierCrash, SelectFailed, MarkPending,
                DataUnreadable, Resend, RevertToFailed, PublishSucceeds, PublishIsLost, PublishFails
  <2>3. retrier[r].step = "marked" => retrier[r].job \in Jobs
    BY DEF TypesInv, JobInHand
  <2> QED  BY <1>2, <1>3, <2>1, <2>2, <2>3
<1>6. CASE UNCHANGED vars
  BY <1>2, <1>6 DEF vars
<1> QED  BY <1>4, <1>5, <1>6

(* Only the handler's own step, and its worker's channel, move. *)
LEMMA DeliveryStep == TypesInv /\ DeliveryInv /\ [Next]_vars => DeliveryInv'
<1> SUFFICES ASSUME TypesInv, DeliveryInv, [Next]_vars  PROVE DeliveryInv'
  OBVIOUS
<1> USE DEF DeliveryInv
<1>1. MessagesOK /\ channel \in [Workers -> {"consuming", "lost", "reopened", "down"}]
      /\ handler \in [Messages -> [Workers -> HandlerStep]]
  BY DEF TypesInv, TypeOK, MessagesOK
<1>2. DOMAIN message \subseteq DOMAIN message'
  BY MessageStep DEF Kept
<1>3. CASE Added
  BY <1>3 DEF Added, DownMeansIdle, HandledArePublished, OnlyTheHolderSettles
<1>4. ASSUME NEW m \in Messages, NEW w \in Workers, Deliver(m, w)
      PROVE  DeliveryInv'
  <2>1. /\ m \in DOMAIN message /\ message[m].at = "queued" /\ channel[w] = "consuming"
        /\ message' = [message EXCEPT ![m].at = w]
        /\ UNCHANGED channel
    BY <1>4 DEF Deliver
  <2>2. /\ \A n \in Messages, v \in Workers : n # m \/ v # w => handler'[n][v] = handler[n][v]
    BY <1>4, HandlerMoves DEF Deliver, HandlerStep
  <2>3. /\ \A n \in DOMAIN message : n # m => message'[n] = message[n]
        /\ message'[m].at = w
    BY <1>1, <2>1, Placed
  <2>4. \A v \in Workers : v # "queued"
    BY JobQueueAssumption
  <2> QED  BY <1>2, <2>1, <2>2, <2>3, <2>4 DEF DownMeansIdle, HandledArePublished, OnlyTheHolderSettles
<1>5. ASSUME NEW m \in Messages, NEW w \in Workers, handler[m][w] # "none",
             UNCHANGED <<channel, message>>, NEW s \in HandlerStep, Step(m, w, s)
      PROVE  DeliveryInv'
  <2>1. \A n \in Messages, v \in Workers : n # m \/ v # w => handler'[n][v] = handler[n][v]
    BY <1>5, HandlerMoves
  <2> QED  BY <1>5, <2>1 DEF DownMeansIdle, HandledArePublished, OnlyTheHolderSettles
<1>6. ASSUME NEW m \in Messages, NEW w \in Workers, handler[m][w] # "none",
             NEW verdict \in {"acked", "dead"}, SettleAs(m, w, verdict)
      PROVE  DeliveryInv'
  <2>1. /\ handler'[m][w] = "none"
        /\ \A n \in Messages, v \in Workers : n # m \/ v # w => handler'[n][v] = handler[n][v]
    BY <1>6, HandlerMoves DEF SettleAs, HandlerStep
  <2>2. CASE channel[w] = "consuming" /\ UNCHANGED channel /\ message' = [message EXCEPT ![m].at = verdict]
    <3>1. \A n \in DOMAIN message : n # m => message'[n] = message[n]
      BY <1>1, <2>2, Placed
    <3>2. m \in DOMAIN message /\ message[m].at = w
      BY <1>6, <2>2 DEF OnlyTheHolderSettles
    <3> QED  BY <1>2, <2>1, <2>2, <3>1, <3>2 DEF DownMeansIdle, HandledArePublished, OnlyTheHolderSettles
  <2>3. CASE /\ channel[w] = "reopened" /\ UNCHANGED message
             /\ channel' \in {[channel EXCEPT ![w] = c] : c \in {"reopened", "lost"}}
    <3>1. /\ channel'[w] \in {"reopened", "lost"}
          /\ \A v \in Workers : v # w => channel'[v] = channel[v]
      BY <1>1, <2>3
    <3> QED  BY <2>1, <2>3, <3>1 DEF DownMeansIdle, HandledArePublished, OnlyTheHolderSettles
  <2> QED  BY <1>6, <2>2, <2>3 DEF SettleAs
<1>7. ASSUME NEW w \in Workers, ProcessDies(w)
      PROVE  DeliveryInv'
  <2>1. \A n \in DOMAIN message : message[n].at # w => message'[n] = message[n]
    BY <1>1, <1>7, Requeued DEF ProcessDies
  <2> QED  BY <1>2, <1>7, <2>1, HandlersDie DEF DownMeansIdle, HandledArePublished, OnlyTheHolderSettles
<1>8. ASSUME NEW m \in Messages, NEW w \in Workers, HandlerNext(m, w)
      PROVE  DeliveryInv'
  <2>1. handler[m][w] # "none"
    BY <1>8 DEF HandlerNext, RecordProcessing, CallbackReturns, CallbackThrows, RecordCompleted,
                Ack, RecordFailed, Nack
  <2>2. \/ \E s \in HandlerStep : UNCHANGED <<channel, message>> /\ Step(m, w, s)
        \/ \E verdict \in {"acked", "dead"} : SettleAs(m, w, verdict)
        \/ ProcessDies(w)
    BY <1>8 DEF HandlerNext, RecordProcessing, CallbackReturns, CallbackThrows, RecordCompleted,
                Ack, RecordFailed, Nack, HandlerStep
  <2> QED  BY <1>5, <1>6, <1>7, <2>1, <2>2
<1>9. ASSUME NEW w \in Workers, ConnectionStep(w)
      PROVE  DeliveryInv'
  <2>1. CASE WorkerCrash(w)
    BY <1>7, <2>1 DEF WorkerCrash
  <2>2. CASE Disconnect(w)
    <3>1. \A n \in DOMAIN message : message[n].at # w => message'[n] = message[n]
      BY <1>1, <2>2, Requeued DEF Disconnect
    <3>2. /\ UNCHANGED handler /\ channel'[w] = "lost"
          /\ \A v \in Workers : v # w => channel'[v] = channel[v]
      BY <1>1, <2>2 DEF Disconnect
    <3> QED  BY <1>2, <3>1, <3>2 DEF DownMeansIdle, HandledArePublished, OnlyTheHolderSettles
  <2>3. CASE Reconnect(w)
    <3>1. /\ UNCHANGED <<handler, message>> /\ channel'[w] = "reopened"
          /\ \A v \in Workers : v # w => channel'[v] = channel[v]
      BY <1>1, <2>3 DEF Reconnect
    <3> QED  BY <3>1 DEF DownMeansIdle, HandledArePublished, OnlyTheHolderSettles
  <2>4. CASE Restart(w)
    <3>1. /\ UNCHANGED <<handler, message>> /\ channel[w] = "down" /\ channel'[w] = "consuming"
          /\ \A v \in Workers : v # w => channel'[v] = channel[v]
      BY <1>1, <2>4 DEF Restart
    <3> QED  BY <3>1 DEF DownMeansIdle, HandledArePublished, OnlyTheHolderSettles
  <2> QED  BY <1>9, <2>1, <2>2, <2>3, <2>4 DEF ConnectionStep
<1> QED  BY <1>3, <1>4, <1>8, <1>9, RequestsAdd DEF Next

LEMMA DeliveryInit == Init => DeliveryInv
BY DEF Init, DeliveryInv, DownMeansIdle, HandledArePublished, OnlyTheHolderSettles

(* A delivery is settled on this.channel of helpers/queue.js only by the     *)
(* worker that holds it: not even a handler that outlived its connection can *)
(* acknowledge what was given to another.                                    *)
THEOREM HoldersSettle == Spec => []OnlyTheHolderSettles
<1>1. DeliveryInv => OnlyTheHolderSettles
  BY DEF DeliveryInv
<1> QED  BY <1>1, TypesInit, TypesStep, DeliveryInit, DeliveryStep, PTL DEF Spec

(* Outcomes follow the handlers. *)
LEMMA OutcomesStep ==
  TypesInv /\ DeliveryInv /\ OutcomesAreRemembered /\ [Next]_vars => OutcomesAreRemembered'
<1> SUFFICES ASSUME TypesInv, DeliveryInv, OutcomesAreRemembered, [Next]_vars
             PROVE  OutcomesAreRemembered'
  OBVIOUS
<1>1. /\ channel \in [Workers -> {"consuming", "lost", "reopened", "down"}]
      /\ handler \in [Messages -> [Workers -> HandlerStep]]
  BY DEF TypesInv, TypeOK
<1>2. DOMAIN message \subseteq DOMAIN message'
  BY MessageStep DEF Kept
<1>3. CASE Added
  BY <1>2, <1>3 DEF Added, OutcomesAreRemembered
<1>4. ASSUME NEW m \in Messages, NEW w \in Workers, NEW s \in HandlerStep, Step(m, w, s),
             done \subseteq done', done' \subseteq DOMAIN message, erred \subseteq erred',
             s \in {"returned", "recorded"} => m \in done',
             s \in {"threw", "rejecting"} /\ channel'[w] = "consuming" => m \in erred',
             \A v \in Workers : channel'[v] = "consuming" => channel[v] = "consuming"
      PROVE  OutcomesAreRemembered'
  <2>1. /\ handler'[m][w] = s
        /\ \A n \in Messages, v \in Workers : n # m \/ v # w => handler'[n][v] = handler[n][v]
    BY <1>4, HandlerMoves
  <2> QED  BY <1>2, <1>4, <2>1 DEF OutcomesAreRemembered
<1>5. /\ \A s \in {"none", "received", "running", "returned", "recorded", "threw", "rejecting"} :
            s \in HandlerStep
  BY DEF HandlerStep
<1>6. done \subseteq DOMAIN message
  BY DEF OutcomesAreRemembered
<1>7. ASSUME NEW w \in Workers, ProcessDies(w), UNCHANGED <<done, erred>>
      PROVE  OutcomesAreRemembered'
  BY <1>2, <1>7, HandlersDie DEF OutcomesAreRemembered
<1>8. ASSUME NEW m \in Messages, NEW w \in Workers, NEW verdict, SettleAs(m, w, verdict),
             UNCHANGED <<done, erred>>
      PROVE  OutcomesAreRemembered'
  <2>1. \A v \in Workers : channel'[v] = "consuming" => channel[v] = "consuming"
    BY <1>1, <1>8 DEF SettleAs
  <2>2. Step(m, w, "none")
    BY <1>8 DEF SettleAs
  <2> QED  BY <1>4, <1>5, <1>6, <1>8, <2>1, <2>2
<1>9. ASSUME NEW m \in Messages, NEW w \in Workers, Deliver(m, w) \/ HandlerNext(m, w)
      PROVE  OutcomesAreRemembered'
  <2>1. CASE Deliver(m, w)
    BY <1>4, <1>5, <1>6, <2>1 DEF Deliver
  <2>2. CASE RecordProcessing(m, w)
    BY <1>4, <1>5, <1>6, <2>2 DEF RecordProcessing
  <2>3. CASE CallbackReturns(m, w)
    <3>1. m \in DOMAIN message
      BY <2>3 DEF CallbackReturns, DeliveryInv, HandledArePublished
    <3> QED  BY <1>4, <1>5, <1>6, <2>3, <3>1 DEF CallbackReturns
  <2>4. CASE CallbackThrows(m, w)
    BY <1>4, <1>5, <1>6, <2>4 DEF CallbackThrows
  <2>5. CASE RecordCompleted(m, w)
    <3>1. m \in done
      BY <2>5 DEF RecordCompleted, OutcomesAreRemembered
    <3> QED  BY <1>4, <1>5, <1>6, <2>5, <3>1 DEF RecordCompleted
  <2>6. CASE Ack(m, w)
    <3>1. UNCHANGED <<done, erred>>
      BY <2>6 DEF Ack
    <3>2. CASE channel[w] = "lost" /\ Step(m, w, "threw") /\ UNCHANGED <<message, channel>>
      BY <1>4, <1>5, <1>6, <3>1, <3>2
    <3> QED  BY <1>8, <2>6, <3>1, <3>2 DEF Ack
  <2>7. CASE RecordFailed(m, w)
    <3>1. channel[w] = "consuming" => m \in erred
      BY <2>7 DEF RecordFailed, OutcomesAreRemembered
    <3> QED  BY <1>4, <1>5, <1>6, <2>7, <3>1 DEF RecordFailed
  <2>8. CASE Nack(m, w)
    BY <1>7, <1>8, <2>8 DEF Nack
  <2> QED  BY <1>9, <2>1, <2>2, <2>3, <2>4, <2>5, <2>6, <2>7, <2>8 DEF HandlerNext
<1>10. ASSUME NEW w \in Workers, ConnectionStep(w)
       PROVE  OutcomesAreRemembered'
  <2>1. CASE WorkerCrash(w)
    BY <1>7, <2>1 DEF WorkerCrash
  <2>2. CASE Disconnect(w) \/ Reconnect(w)
    <3>1. UNCHANGED <<handler, done, erred>>
      BY <2>2 DEF Disconnect, Reconnect
    <3>2. \A v \in Workers : channel'[v] = "consuming" => channel[v] = "consuming"
      BY <1>1, <2>2 DEF Disconnect, Reconnect
    <3> QED  BY <1>2, <3>1, <3>2 DEF OutcomesAreRemembered
  <2>3. CASE Restart(w)
    <3>1. UNCHANGED <<handler, done, erred>> /\ channel[w] = "down"
      BY <2>3 DEF Restart
    <3>2. \A v \in Workers : v # w => channel'[v] = channel[v]
      BY <1>1, <2>3 DEF Restart
    <3>3. \A n \in Messages : handler[n][w] = "none"
      BY <3>1 DEF DeliveryInv, DownMeansIdle
    <3> QED  BY <1>2, <3>1, <3>2, <3>3 DEF OutcomesAreRemembered
  <2> QED  BY <1>10, <2>1, <2>2, <2>3 DEF ConnectionStep
<1> QED  BY <1>3, <1>9, <1>10, RequestsAdd DEF Next

(* A verdict is given by the handler that remembers the outcome; messages    *)
(* that are settled are not delivered again.                                 *)
LEMMA VerdictStep ==
  TypesInv /\ DeliveryInv /\ OutcomesAreRemembered /\ VerdictMatchesCallback /\ [Next]_vars
     => VerdictMatchesCallback'
<1> SUFFICES ASSUME TypesInv, DeliveryInv, OutcomesAreRemembered, VerdictMatchesCallback, [Next]_vars
             PROVE  VerdictMatchesCallback'
  OBVIOUS
<1>1. MessagesOK
  BY DEF TypesInv, TypeOK, MessagesOK
<1>2. CASE Added
  BY <1>2 DEF Added, VerdictMatchesCallback
<1>3. ASSUME UNCHANGED message, done \subseteq done', erred \subseteq erred'
      PROVE  VerdictMatchesCallback'
  BY <1>3 DEF VerdictMatchesCallback
<1>4. ASSUME NEW w \in Workers, RequeueAll(w), UNCHANGED <<done, erred>>
      PROVE  VerdictMatchesCallback'
  BY <1>1, <1>4, Requeued DEF VerdictMatchesCallback
<1>5. ASSUME NEW m, NEW place \in {"queued", "acked", "dead"} \union Workers,
             message' = [message EXCEPT ![m].at = place],
             place = "acked" => m \in done, place = "dead" => m \in erred,
             UNCHANGED <<done, erred>>
      PROVE  VerdictMatchesCallback'
  BY <1>1, <1>5, Placed DEF VerdictMatchesCallback
<1>6. ASSUME NEW m \in Messages, NEW w \in Workers, Deliver(m, w) \/ HandlerNext(m, w)
      PROVE  VerdictMatchesCallback'
  <2>1. CASE Deliver(m, w)
    <3>1. w # "acked" /\ w # "dead"
      BY JobQueueAssumption
    <3> QED  BY <1>5, <2>1, <3>1 DEF Deliver
  <2>2. CASE RecordProcessing(m, w) \/ CallbackReturns(m, w) \/ CallbackThrows(m, w)
             \/ RecordCompleted(m, w) \/ RecordFailed(m, w)
    BY <1>3, <2>2 DEF RecordProcessing, CallbackReturns, CallbackThrows, RecordCompleted, RecordFailed
  <2>3. CASE Ack(m, w)
    <3>1. m \in done /\ UNCHANGED <<done, erred>>
      BY <2>3 DEF Ack, OutcomesAreRemembered
    <3>2. UNCHANGED message \/ message' = [message EXCEPT ![m].at = "acked"]
      BY <2>3 DEF Ack, SettleAs
    <3> QED  BY <1>3, <1>5, <3>1, <3>2
  <2>4. CASE Nack(m, w)
    <3>1. UNCHANGED <<done, erred>>
      BY <2>4 DEF Nack
    <3>2. channel[w] = "consuming" => m \in erred
      BY <2>4 DEF Nack, OutcomesAreRemembered
    <3>3. \/ UNCHANGED message
          \/ channel[w] = "consuming" /\ message' = [message EXCEPT ![m].at = "dead"]
          \/ RequeueAll(w)
      BY <2>4 DEF Nack, SettleAs, ProcessDies
    <3> QED  BY <1>3, <1>4, <1>5, <3>1, <3>2, <3>3
  <2> QED  BY <1>6, <2>1, <2>2, <2>3, <2>4 DEF HandlerNext
<1>7. ASSUME NEW w \in Workers, ConnectionStep(w)
      PROVE  VerdictMatchesCallback'
  <2>1. UNCHANGED <<done, erred>> /\ (UNCHANGED message \/ RequeueAll(w))
    BY <1>7 DEF ConnectionStep, Disconnect, Reconnect, WorkerCrash, Restart, ProcessDies
  <2> QED  BY <1>3, <1>4, <2>1
<1> QED  BY <1>2, <1>6, <1>7, RequestsAdd DEF Next

LEMMA OutcomesInit == Init => OutcomesAreRemembered /\ VerdictMatchesCallback
BY DEF Init, OutcomesAreRemembered, VerdictMatchesCallback

(* consume() of helpers/queue.js acknowledges last and rejects only what     *)
(* threw: no job leaves the queue without having been run, whatever crashes. *)
THEOREM VerdictsMatch == Spec => []VerdictMatchesCallback
BY TypesInit, TypesStep, DeliveryInit, DeliveryStep, OutcomesInit, OutcomesStep, VerdictStep, PTL
   DEF Spec

-----------------------------------------------------------------------------
(* Jobs shown as completed *)

(* A row becomes completed by the handler of a tagged message of its own     *)
(* whose callback has returned, and by nothing else.                         *)
LEMMA BecomesCompleted ==
  ASSUME TypesInv, DeliveryInv, OutcomesAreRemembered, [Next]_vars,
         NEW j \in Jobs, status[j] # "completed", status'[j] = "completed"
  PROVE  \E m \in done : m \in DOMAIN message /\ message[m].job = j /\ message[m].tagged
<1>1. status \in [Jobs -> {"absent", "pending", "processing", "completed", "failed"}]
  BY DEF TypesInv, TypeOK
<1>2. ASSUME NEW k, NEW s, SetStatus(k, s)  PROVE k = j /\ s = "completed"
  BY <1>1, <1>2 DEF SetStatus
<1>3. status' # status
  OBVIOUS
<1>4. ASSUME NEW k \in Jobs, SenderStep(k) \/ SenderCrash(k)
      PROVE  FALSE
  <2>1. UNCHANGED status \/ SetStatus(k, "pending") \/ SetStatus(k, "failed")
    BY <1>4 DEF SenderStep, SenderCrash, Insert, Send, RecordUnsent, UpdateJobStatus, dbVars
  <2> QED  BY <1>2, <1>3, <2>1
<1>5. ASSUME NEW r \in Retriers, RetrierStep(r) \/ RetrierCrash(r)
      PROVE  FALSE
  <2>1. UNCHANGED status \/ \E k : SetStatus(k, "pending") \/ SetStatus(k, "failed")
    BY <1>5 DEF RetrierStep, RetrierContinues, RetrierCrash, SelectFailed, MarkPending,
                DataUnreadable, Resend, RevertToFailed, dbVars
  <2> QED  BY <1>2, <1>3, <2>1
<1>6. ASSUME NEW w \in Workers, ConnectionStep(w)
      PROVE  FALSE
  BY <1>3, <1>6 DEF ConnectionStep, Disconnect, Reconnect, WorkerCrash, Restart, dbVars
<1>7. ASSUME NEW m \in Messages, NEW w \in Workers, Deliver(m, w) \/ HandlerNext(m, w)
      PROVE  m \in done /\ m \in DOMAIN message /\ message[m].job = j /\ message[m].tagged
  <2>1. CASE Deliver(m, w) \/ CallbackReturns(m, w) \/ CallbackThrows(m, w) \/ Ack(m, w) \/ Nack(m, w)
    BY <1>3, <2>1 DEF Deliver, CallbackReturns, CallbackThrows, Ack, Nack, dbVars
  <2>2. ASSUME NEW s, HandlerUpdates(m, s)
        PROVE  message[m].tagged /\ SetStatus(message[m].job, s)
    BY <1>3, <2>2 DEF HandlerUpdates, UpdateJobStatus
  <2>3. CASE RecordProcessing(m, w) \/ RecordFailed(m, w)
    BY <1>2, <2>2, <2>3 DEF RecordProcessing, RecordFailed
  <2>4. CASE RecordCompleted(m, w)
    <3>1. message[m].tagged /\ message[m].job = j
      BY <1>2, <2>2, <2>4 DEF RecordCompleted
    <3>2. m \in done /\ done \subseteq DOMAIN message
      BY <2>4 DEF RecordCompleted, OutcomesAreRemembered
    <3> QED  BY <3>1, <3>2
  <2> QED  BY <1>7, <2>1, <2>3, <2>4 DEF HandlerNext
<1> QED  BY <1>3, <1>4, <1>5, <1>6, <1>7 DEF Next, vars

LEMMA DoneGrows == TypesInv /\ [Next]_vars => done \subseteq done'
<1> SUFFICES ASSUME TypesInv, [Next]_vars  PROVE done \subseteq done'
  OBVIOUS
<1>1. Added => done' = done
  BY DEF Added
<1>2. ASSUME NEW w \in Workers, ConnectionStep(w)  PROVE done' = done
  BY <1>2 DEF ConnectionStep, Disconnect, Reconnect, WorkerCrash, Restart
<1>3. ASSUME NEW m \in Messages, NEW w \in Workers, Deliver(m, w) \/ HandlerNext(m, w)
      PROVE  done' \in {done, done \union {m}}
  BY <1>3, HandlerEffect
<1> QED  BY <1>1, <1>2, <1>3, RequestsAdd DEF Next

LEMMA CompletedStep ==
  TypesInv /\ DeliveryInv /\ OutcomesAreRemembered /\ CompletedMeansDone /\ [Next]_vars
     => CompletedMeansDone'
<1> SUFFICES ASSUME TypesInv, DeliveryInv, OutcomesAreRemembered, CompletedMeansDone, [Next]_vars,
                    NEW j \in Jobs, status'[j] = "completed"
             PROVE  \E m \in done' : message'[m].job = j /\ message'[m].tagged
  BY DEF CompletedMeansDone
<1>1. done \subseteq DOMAIN message
  BY DEF OutcomesAreRemembered
<1>2. PICK m \in done : message[m].job = j /\ message[m].tagged
  BY BecomesCompleted DEF CompletedMeansDone
<1>3. m \in done'
  BY DoneGrows
<1>4. message'[m].job = j /\ message'[m].tagged
  BY <1>1, <1>2, MessageStep DEF Kept
<1> QED  BY <1>3, <1>4

(* A job that the admin pages show as completed has been run to its end by a *)
(* message that carries its id, through crashes, requeues and retries.       *)
THEOREM CompletedWereDone == Spec => []CompletedMeansDone
<1>1. Init => CompletedMeansDone
  BY DEF Init, CompletedMeansDone
<1> QED  BY <1>1, TypesInit, TypesStep, DeliveryInit, DeliveryStep, OutcomesInit, OutcomesStep,
            CompletedStep, PTL DEF Spec

-----------------------------------------------------------------------------
(* The limit of attempts *)

(* The calls that have selected job j and not yet counted an attempt of it. *)
Holding(j, calls) == {r \in Retriers : j \in calls[r].batch}

(* A call that holds a job may still add an attempt, however many others     *)
(* have since it was selected: what has been counted and what may still be   *)
(* counted stay together below the limit.                                    *)
AttemptsInv ==
    \A j \in Jobs :
       attempts[j] + Cardinality(Holding(j, retrier)) <= MaxAttempts - 1 + Cardinality(Retriers)

LEMMA HoldingBounded ==
  ASSUME NEW j, NEW calls
  PROVE  /\ IsFiniteSet(Holding(j, calls))
         /\ Cardinality(Holding(j, calls)) \in Nat
         /\ Cardinality(Retriers) \in Nat
         /\ Cardinality(Holding(j, calls)) <= Cardinality(Retriers)
<1>1. IsFiniteSet(Retriers) /\ Holding(j, calls) \in SUBSET Retriers
  BY JobQueueAssumption DEF Holding
<1> QED  BY <1>1, FS_Subset, FS_CardinalityType

(* A call that lets go of jobs leaves no more calls holding them. *)
LEMMA FewerHold ==
  ASSUME NEW j, NEW calls, NEW others, Holding(j, others) \subseteq Holding(j, calls)
  PROVE  Cardinality(Holding(j, others)) <= Cardinality(Holding(j, calls))
<1>1. IsFiniteSet(Holding(j, calls)) /\ Holding(j, others) \in SUBSET Holding(j, calls)
  BY HoldingBounded
<1> QED  BY <1>1, FS_Subset

(* What calls of retryFailedJobs() do to their batches. *)
LEMMA LetsGo ==
  ASSUME TypesInv, NEW r \in Retriers, NEW batch \in SUBSET retrier[r].batch, NEW step, NEW job,
         retrier' = [retrier EXCEPT ![r] = [step |-> step, batch |-> batch, job |-> job]]
  PROVE  \A j \in Jobs : Holding(j, retrier') \subseteq Holding(j, retrier)
<1>1. retrier \in [Retriers -> Call]
  BY DEF TypesInv, TypeOK, Call
<1>2. retrier'[r].batch = batch /\ \A q \in Retriers : q # r => retrier'[q] = retrier[q]
  BY <1>1
<1> QED  BY <1>2 DEF Holding

LEMMA FewerHoldAfterDeath ==
  ASSUME TypesInv, RequestsDie
  PROVE  \A j \in Jobs : Holding(j, retrier') \subseteq Holding(j, retrier)
BY CallsDie DEF Holding

LEMMA AttemptsStep == TypesInv /\ AttemptsInv /\ [Next]_vars => AttemptsInv'
<1> SUFFICES ASSUME TypesInv, AttemptsInv, [Next]_vars  PROVE AttemptsInv'
  OBVIOUS
<1>1. /\ attempts \in [Jobs -> Nat]
      /\ retrier \in [Retriers -> Call]
      /\ MaxAttempts \in Nat
  BY JobQueueAssumption DEF TypesInv, TypeOK, Call
<1>2. ASSUME UNCHANGED attempts, \A j \in Jobs : Holding(j, retrier') \subseteq Holding(j, retrier)
      PROVE  AttemptsInv'
  <2>1. \A j \in Jobs :
           /\ Cardinality(Holding(j, retrier')) <= Cardinality(Holding(j, retrier))
           /\ Cardinality(Holding(j, retrier')) \in Nat
           /\ Cardinality(Holding(j, retrier)) \in Nat
           /\ Cardinality(Retriers) \in Nat
    BY <1>2, FewerHold, HoldingBounded
  <2> QED  BY <1>1, <1>2, <2>1 DEF AttemptsInv
<1>3. ASSUME UNCHANGED <<attempts, retrier>>
      PROVE  AttemptsInv'
  BY <1>2, <1>3
<1>4. ASSUME NEW r \in Retriers, SelectFailed(r)
      PROVE  AttemptsInv'
  <2>1. PICK batch \in SUBSET Retryable :
           retrier' = [retrier EXCEPT ![r] = [step |-> "next", batch |-> batch, job |-> NoJob]]
    BY <1>4 DEF SelectFailed
  <2>2. UNCHANGED attempts
    BY <1>4 DEF SelectFailed, dbVars
  <2>3. retrier'[r].batch = batch /\ \A q \in Retriers : q # r => retrier'[q] = retrier[q]
    BY <1>1, <2>1
  <2>4. SUFFICES ASSUME NEW j \in Jobs
                 PROVE  attempts[j] + Cardinality(Holding(j, retrier'))
                           <= MaxAttempts - 1 + Cardinality(Retriers)
    BY <2>2 DEF AttemptsInv
  <2>5. /\ attempts[j] \in Nat
        /\ Cardinality(Holding(j, retrier')) \in Nat
        /\ Cardinality(Holding(j, retrier)) \in Nat
        /\ Cardinality(Retriers) \in Nat
        /\ Cardinality(Holding(j, retrier')) <= Cardinality(Retriers)
    BY <1>1, HoldingBounded
  <2>6. CASE j \in batch
    <3>1. attempts[j] < MaxAttempts
      BY <2>6 DEF Retryable
    <3> QED  BY <1>1, <2>5, <3>1
  <2>7. CASE j \notin batch
    <3>1. Holding(j, retrier') \subseteq Holding(j, retrier)
      BY <2>3, <2>7 DEF Holding
    <3>2. Cardinality(Holding(j, retrier')) <= Cardinality(Holding(j, retrier))
      BY <3>1, FewerHold
    <3>3. attempts[j] + Cardinality(Holding(j, retrier)) <= MaxAttempts - 1 + Cardinality(Retriers)
      BY DEF AttemptsInv
    <3> QED  BY <1>1, <2>5, <3>2, <3>3
  <2> QED  BY <2>6, <2>7
<1>5. ASSUME NEW r \in Retriers, MarkPending(r)
      PROVE  AttemptsInv'
  <2>1. PICK k \in retrier[r].batch, step \in {"marked", "caught"} :
           /\ retrier' = [retrier EXCEPT ![r] = [step |-> step, job |-> k,
                                                 batch |-> retrier[r].batch \ {k}]]
           /\ attempts' = attempts \/ attempts' = [attempts EXCEPT ![k] = @ + 1]
    BY <1>5 DEF MarkPending, dbVars
  <2>2. /\ retrier'[r].batch = retrier[r].batch \ {k}
        /\ \A q \in Retriers : q # r => retrier'[q] = retrier[q]
        /\ retrier[r].batch \subseteq Jobs
    BY <1>1, <2>1 DEF Call
  <2>3. \A j \in Jobs : Holding(j, retrier') \subseteq Holding(j, retrier)
    BY <2>2 DEF Holding
  <2>4. CASE attempts' = attempts
    BY <1>2, <2>3, <2>4
  <2>5. CASE attempts' = [attempts EXCEPT ![k] = @ + 1]
    <3>1. SUFFICES ASSUME NEW j \in Jobs
                   PROVE  attempts'[j] + Cardinality(Holding(j, retrier'))
                             <= MaxAttempts - 1 + Cardinality(Retriers)
      BY DEF AttemptsInv
    <3>2. /\ attempts[j] \in Nat
          /\ Cardinality(Holding(j, retrier')) \in Nat
          /\ Cardinality(Holding(j, retrier)) \in Nat
          /\ Cardinality(Retriers) \in Nat
          /\ Cardinality(Holding(j, retrier')) <= Cardinality(Holding(j, retrier))
      BY <1>1, <2>3, HoldingBounded, FewerHold
    <3>3. attempts[j] + Cardinality(Holding(j, retrier)) <= MaxAttempts - 1 + Cardinality(Retriers)
      BY DEF AttemptsInv
    <3>4. CASE j # k
      <4>1. attempts'[j] = attempts[j]
        BY <1>1, <2>5, <3>4
      <4> QED  BY <1>1, <3>2, <3>3, <4>1
    <3>5. CASE j = k
      <4>1. Holding(j, retrier') = Holding(j, retrier) \ {r} /\ r \in Holding(j, retrier)
        BY <2>2, <3>5 DEF Holding
      <4>2. Cardinality(Holding(j, retrier')) = Cardinality(Holding(j, retrier)) - 1
        BY <4>1, HoldingBounded, FS_RemoveElement
      <4>3. attempts'[j] = attempts[j] + 1
        BY <1>1, <2>5, <3>5
      <4> QED  BY <1>1, <3>2, <3>3, <4>2, <4>3
    <3> QED  BY <3>4, <3>5
  <2> QED  BY <2>1, <2>4, <2>5
<1>6. ASSUME NEW r \in Retriers, DataUnreadable(r) \/ Resend(r) \/ RevertToFailed(r) \/ RetrierCrash(r)
      PROVE  AttemptsInv'
  <2>1. UNCHANGED attempts
    BY <1>6 DEF DataUnreadable, Resend, RevertToFailed, RetrierCrash, dbVars
  <2>2. \/ \E step : retrier' = [retrier EXCEPT ![r].step = step]
        \/ ToNextJob(r)
        \/ GiveUpBatch(r)
    BY <1>6 DEF DataUnreadable, Resend, RevertToFailed, RetrierCrash
  <2>3. CASE GiveUpBatch(r)
    <3>1. {} \in SUBSET retrier[r].batch
      OBVIOUS
    <3> QED  BY <1>2, <2>1, <2>3, <3>1, LetsGo DEF GiveUpBatch, NoCall
  <2>4. CASE ToNextJob(r) \/ \E step : retrier' = [retrier EXCEPT ![r].step = step]
    <3>1. retrier'[r].batch = retrier[r].batch /\ \A q \in Retriers : q # r => retrier'[q] = retrier[q]
      BY <1>1, <2>4 DEF ToNextJob, Call
    <3>2. \A j \in Jobs : Holding(j, retrier') \subseteq Holding(j, retrier)
      BY <3>1 DEF Holding
    <3> QED  BY <1>2, <2>1, <3>2
  <2> QED  BY <2>2, <2>3, <2>4
<1>7. ASSUME NEW j \in Jobs, SenderStep(j) \/ SenderCrash(j)
      PROVE  UNCHANGED <<attempts, retrier>>
  BY <1>7 DEF SenderStep, SenderCrash, Insert, Send, RecordUnsent, dbVars
<1>8. ASSUME NEW m \in Messages, NEW w \in Workers, Deliver(m, w) \/ HandlerNext(m, w)
      PROVE  UNCHANGED attempts /\ (UNCHANGED retrier \/ RequestsDie)
  BY <1>8 DEF Deliver, HandlerNext, RecordProcessing, CallbackReturns, CallbackThrows,
              RecordCompleted, Ack, RecordFailed, Nack, ProcessDies, dbVars
<1>9. ASSUME NEW w \in Workers, ConnectionStep(w)
      PROVE  UNCHANGED attempts /\ (UNCHANGED retrier \/ RequestsDie)
  BY <1>9 DEF ConnectionStep, Disconnect, Reconnect, WorkerCrash, Restart, ProcessDies, dbVars
<1>10. CASE UNCHANGED vars
  BY <1>3, <1>10 DEF vars
<1>11. ASSUME UNCHANGED attempts, RequestsDie
       PROVE  AttemptsInv'
  BY <1>2, <1>11, FewerHoldAfterDeath
<1> QED  BY <1>3, <1>11, <1>4, <1>5, <1>6, <1>7, <1>8, <1>9, <1>10 DEF Next, RetrierStep, RetrierContinues

LEMMA AttemptsInit == Init => AttemptsInv
<1> SUFFICES ASSUME Init, NEW j \in Jobs
             PROVE  attempts[j] + Cardinality(Holding(j, retrier)) <= MaxAttempts - 1 + Cardinality(Retriers)
  BY DEF AttemptsInv
<1>1. attempts[j] = 0
  BY DEF Init
<1> QED  BY <1>1, HoldingBounded, JobQueueAssumption

(* Concurrent calls of retryFailedJobs() exceed max_attempts by no more than *)
(* one each, although none of them looks at attempts again before its UPDATE.*)
THEOREM AttemptsAreBounded == Spec => []AttemptsBounded
<1>1. ASSUME TypesInv, AttemptsInv, NEW j \in Jobs
      PROVE  attempts[j] + 1 <= MaxAttempts + Cardinality(Retriers)
  <2>1. attempts[j] \in Nat /\ MaxAttempts \in Nat
    BY <1>1, JobQueueAssumption DEF TypesInv, TypeOK
  <2> QED  BY <1>1, <2>1, HoldingBounded DEF AttemptsInv
<1>2. TypesInv /\ AttemptsInv => AttemptsBounded
  BY <1>1 DEF AttemptsBounded
<1> QED  BY <1>2, TypesInit, TypesStep, AttemptsInit, AttemptsStep, PTL DEF Spec

-----------------------------------------------------------------------------
(* Undisturbed operation *)

(* One call of retryFailedJobs() at a time, and no fault but a refused       *)
(* publish.                                                                  *)
Undisturbed == Faults \subseteq {"refused"} /\ \A r, s \in Retriers : r = s

(* How far a message has come: in the queue, in a handler, or settled.       *)
Stage(m) == IF message[m].at \in Workers THEN handler[m][message[m].at] ELSE message[m].at

Sent(j, tagged) == {m \in DOMAIN message : message[m].job = j /\ message[m].tagged = tagged}

(* The statuses of a job whose message with a jobId has come to stage s: it  *)
(* may be retried from the moment its failure is recorded.                   *)
Shown(s) ==
    CASE s \in {"queued", "received"}             -> {"pending"}
      [] s \in {"running", "returned", "threw"}   -> {"processing"}
      [] s \in {"recorded", "acked"}              -> {"completed"}
      [] s \in {"rejecting", "dead"}              -> {"failed", "pending"}

(* Nobody but a retry will change the row again.                             *)
AtRest(j) ==
    /\ sender[j] = "over"
    /\ Sent(j, FALSE) = {}
    /\ \A m \in Sent(j, TRUE) : Stage(m) \in {"rejecting", "dead"}

SenderOf(j) ==
    /\ sender[j] \in {"idle", "inserted", "unsent", "over"}
    /\ sender[j] = "idle" => status[j] = "absent"
    /\ sender[j] \in {"inserted", "unsent"} => status[j] = "pending"
    /\ sender[j] # "over" => \A tagged \in BOOLEAN : Sent(j, tagged) = {}

(* A job is sent once with its id, and at most once more without: that       *)
(* message leaves the row as the retry has made it.                          *)
MessagesOf(j) ==
    /\ \A tagged \in BOOLEAN : \A m, n \in Sent(j, tagged) : m = n
    /\ \A m \in Sent(j, TRUE) : status[j] \in Shown(Stage(m))
    /\ Sent(j, FALSE) # {} =>
          /\ status[j] = "pending"
          /\ \A m \in Sent(j, TRUE) : Stage(m) \in {"rejecting", "dead"}

RetriesOf(j) ==
    /\ status[j] = "failed" => AtRest(j)
    /\ \A r \in Retriers :
          /\ j \in retrier[r].batch => status[j] = "failed" /\ attempts[j] < MaxAttempts
          /\ retrier[r].step \in {"marked", "unsent", "caught"} /\ retrier[r].job = j =>
                status[j] = "pending" /\ AtRest(j)

JobOf(j) == SenderOf(j) /\ MessagesOf(j) /\ RetriesOf(j)

(* No connection is lost, and a message with a worker has its handler.       *)
WorkersInv ==
    /\ \A w \in Workers : channel[w] = "consuming"
    /\ \A m \in DOMAIN message, w \in Workers : message[m].at = w => handler[m][w] # "none"

DoneInv ==
    \A m \in done : m \in DOMAIN message /\ Stage(m) \in {"returned", "recorded", "acked"}

QuietInv == TypesInv /\ DeliveryInv /\ WorkersInv /\ DoneInv /\ \A j \in Jobs : JobOf(j)

LEMMA QuietFaults ==
  ASSUME Undisturbed, NEW kind, Fault(kind)
  PROVE  kind = "refused"
BY DEF Undisturbed, Fault

(* What is said of a job stays true when nothing of the job changes.         *)
LEMMA OtherJobs ==
  ASSUME NEW j \in Jobs, JobOf(j),
         Sent(j, TRUE)' = Sent(j, TRUE), Sent(j, FALSE)' = Sent(j, FALSE),
         \A m \in Sent(j, TRUE) : Stage(m)' = Stage(m),
         status'[j] = status[j], sender'[j] = sender[j], attempts'[j] = attempts[j],
         \A r \in Retriers :
            /\ j \in retrier'[r].batch =>
                  j \in retrier[r].batch \/ (status[j] = "failed" /\ attempts[j] < MaxAttempts)
            /\ retrier'[r].step \in {"marked", "unsent", "caught"} /\ retrier'[r].job = j =>
                  retrier[r].step \in {"marked", "unsent", "caught"} /\ retrier[r].job = j
  PROVE  JobOf(j)'
<1>1. SenderOf(j)'
  <2>1. \A tagged \in BOOLEAN : Sent(j, tagged)' = Sent(j, tagged)
    OBVIOUS
  <2> QED  BY <2>1 DEF JobOf, SenderOf
<1>2. MessagesOf(j)'
  <2>1. \A tagged \in BOOLEAN : \A m, n \in Sent(j, tagged)' : m = n
    BY DEF JobOf, MessagesOf
  <2>2. \A m \in Sent(j, TRUE)' : status'[j] \in Shown(Stage(m)')
    BY DEF JobOf, MessagesOf
  <2>3. Sent(j, FALSE)' # {} =>
           /\ status'[j] = "pending"
           /\ \A m \in Sent(j, TRUE)' : Stage(m)' \in {"rejecting", "dead"}
    BY DEF JobOf, MessagesOf
  <2> QED  BY <2>1, <2>2, <2>3 DEF MessagesOf
<1>3. AtRest(j) => AtRest(j)'
  BY DEF AtRest
<1>4. RetriesOf(j)'
  BY <1>3 DEF JobOf, RetriesOf
<1> QED  BY <1>1, <1>2, <1>4 DEF JobOf

(* A message that is published has not come far; the others stay.            *)
LEMMA NewInQueue ==
  ASSUME QuietInv, NEW j \in Jobs, NEW tagged \in BOOLEAN, Publish(j, tagged),
         handler' = handler
  PROVE  /\ \E new :
               /\ Sent(j, tagged)' = Sent(j, tagged) \union {new}
               /\ Stage(new)' = "queued"
               /\ new \notin DOMAIN message
         /\ Sent(j, ~tagged)' = Sent(j, ~tagged)
         /\ \A k \in Jobs, t \in BOOLEAN : k # j => Sent(k, t)' = Sent(k, t)
         /\ \A m \in DOMAIN message : m \in DOMAIN message' /\ Stage(m)' = Stage(m)
         /\ WorkersInv => \A m \in DOMAIN message', w \in Workers :
                             message'[m].at = w => handler'[m][w] # "none"
<1>1. PICK row : row = [job |-> j, tagged |-> tagged, at |-> "queued"]
  OBVIOUS
<1>2. PICK new : new = Len(message) + 1
  OBVIOUS
<1>3. MessagesOK /\ row.job = j /\ row.tagged = tagged /\ row.at = "queued"
  BY <1>1 DEF QuietInv, TypesInv, TypeOK, MessagesOK
<1>4. /\ DOMAIN message = 1..Len(message) /\ Len(message) \in Nat
      /\ DOMAIN message' = 1..(Len(message) + 1)
      /\ message'[new] = row
      /\ \A m \in DOMAIN message : message'[m] = message[m]
  BY <1>1, <1>2, <1>3 DEF Publish, MessagesOK
<1>5. new \notin DOMAIN message /\ DOMAIN message' = DOMAIN message \union {new}
  BY <1>2, <1>4
<1>6. \A w \in Workers : w # "queued"
  BY JobQueueAssumption
<1>7. Stage(new)' = "queued"
  BY <1>3, <1>4, <1>6 DEF Stage
<1>8. \A m \in DOMAIN message : m \in DOMAIN message' /\ Stage(m)' = Stage(m)
  BY <1>4, <1>5 DEF Stage
<1>9. \A k, t : Sent(k, t)' = IF k = j /\ t = tagged THEN Sent(k, t) \union {new} ELSE Sent(k, t)
  BY <1>3, <1>4, <1>5 DEF Sent
<1>10. WorkersInv => \A m \in DOMAIN message', w \in Workers :
                        message'[m].at = w => handler'[m][w] # "none"
  BY <1>3, <1>4, <1>5, <1>6 DEF WorkersInv
<1> QED  BY <1>5, <1>7, <1>8, <1>9, <1>10

(* What a handler of undisturbed operation does to its message and its job. *)
Goes(m, from, to) == Stage(m) = from /\ Stage(m)' = to

Writes(m, s) ==
    status' = IF message[m].tagged THEN [status EXCEPT ![message[m].job] = s] ELSE status

HandlerGoes(m) ==
    \/ Goes(m, "queued", "received")    /\ UNCHANGED <<status, done>>
    \/ Goes(m, "received", "running")   /\ Writes(m, "processing") /\ UNCHANGED done
    \/ Goes(m, "running", "returned")   /\ UNCHANGED status /\ done' = done \union {m}
    \/ Goes(m, "running", "threw")      /\ UNCHANGED <<status, done>>
    \/ Goes(m, "returned", "recorded")  /\ Writes(m, "completed") /\ UNCHANGED done
    \/ Goes(m, "recorded", "acked")     /\ UNCHANGED <<status, done>>
    \/ Goes(m, "threw", "rejecting")    /\ Writes(m, "failed") /\ UNCHANGED done
    \/ Goes(m, "rejecting", "dead")     /\ UNCHANGED <<status, done>>

Alone(m) ==
    /\ \A k \in Jobs, t \in BOOLEAN : Sent(k, t)' = Sent(k, t)
    /\ \A n \in DOMAIN message : n # m => Stage(n)' = Stage(n)
    /\ DOMAIN message' = DOMAIN message

(* A message with worker w, whose handler goes on to s.                      *)
LEMMA StaysInPlace ==
  ASSUME QuietInv, NEW m \in DOMAIN message, NEW w \in Workers, message[m].at = w,
         NEW s \in HandlerStep, s # "none", Step(m, w, s), message' = message
  PROVE  Alone(m) /\ Stage(m)' = s /\ (channel' = channel => WorkersInv')
<1>1. TypesInv /\ m \in Messages /\ DOMAIN message \subseteq Messages
  BY MessageFacts DEF QuietInv, TypesInv, TypeOK, MessagesOK
<1>2. /\ handler'[m][w] = s
      /\ \A n \in Messages, v \in Workers : n # m \/ v # w => handler'[n][v] = handler[n][v]
  BY <1>1, HandlerMoves
<1>3. Alone(m) /\ Stage(m)' = s
  BY <1>1, <1>2 DEF Alone, Sent, Stage
<1>4. channel' = channel => WorkersInv'
  BY <1>1, <1>2 DEF QuietInv, WorkersInv
<1> QED  BY <1>3, <1>4

(* A message that goes to another place.                                     *)
LEMMA ChangesPlace ==
  ASSUME QuietInv, NEW m \in DOMAIN message, NEW place \in {"queued", "acked", "dead"} \union Workers,
         message' = [message EXCEPT ![m].at = place],
         NEW w \in Workers, NEW s \in HandlerStep, Step(m, w, s), channel' = channel,
         place \in Workers => place = w /\ s # "none",
         message[m].at = w \/ place = w
  PROVE  Alone(m) /\ Stage(m)' = (IF place = w THEN s ELSE place) /\ WorkersInv'
<1>1. /\ TypesInv /\ m \in Messages /\ DOMAIN message \subseteq Messages
      /\ MessagesOK /\ WorkersInv /\ DeliveryInv
  BY MessageFacts DEF QuietInv, TypesInv, TypeOK, MessagesOK
<1>2. /\ handler'[m][w] = s
      /\ \A n \in Messages, v \in Workers : n # m \/ v # w => handler'[n][v] = handler[n][v]
  BY <1>1, HandlerMoves
<1>3. /\ DOMAIN message' = DOMAIN message
      /\ \A n \in DOMAIN message : n # m => message'[n] = message[n]
      /\ message'[m].at = place
      /\ \A n \in DOMAIN message : message'[n].job = message[n].job /\ message'[n].tagged = message[n].tagged
  BY <1>1, Placed DEF Kept
<1>4. \A k \in Jobs, t \in BOOLEAN : Sent(k, t)' = Sent(k, t)
  BY <1>3 DEF Sent
<1>5. \A n \in DOMAIN message : n # m => Stage(n)' = Stage(n)
  BY <1>1, <1>2, <1>3 DEF Stage
<1>6. Stage(m)' = IF place = w THEN s ELSE place
  BY <1>2, <1>3 DEF Stage
<1>7. ASSUME NEW n \in DOMAIN message', NEW v \in Workers, message'[n].at = v
      PROVE  handler'[n][v] # "none"
  <2>1. CASE n = m
    BY <1>2, <1>3, <1>7, <2>1
  <2>2. CASE n # m
    BY <1>1, <1>2, <1>3, <1>7, <2>2 DEF WorkersInv
  <2> QED  BY <2>1, <2>2
<1>8. WorkersInv'
  BY <1>1, <1>7 DEF WorkersInv
<1> QED  BY <1>3, <1>4, <1>5, <1>6, <1>8 DEF Alone

LEMMA HandlerQuiet ==
  ASSUME QuietInv, Undisturbed, NEW m \in Messages, NEW w \in Workers,
         Deliver(m, w) \/ HandlerNext(m, w)
  PROVE  /\ m \in DOMAIN message
         /\ Alone(m) /\ HandlerGoes(m) /\ WorkersInv'
         /\ UNCHANGED <<attempts, sender, retrier>>
<1>1. /\ TypesInv /\ MessagesOK /\ WorkersInv /\ DeliveryInv
      /\ channel[w] = "consuming"
  BY DEF QuietInv, WorkersInv, TypesInv, TypeOK, MessagesOK
<1>2. UNCHANGED <<attempts, sender, retrier>>
  BY <1>1 DEF Deliver, HandlerNext, RecordProcessing, CallbackReturns, CallbackThrows, RecordCompleted,
     Ack, RecordFailed, Nack, dbVars
<1>3. handler[m][w] # "none" => m \in DOMAIN message /\ message[m].at = w /\ Stage(m) = handler[m][w]
  BY <1>1 DEF DeliveryInv, OnlyTheHolderSettles, Stage
<1>4. \A s \in {"none", "received", "running", "returned", "recorded", "threw", "rejecting"} :
         s \in HandlerStep
  BY DEF HandlerStep
<1>5. \A v \in Workers : v # "queued" /\ v # "acked" /\ v # "dead"
  BY JobQueueAssumption
<1>6. ASSUME NEW s, HandlerUpdates(m, s)  PROVE Writes(m, s)
  <2>1. ~Fault("database")
    BY QuietFaults
  <2> QED  BY <1>6, <2>1 DEF HandlerUpdates, UpdateJobStatus, SetStatus, Writes
<1>7. CASE Deliver(m, w)
  <2>1. /\ m \in DOMAIN message /\ message[m].at = "queued" /\ Step(m, w, "received")
        /\ message' = [message EXCEPT ![m].at = w] /\ UNCHANGED <<channel, status, done>>
    BY <1>7 DEF Deliver, dbVars
  <2>2. Stage(m) = "queued"
    BY <1>5, <2>1 DEF Stage
  <2>3. Alone(m) /\ Stage(m)' = "received" /\ WorkersInv'
    BY <1>4, <2>1, ChangesPlace
  <2> QED  BY <1>2, <2>1, <2>2, <2>3 DEF HandlerGoes, Goes
<1>8. ASSUME NEW s \in HandlerStep, s # "none", Step(m, w, s), UNCHANGED <<message, channel>>,
             handler[m][w] # "none"
      PROVE  m \in DOMAIN message /\ Alone(m) /\ Goes(m, handler[m][w], s) /\ WorkersInv'
  BY <1>3, <1>8, StaysInPlace DEF Goes
<1>9. ASSUME NEW verdict \in {"acked", "dead"}, SettleAs(m, w, verdict), handler[m][w] # "none"
      PROVE  m \in DOMAIN message /\ Alone(m) /\ Goes(m, handler[m][w], verdict) /\ WorkersInv'
  <2>1. /\ message' = [message EXCEPT ![m].at = verdict] /\ channel' = channel
        /\ Step(m, w, "none")
    BY <1>1, <1>9 DEF SettleAs
  <2>2. m \in DOMAIN message /\ message[m].at = w /\ verdict # w
    BY <1>3, <1>5, <1>9
  <2>3. /\ verdict \in {"queued", "acked", "dead"} \union Workers /\ verdict \notin Workers
        /\ "none" \in HandlerStep
    BY <1>4, <1>5, <1>9
  <2>4. Alone(m) /\ Stage(m)' = verdict /\ WorkersInv'
    BY <2>1, <2>2, <2>3, ChangesPlace
  <2> QED  BY <1>3, <1>9, <2>2, <2>4 DEF Goes
<1>10. CASE RecordProcessing(m, w)
  <2>1. /\ handler[m][w] = "received" /\ Step(m, w, "running") /\ Writes(m, "processing")
        /\ UNCHANGED <<message, channel, done>>
    BY <1>6, <1>10 DEF RecordProcessing
  <2> QED  BY <1>2, <1>4, <1>8, <2>1 DEF HandlerGoes
<1>11. CASE CallbackReturns(m, w)
  <2>1. /\ handler[m][w] = "running" /\ Step(m, w, "returned") /\ done' = done \union {m}
        /\ UNCHANGED <<message, channel, status>>
    BY <1>11 DEF CallbackReturns, dbVars
  <2> QED  BY <1>2, <1>4, <1>8, <2>1 DEF HandlerGoes
<1>12. CASE CallbackThrows(m, w)
  <2>1. /\ handler[m][w] = "running" /\ Step(m, w, "threw")
        /\ UNCHANGED <<message, channel, status, done>>
    BY <1>12 DEF CallbackThrows, dbVars
  <2> QED  BY <1>2, <1>4, <1>8, <2>1 DEF HandlerGoes
<1>13. CASE RecordCompleted(m, w)
  <2>1. /\ handler[m][w] = "returned" /\ Step(m, w, "recorded") /\ Writes(m, "completed")
        /\ UNCHANGED <<message, channel, done>>
    BY <1>6, <1>13 DEF RecordCompleted
  <2> QED  BY <1>2, <1>4, <1>8, <2>1 DEF HandlerGoes
<1>14. CASE Ack(m, w)
  <2>1. /\ handler[m][w] = "recorded" /\ SettleAs(m, w, "acked") /\ UNCHANGED <<status, done>>
    BY <1>1, <1>14 DEF Ack, dbVars
  <2> QED  BY <1>2, <1>9, <2>1 DEF HandlerGoes
<1>15. CASE RecordFailed(m, w)
  <2>1. /\ handler[m][w] = "threw" /\ Step(m, w, "rejecting") /\ Writes(m, "failed")
        /\ UNCHANGED <<message, channel, done>>
    BY <1>6, <1>15 DEF RecordFailed
  <2> QED  BY <1>2, <1>4, <1>8, <2>1 DEF HandlerGoes
<1>16. CASE Nack(m, w)
  <2>1. /\ handler[m][w] = "rejecting" /\ SettleAs(m, w, "dead") /\ UNCHANGED <<status, done>>
    BY <1>1, <1>16 DEF Nack, dbVars
  <2> QED  BY <1>2, <1>9, <2>1 DEF HandlerGoes
<1> QED  BY <1>7, <1>10, <1>11, <1>12, <1>13, <1>14, <1>15, <1>16 DEF HandlerNext

LEMMA ShownFacts ==
  /\ Shown("queued") = {"pending"} /\ Shown("received") = {"pending"}
  /\ Shown("running") = {"processing"} /\ Shown("returned") = {"processing"}
  /\ Shown("threw") = {"processing"}
  /\ Shown("recorded") = {"completed"} /\ Shown("acked") = {"completed"}
  /\ Shown("rejecting") = {"failed", "pending"} /\ Shown("dead") = {"failed", "pending"}
BY DEF Shown

LEMMA HandlerKeepsJobs ==
  ASSUME QuietInv, NEW m \in DOMAIN message, Alone(m), HandlerGoes(m),
         UNCHANGED <<attempts, sender, retrier>>, NEW j \in Jobs
  PROVE  JobOf(j)'
<1>1. /\ status \in [Jobs -> {"absent", "pending", "processing", "completed", "failed"}]
      /\ sender \in [Jobs -> {"idle", "inserted", "unsent", "over", "dropped", "dead"}]
      /\ message[m] \in Message /\ JobOf(j)
  BY MessageFacts DEF QuietInv, TypesInv, TypeOK, MessagesOK
<1>2. message[m].job \in Jobs /\ message[m].tagged \in BOOLEAN
  BY <1>1 DEF Message
<1>3. \A n \in Sent(j, TRUE) \union Sent(j, FALSE) :
         n \in DOMAIN message /\ message[n].job = j
  BY DEF Sent
<1>4. /\ Sent(j, TRUE)' = Sent(j, TRUE) /\ Sent(j, FALSE)' = Sent(j, FALSE)
      /\ \A n \in DOMAIN message : n # m => Stage(n)' = Stage(n)
  BY DEF Alone
<1>5. CASE message[m].job # j \/ ~message[m].tagged
  <2>1. \A n \in Sent(j, TRUE) : Stage(n)' = Stage(n)
    BY <1>3, <1>4, <1>5 DEF Sent
  <2>2. status'[j] = status[j]
    BY <1>1, <1>2, <1>5 DEF HandlerGoes, Writes
  <2> QED  BY <1>1, <1>4, <2>1, <2>2, OtherJobs
<1>6. CASE message[m].job = j /\ message[m].tagged
  <2>1. m \in Sent(j, TRUE)
    BY <1>6 DEF Sent
  <2>2. \A n \in Sent(j, TRUE) : n = m
    BY <1>1, <2>1 DEF JobOf, MessagesOf
  <2>3. sender[j] = "over"
    BY <1>1, <2>1 DEF JobOf, SenderOf
  <2>4. status[j] \in Shown(Stage(m))
    BY <1>1, <2>1 DEF JobOf, MessagesOf
  <2>5. \A s : Writes(m, s) => status'[j] = s
    BY <1>1, <1>6 DEF Writes
  <2>6. status'[j] \in Shown(Stage(m)')
    BY <2>4, <2>5, ShownFacts DEF HandlerGoes, Goes
  <2>7. SenderOf(j)'
    BY <1>4, <2>3 DEF SenderOf
  <2>8. Stage(m) \in {"rejecting", "dead"} => Stage(m)' = "dead" /\ status'[j] = status[j]
    BY DEF HandlerGoes, Goes
  <2>9. Sent(j, FALSE) # {} => status[j] = "pending" /\ Stage(m) \in {"rejecting", "dead"}
    BY <1>1, <2>1 DEF JobOf, MessagesOf
  <2>10. MessagesOf(j)'
    <3>1. \A tagged \in BOOLEAN : \A n, p \in Sent(j, tagged)' : n = p
      BY <1>1, <1>4 DEF JobOf, MessagesOf
    <3>2. \A n \in Sent(j, TRUE)' : status'[j] \in Shown(Stage(n)')
      BY <1>4, <2>2, <2>6
    <3>3. Sent(j, FALSE)' # {} =>
             /\ status'[j] = "pending"
             /\ \A n \in Sent(j, TRUE)' : Stage(n)' \in {"rejecting", "dead"}
      BY <1>4, <2>2, <2>8, <2>9
    <3> QED  BY <3>1, <3>2, <3>3 DEF MessagesOf
  <2>11. AtRest(j) => AtRest(j)' /\ status'[j] = status[j]
    <3>1. AtRest(j) => Stage(m)' = "dead" /\ status'[j] = status[j]
      BY <2>1, <2>8 DEF AtRest
    <3> QED  BY <1>4, <2>2, <3>1 DEF AtRest
  <2>12. status'[j] = "failed" => AtRest(j)'
    <3>1. CASE status[j] = "failed"
      BY <1>1, <2>11, <3>1 DEF JobOf, RetriesOf
    <3>2. CASE status[j] # "failed" /\ status'[j] = "failed"
      <4>1. Stage(m)' = "rejecting" /\ Stage(m) = "threw"
        BY <2>5, <3>2 DEF HandlerGoes, Goes
      <4>2. Sent(j, FALSE) = {}
        BY <2>9, <4>1
      <4> QED  BY <1>4, <2>2, <2>3, <4>1, <4>2 DEF AtRest
    <3> QED  BY <3>1, <3>2
  <2>13. \A r \in Retriers : j \in retrier[r].batch => status[j] = "failed" /\ AtRest(j)
    BY <1>1 DEF JobOf, RetriesOf
  <2>14. RetriesOf(j)'
    BY <1>1, <2>11, <2>12, <2>13 DEF JobOf, RetriesOf
  <2> QED  BY <2>7, <2>10, <2>14 DEF JobOf
<1> QED  BY <1>5, <1>6

LEMMA HandlerKeepsDone ==
  ASSUME QuietInv, NEW m \in DOMAIN message, Alone(m), HandlerGoes(m)
  PROVE  DoneInv'
<1>1. \A n \in done : n \in DOMAIN message /\ Stage(n) \in {"returned", "recorded", "acked"}
  BY DEF QuietInv, DoneInv
<1>2. ASSUME NEW n \in done', n # m
      PROVE  n \in DOMAIN message' /\ Stage(n)' \in {"returned", "recorded", "acked"}
  <2>1. n \in done
    BY <1>2 DEF HandlerGoes
  <2> QED  BY <1>1, <1>2, <2>1 DEF Alone
<1>3. m \in done' => m \in DOMAIN message' /\ Stage(m)' \in {"returned", "recorded", "acked"}
  <2>1. m \in done => Stage(m) \in {"returned", "recorded", "acked"}
    BY <1>1
  <2>2. m \in done' => Stage(m)' \in {"returned", "recorded", "acked"}
    BY <2>1 DEF HandlerGoes, Goes
  <2> QED  BY <2>2 DEF Alone
<1> QED  BY <1>2, <1>3 DEF DoneInv

LEMMA SameMessages ==
  ASSUME message' = message, handler' = handler
  PROVE  /\ \A k, t : Sent(k, t)' = Sent(k, t)
         /\ \A m : Stage(m)' = Stage(m)
BY DEF Sent, Stage

LEMMA RequestsLeaveWorkers ==
  ASSUME QuietInv, UNCHANGED <<channel, handler, done>>,
         message' = message \/ \E j \in Jobs, tagged \in BOOLEAN : Publish(j, tagged)
  PROVE  WorkersInv' /\ DoneInv'
<1>1. WorkersInv /\ DoneInv
  BY DEF QuietInv
<1>2. CASE message' = message
  BY <1>1, <1>2, SameMessages DEF WorkersInv, DoneInv
<1>3. ASSUME NEW j \in Jobs, NEW tagged \in BOOLEAN, Publish(j, tagged)
      PROVE  WorkersInv' /\ DoneInv'
  <2>1. /\ \A m \in DOMAIN message : m \in DOMAIN message' /\ Stage(m)' = Stage(m)
        /\ \A m \in DOMAIN message', w \in Workers :
              message'[m].at = w => handler'[m][w] # "none"
    BY <1>1, <1>3, NewInQueue
  <2> QED  BY <1>1, <2>1 DEF WorkersInv, DoneInv
<1> QED  BY <1>2, <1>3

(* A job that is still being sent is not retried.                            *)
LEMMA NotRetried ==
  ASSUME QuietInv, NEW j \in Jobs, sender[j] # "over", NEW r \in Retriers
  PROVE  /\ j \notin retrier[r].batch
         /\ ~ (retrier[r].step \in {"marked", "unsent", "caught"} /\ retrier[r].job = j)
<1>1. JobOf(j) /\ sender[j] \in {"idle", "inserted", "unsent", "over", "dropped", "dead"}
  BY DEF QuietInv, TypesInv, TypeOK
<1>2. status[j] # "failed" /\ ~AtRest(j)
  BY <1>1 DEF JobOf, SenderOf, AtRest
<1> QED  BY <1>1, <1>2 DEF JobOf, RetriesOf

LEMMA SendersKeep ==
  ASSUME QuietInv, Undisturbed, NEW j \in Jobs, SenderStep(j) \/ SenderCrash(j)
  PROVE  WorkersInv' /\ DoneInv' /\ \A k \in Jobs : JobOf(k)'
<1>1. /\ status \in [Jobs -> {"absent", "pending", "processing", "completed", "failed"}]
      /\ sender \in [Jobs -> {"idle", "inserted", "unsent", "over", "dropped", "dead"}]
      /\ \A k \in Jobs : JobOf(k)
  BY DEF QuietInv, TypesInv, TypeOK
<1>2. /\ UNCHANGED <<channel, handler, done, attempts, retrier>>
      /\ message' = message \/ Publish(j, TRUE)
  BY DEF SenderStep, SenderCrash, Insert, Send, RecordUnsent, workerVars, dbVars,
     PublishSucceeds, PublishIsLost, PublishFails
<1>3. WorkersInv' /\ DoneInv'
  BY <1>2, RequestsLeaveWorkers
<1>4. /\ ~Fault("database") /\ ~Fault("senderCrash")
      /\ ~Fault("backpressure") /\ ~Fault("unconfirmed")
  BY QuietFaults
<1>5. sender[j] \in {"idle", "inserted", "unsent"}
  BY DEF SenderStep, SenderCrash, Insert, Send, RecordUnsent
<1>6. Sent(j, TRUE) = {} /\ Sent(j, FALSE) = {}
  BY <1>1, <1>5 DEF JobOf, SenderOf
<1>7. \A r \in Retriers :
         /\ j \notin retrier'[r].batch
         /\ ~ (retrier'[r].step \in {"marked", "unsent", "caught"} /\ retrier'[r].job = j)
  BY <1>2, <1>5, NotRetried
<1>8. ASSUME NEW k \in Jobs, k # j  PROVE JobOf(k)'
  <2>1. status'[k] = status[k] /\ sender'[k] = sender[k] /\ attempts'[k] = attempts[k]
    BY <1>1, <1>2, <1>4, <1>8 DEF SenderStep, SenderCrash, Insert, Send, RecordUnsent, SetStatus,
       UpdateJobStatus, dbVars
  <2>2. \A r \in Retriers : retrier'[r] = retrier[r]
    BY <1>2
  <2>3. /\ Sent(k, TRUE)' = Sent(k, TRUE) /\ Sent(k, FALSE)' = Sent(k, FALSE)
        /\ \A m \in Sent(k, TRUE) : Stage(m)' = Stage(m)
    <3>1. CASE message' = message
      BY <1>2, <3>1, SameMessages
    <3>2. CASE Publish(j, TRUE)
      BY <1>2, <1>8, <3>2, NewInQueue DEF Sent
    <3> QED  BY <1>2, <3>1, <3>2
  <2> QED  BY <1>1, <2>1, <2>2, <2>3, OtherJobs
<1>9. JobOf(j)'
  <2>1. CASE Insert(j)
    <3>1. /\ status'[j] = "pending" /\ sender'[j] = "inserted" /\ message' = message
      BY <1>1, <1>4, <2>1 DEF Insert, SetStatus
    <3>2. Sent(j, TRUE)' = {} /\ Sent(j, FALSE)' = {}
      BY <1>2, <1>6, <3>1, SameMessages
    <3> QED  BY <1>7, <3>1, <3>2 DEF JobOf, SenderOf, MessagesOf, RetriesOf
  <2>2. CASE Send(j) /\ message' # message
    <3>1. Publish(j, TRUE) /\ sender'[j] = "over" /\ status'[j] = "pending"
      BY <1>1, <1>2, <1>4, <2>2 DEF Send, PublishSucceeds, PublishIsLost, PublishFails, dbVars, JobOf, SenderOf
    <3>2. PICK new : Sent(j, TRUE)' = {new} /\ Stage(new)' = "queued"
      BY <1>2, <1>6, <3>1, NewInQueue
    <3>3. Sent(j, FALSE)' = {}
      BY <1>2, <1>6, <3>1, NewInQueue
    <3>4. MessagesOf(j)'
      BY <3>1, <3>2, <3>3, ShownFacts DEF MessagesOf
    <3> QED  BY <1>7, <3>1, <3>4 DEF JobOf, SenderOf, RetriesOf
  <2>3. CASE Send(j) /\ message' = message
    <3>1. /\ sender'[j] \in {"over", "unsent"} /\ status'[j] = "pending"
      BY <1>1, <1>4, <2>3 DEF Send, PublishIsLost, dbVars, JobOf, SenderOf
    <3>2. Sent(j, TRUE)' = {} /\ Sent(j, FALSE)' = {}
      BY <1>2, <1>6, <2>3, SameMessages
    <3> QED  BY <1>7, <3>1, <3>2 DEF JobOf, SenderOf, MessagesOf, RetriesOf
  <2>4. CASE RecordUnsent(j)
    <3>1. /\ sender'[j] = "over" /\ status'[j] = "failed" /\ message' = message
      BY <1>1, <1>4, <2>4 DEF RecordUnsent, UpdateJobStatus, SetStatus
    <3>2. Sent(j, TRUE)' = {} /\ Sent(j, FALSE)' = {}
      BY <1>2, <1>6, <3>1, SameMessages
    <3> QED  BY <1>7, <3>1, <3>2 DEF JobOf, SenderOf, MessagesOf, RetriesOf, AtRest
  <2>5. ~SenderCrash(j)
    BY <1>4 DEF SenderCrash
  <2> QED  BY <2>1, <2>2, <2>3, <2>4, <2>5 DEF SenderStep
<1> QED  BY <1>3, <1>8, <1>9

(* The call of retryFailedJobs() that runs is the only one, and keeps to the *)
(* jobs it has selected.                                                     *)
LEMMA RetriersKeep ==
  ASSUME QuietInv, Undisturbed, NEW r \in Retriers, RetrierStep(r) \/ RetrierCrash(r)
  PROVE  WorkersInv' /\ DoneInv' /\ \A k \in Jobs : JobOf(k)'
<1>1. /\ status \in [Jobs -> {"absent", "pending", "processing", "completed", "failed"}]
      /\ attempts \in [Jobs -> Nat]
      /\ retrier \in [Retriers -> Call]
      /\ retrier[r] \in Call
      /\ \A k \in Jobs : JobOf(k)
      /\ retrier[r].step \in {"marked", "unsent", "caught"} => retrier[r].job \in Jobs
  BY DEF QuietInv, TypesInv, TypeOK, Call, JobInHand
<1>2. /\ UNCHANGED <<channel, handler, done, sender>>
      /\ \/ message' = message
         \/ retrier[r].step = "marked" /\ Publish(retrier[r].job, FALSE)
  BY DEF RetrierStep, RetrierContinues, RetrierCrash, SelectFailed, MarkPending, DataUnreadable,
     Resend, RevertToFailed, workerVars, dbVars, PublishSucceeds, PublishIsLost, PublishFails
<1>3. WorkersInv' /\ DoneInv'
  BY <1>1, <1>2, RequestsLeaveWorkers
<1>4. /\ ~Fault("database") /\ ~Fault("senderCrash")
      /\ ~Fault("backpressure") /\ ~Fault("unconfirmed")
  BY QuietFaults
<1>5. \A q \in Retriers : q = r
  BY DEF Undisturbed
<1>6. \A k \in Jobs :
         /\ k \in retrier[r].batch => status[k] = "failed" /\ attempts[k] < MaxAttempts /\ AtRest(k)
         /\ retrier[r].step \in {"marked", "unsent", "caught"} /\ retrier[r].job = k =>
               status[k] = "pending" /\ AtRest(k) /\ k \notin retrier[r].batch
  BY <1>1 DEF JobOf, RetriesOf
<1>7. message' = message =>
         \A k \in Jobs : /\ Sent(k, TRUE)' = Sent(k, TRUE) /\ Sent(k, FALSE)' = Sent(k, FALSE)
                         /\ \A m \in Sent(k, TRUE) : Stage(m)' = Stage(m)
                         /\ AtRest(k) => AtRest(k)'
  BY <1>2, SameMessages DEF AtRest
<1>8. CASE SelectFailed(r)
  <2>1. PICK batch \in SUBSET Retryable :
           retrier' = [retrier EXCEPT ![r] = [step |-> "next", batch |-> batch, job |-> NoJob]]
    BY <1>8 DEF SelectFailed
  <2>2. retrier'[r].step = "next" /\ retrier'[r].batch = batch
    BY <1>1, <2>1
  <2>3. UNCHANGED <<status, attempts, message>>
    BY <1>8 DEF SelectFailed, dbVars
  <2>4. \A k \in Jobs : k \in batch => status[k] = "failed" /\ attempts[k] < MaxAttempts
    BY DEF Retryable
  <2>5. \A k \in Jobs, q \in Retriers :
            /\ k \in retrier'[q].batch => status[k] = "failed" /\ attempts[k] < MaxAttempts
            /\ ~ (retrier'[q].step \in {"marked", "unsent", "caught"})
    BY <1>5, <2>2, <2>4
  <2>6. ASSUME NEW k \in Jobs  PROVE JobOf(k)'
    BY <1>1, <1>2, <1>7, <2>3, <2>5, OtherJobs
  <2> QED  BY <1>3, <2>6
<1>9. CASE MarkPending(r)
  <2>1. PICK j \in retrier[r].batch :
           /\ status' = [status EXCEPT ![j] = "pending"]
           /\ attempts' = [attempts EXCEPT ![j] = @ + 1]
           /\ retrier' = [retrier EXCEPT ![r] = [step |-> "marked", job |-> j,
                                                 batch |-> retrier[r].batch \ {j}]]
    BY <1>4, <1>9 DEF MarkPending, SetStatus
  <2>2. /\ retrier'[r].step = "marked" /\ retrier'[r].job = j
        /\ retrier'[r].batch = retrier[r].batch \ {j}
        /\ j \in Jobs /\ message' = message
    BY <1>1, <1>9, <2>1 DEF Call, MarkPending
  <2>3. ASSUME NEW k \in Jobs, k # j  PROVE JobOf(k)'
    <3>1. status'[k] = status[k] /\ attempts'[k] = attempts[k] /\ sender'[k] = sender[k]
      BY <1>1, <1>2, <2>1, <2>3
    <3>2. \A q \in Retriers : /\ k \in retrier'[q].batch => k \in retrier[q].batch
                              /\ retrier'[q].job # k
      BY <1>5, <2>2, <2>3
    <3> QED  BY <1>1, <1>7, <2>2, <3>1, <3>2, OtherJobs
  <2>4. JobOf(j)'
    <3>1. status'[j] = "pending" /\ sender'[j] = "over" /\ AtRest(j) /\ AtRest(j)'
      BY <1>1, <1>2, <1>6, <1>7, <2>1, <2>2 DEF AtRest
    <3>2. SenderOf(j)'
      BY <3>1 DEF SenderOf
    <3>3. MessagesOf(j)'
      BY <1>1, <2>2, <3>1, ShownFacts DEF JobOf, MessagesOf, AtRest, Sent
    <3>4. RetriesOf(j)'
      BY <1>5, <2>2, <3>1 DEF RetriesOf
    <3> QED  BY <3>2, <3>3, <3>4 DEF JobOf
  <2> QED  BY <1>3, <2>3, <2>4
<1>10. CASE \E s \in {"unsent", "caught"} :
               /\ retrier[r].step = "marked" /\ retrier' = [retrier EXCEPT ![r].step = s]
               /\ UNCHANGED <<status, attempts, message>>
  <2>1. /\ retrier'[r].batch = retrier[r].batch /\ retrier'[r].job = retrier[r].job
        /\ retrier[r].step = "marked"
    BY <1>1, <1>10 DEF Call
  <2>2. \A k \in Jobs, q \in Retriers :
           /\ k \in retrier'[q].batch => k \in retrier[q].batch
           /\ retrier'[q].job = k => /\ retrier[q].step \in {"marked", "unsent", "caught"}
                                     /\ retrier[q].job = k
    BY <1>5, <2>1
  <2>3. ASSUME NEW k \in Jobs  PROVE JobOf(k)'
    BY <1>1, <1>2, <1>7, <1>10, <2>2, OtherJobs
  <2> QED  BY <1>3, <2>3
<1>11. CASE /\ ToNextJob(r) /\ retrier[r].step \in {"marked", "unsent", "caught"}
            /\ UNCHANGED attempts
            /\ \/ Publish(retrier[r].job, FALSE) /\ UNCHANGED status
               \/ SetStatus(retrier[r].job, "failed") /\ message' = message
  <2>1. PICK j \in Jobs : j = retrier[r].job
    BY <1>1, <1>11
  <2>2. /\ retrier'[r].batch = retrier[r].batch
        /\ retrier'[r].step \in {"idle", "next"}
    BY <1>1, <1>11 DEF ToNextJob, Call
  <2>3. \A k \in Jobs, q \in Retriers :
           /\ k \in retrier'[q].batch => k \in retrier[q].batch
           /\ ~ (retrier'[q].step \in {"marked", "unsent", "caught"})
    BY <1>5, <2>2
  <2>4. status[j] = "pending" /\ AtRest(j) /\ \A q \in Retriers : j \notin retrier'[q].batch
    BY <1>5, <1>6, <1>11, <2>1, <2>2
  <2>5. sender'[j] = "over" /\ Sent(j, FALSE) = {}
        /\ \A m \in Sent(j, TRUE) : Stage(m) \in {"rejecting", "dead"}
    BY <1>2, <2>4 DEF AtRest
  <2>6. CASE Publish(j, FALSE) /\ UNCHANGED status
    <3>1. PICK new : Sent(j, FALSE)' = {new}
      BY <1>2, <2>5, <2>6, NewInQueue
    <3>2. /\ Sent(j, TRUE)' = Sent(j, TRUE)
          /\ \A m \in DOMAIN message : Stage(m)' = Stage(m)
          /\ \A k \in Jobs, t \in BOOLEAN : k # j => Sent(k, t)' = Sent(k, t)
      BY <1>2, <2>6, NewInQueue
    <3>3. \A k \in Jobs : \A m \in Sent(k, TRUE) : Stage(m)' = Stage(m)
      BY <3>2 DEF Sent
    <3>4. ASSUME NEW k \in Jobs, k # j  PROVE JobOf(k)'
      BY <1>1, <1>2, <1>11, <2>3, <2>6, <3>2, <3>3, <3>4, OtherJobs
    <3>5. MessagesOf(j)'
      <4>1. \A m \in Sent(j, TRUE)' : Stage(m)' \in {"rejecting", "dead"}
        BY <2>5, <3>2, <3>3
      <4>2. \A t \in BOOLEAN : \A m, n \in Sent(j, t)' : m = n
        <5>1. \A m, n \in Sent(j, TRUE) : m = n
          BY <1>1 DEF JobOf, MessagesOf
        <5>2. \A m, n \in Sent(j, TRUE)' : m = n
          BY <3>2, <5>1
        <5>3. \A m, n \in Sent(j, FALSE)' : m = n
          BY <3>1
        <5> QED  BY <5>2, <5>3
      <4>3. status'[j] = "pending"
        BY <2>4, <2>6
      <4> QED  BY <4>1, <4>2, <4>3, ShownFacts DEF MessagesOf
    <3>6. JobOf(j)'
      BY <2>3, <2>4, <2>5, <2>6, <3>5 DEF JobOf, SenderOf, RetriesOf
    <3> QED  BY <1>3, <3>4, <3>6
  <2>7. CASE SetStatus(j, "failed") /\ message' = message
    <3>1. ASSUME NEW k \in Jobs, k # j  PROVE JobOf(k)'
      <4>1. status'[k] = status[k]
        BY <1>1, <2>7, <3>1 DEF SetStatus
      <4> QED  BY <1>1, <1>2, <1>7, <1>11, <2>3, <2>7, <4>1, OtherJobs
    <3>2. status'[j] = "failed" /\ AtRest(j)'
      BY <1>1, <1>7, <2>4, <2>7 DEF SetStatus
    <3>3. SenderOf(j)'
      BY <2>5 DEF SenderOf
    <3>4. MessagesOf(j)'
      <4>1. \A t \in BOOLEAN : \A m, n \in Sent(j, t) : m = n
        BY <1>1 DEF JobOf, MessagesOf
      <4>2. \A t \in BOOLEAN : Sent(j, t)' = Sent(j, t)
        BY <1>7, <2>7
      <4>3. \A t \in BOOLEAN : \A m, n \in Sent(j, t)' : m = n
        BY <4>1, <4>2
      <4>4. /\ Sent(j, FALSE)' = {}
            /\ \A m \in Sent(j, TRUE)' : Stage(m)' \in {"rejecting", "dead"}
        BY <3>2 DEF AtRest
      <4> QED  BY <3>2, <4>3, <4>4, ShownFacts DEF MessagesOf
    <3>5. RetriesOf(j)'
      BY <2>3, <2>4, <3>2 DEF RetriesOf
    <3>6. JobOf(j)'
      BY <3>3, <3>4, <3>5 DEF JobOf
    <3> QED  BY <1>3, <3>1, <3>6
  <2> QED  BY <1>11, <2>1, <2>6, <2>7
<1>12. CASE DataUnreadable(r)
  BY <1>10, <1>12 DEF DataUnreadable, dbVars
<1>13. CASE Resend(r)
  BY <1>4, <1>10, <1>11, <1>13 DEF Resend, PublishSucceeds, PublishIsLost, PublishFails,
     dbVars
<1>14. CASE RevertToFailed(r)
  BY <1>4, <1>11, <1>14 DEF RevertToFailed
<1>15. ~RetrierCrash(r)
  BY <1>4 DEF RetrierCrash
<1> QED  BY <1>8, <1>9, <1>12, <1>13, <1>14, <1>15 DEF RetrierStep, RetrierContinues

LEMMA QuietInit == Init => QuietInv
<1> SUFFICES ASSUME Init  PROVE QuietInv
  OBVIOUS
<1>1. TypesInv /\ DeliveryInv
  BY TypesInit, DeliveryInit
<1>2. DOMAIN message = {}
  BY DEF Init
<1>3. WorkersInv /\ DoneInv
  BY <1>2 DEF Init, WorkersInv, DoneInv
<1>4. ASSUME NEW j \in Jobs  PROVE JobOf(j)
  <2>1. \A tagged \in BOOLEAN : Sent(j, tagged) = {}
    BY <1>2 DEF Sent
  <2>2. /\ sender[j] = "idle" /\ status[j] = "absent"
        /\ \A r \in Retriers : retrier[r].step = "idle" /\ retrier[r].batch = {}
    BY DEF Init, NoCall
  <2>3. SenderOf(j) /\ MessagesOf(j)
    BY <2>1, <2>2 DEF SenderOf, MessagesOf
  <2>4. RetriesOf(j)
    BY <2>2 DEF RetriesOf
  <2> QED  BY <2>3, <2>4 DEF JobOf
<1> QED  BY <1>1, <1>3, <1>4 DEF QuietInv

(* A connection that cannot be lost and a process that cannot die have no    *)
(* step to take.                                                             *)
LEMMA ConnectionsRest ==
  ASSUME QuietInv, Undisturbed, NEW w \in Workers
  PROVE  ~ConnectionStep(w)
<1>1. channel[w] = "consuming"
  BY DEF QuietInv, WorkersInv
<1>2. ~Fault("disconnect") /\ ~Fault("workerCrash")
  BY QuietFaults
<1> QED  BY <1>1, <1>2 DEF ConnectionStep, Disconnect, Reconnect, WorkerCrash, Restart

LEMMA QuietStep ==
  ASSUME Undisturbed, QuietInv, [Next]_vars
  PROVE  QuietInv'
<1>1. TypesInv' /\ DeliveryInv'
  BY TypesStep, DeliveryStep DEF QuietInv
<1>2. CASE \E j \in Jobs : SenderStep(j) \/ SenderCrash(j)
  BY <1>1, <1>2, SendersKeep DEF QuietInv
<1>3. CASE \E r \in Retriers : RetrierStep(r) \/ RetrierCrash(r)
  BY <1>1, <1>3, RetriersKeep DEF QuietInv
<1>4. ASSUME NEW m \in Messages, NEW w \in Workers, Deliver(m, w) \/ HandlerNext(m, w)
      PROVE  QuietInv'
  <2>1. /\ m \in DOMAIN message /\ Alone(m) /\ HandlerGoes(m) /\ WorkersInv'
        /\ UNCHANGED <<attempts, sender, retrier>>
    BY <1>4, HandlerQuiet
  <2>2. DoneInv'
    BY <2>1, HandlerKeepsDone
  <2>3. \A j \in Jobs : JobOf(j)'
    BY <2>1, HandlerKeepsJobs
  <2> QED  BY <1>1, <2>1, <2>2, <2>3 DEF QuietInv
<1>5. \A w \in Workers : ~ConnectionStep(w)
  BY ConnectionsRest
<1>6. CASE UNCHANGED vars
  <2>1. WorkersInv' /\ DoneInv'
    BY <1>6, RequestsLeaveWorkers DEF vars
  <2>2. ASSUME NEW j \in Jobs  PROVE JobOf(j)'
    <3>1. /\ UNCHANGED <<status, attempts, sender, retrier>>
          /\ \A k, t : Sent(k, t)' = Sent(k, t)
          /\ \A m : Stage(m)' = Stage(m)
      BY <1>6, SameMessages DEF vars
    <3> QED  BY <3>1, OtherJobs DEF QuietInv
  <2> QED  BY <1>1, <2>1, <2>2 DEF QuietInv
<1> QED  BY <1>2, <1>3, <1>4, <1>5, <1>6 DEF Next

(* Two messages of a job are one with its id and one without: the first has  *)
(* failed for good if there is the second, so only one of them ends well.    *)
LEMMA DoneOnce == QuietInv => DoneAtMostOnce
<1> SUFFICES ASSUME QuietInv, NEW j \in Jobs
             PROVE  Cardinality({m \in done : message[m].job = j}) <= 1
  BY DEF DoneAtMostOnce
<1>1. JobOf(j) /\ DoneInv /\ \A m \in DOMAIN message : message[m].tagged \in BOOLEAN
  BY MessageFacts DEF QuietInv, TypesInv, TypeOK, MessagesOK, Message
<1>2. ASSUME NEW m \in done, NEW n \in done, message[m].job = j, message[n].job = j
      PROVE  m = n
  <2>1. /\ m \in Sent(j, message[m].tagged) /\ n \in Sent(j, message[n].tagged)
        /\ message[m].tagged \in BOOLEAN /\ message[n].tagged \in BOOLEAN
        /\ Stage(m) \notin {"rejecting", "dead"} /\ Stage(n) \notin {"rejecting", "dead"}
    BY <1>1, <1>2 DEF DoneInv, Sent
  <2>2. message[m].tagged = message[n].tagged
    BY <1>1, <2>1 DEF JobOf, MessagesOf
  <2> QED  BY <1>1, <2>1, <2>2 DEF JobOf, MessagesOf
<1>3. CASE {m \in done : message[m].job = j} = {}
  BY <1>3, FS_EmptySet
<1>4. CASE {m \in done : message[m].job = j} # {}
  <2>1. PICK m : {n \in done : message[n].job = j} = {m}
    BY <1>2, <1>4
  <2> QED  BY <2>1, FS_Singleton
<1> QED  BY <1>3, <1>4

(* While no connection, process or query fails, and one retryFailedJobs()    *)
(* runs at a time, helpers/queue.js runs no job to success a second time,    *)
(* however retries, refused publishes and the workers' handlers interleave.  *)
THEOREM JobsAreDoneOnce == Undisturbed => (Spec => []DoneAtMostOnce)
<1> SUFFICES ASSUME Undisturbed  PROVE Spec => []DoneAtMostOnce
  OBVIOUS
<1>1. QuietInv /\ [Next]_vars => QuietInv'
  BY QuietStep
<1> QED  BY <1>1, QuietInit, DoneOnce, PTL DEF Spec

(* Each step of the queue is one of a job's life, or leaves the table alone. *)
LEMMA LifecycleStep ==
  ASSUME Undisturbed, QuietInv, [Next]_vars
  PROVE  [Lifecycle!Next]_(Lifecycle!vars)
<1>1. /\ status \in [Jobs -> {"absent", "pending", "processing", "completed", "failed"}]
      /\ attempts \in [Jobs -> Nat]
      /\ retrier \in [Retriers -> Call]
      /\ \A k \in Jobs : JobOf(k)
      /\ JobInHand
  BY DEF QuietInv, TypesInv, TypeOK, Call
<1>2. ~Fault("database") /\ ~Fault("senderCrash") /\ ~Fault("backpressure")
  BY QuietFaults
<1>3. ASSUME UNCHANGED <<status, attempts>>
      PROVE  [Lifecycle!Next]_(Lifecycle!vars)
  BY <1>3 DEF Lifecycle!vars
<1>4. ASSUME NEW j \in Jobs, NEW from, NEW to, status[j] \in from, SetStatus(j, to)
      PROVE  Lifecycle!Move(j, from, to)
  BY <1>4 DEF Lifecycle!Move, SetStatus
<1>5. ASSUME NEW j \in Jobs, SenderStep(j) \/ SenderCrash(j)
      PROVE  [Lifecycle!Next]_(Lifecycle!vars)
  <2>1. CASE Insert(j)
    <3>1. status[j] \in {"absent"} /\ SetStatus(j, "pending") /\ UNCHANGED attempts
      BY <1>1, <1>2, <2>1 DEF Insert, JobOf, SenderOf
    <3>2. Lifecycle!Create(j)
      BY <1>4, <3>1 DEF Lifecycle!Create
    <3> QED  BY <3>2 DEF Lifecycle!Next
  <2>2. CASE Send(j)
    BY <1>3, <2>2 DEF Send, dbVars
  <2>3. CASE RecordUnsent(j)
    <3>1. /\ status[j] \in {"pending", "processing"} /\ SetStatus(j, "failed")
          /\ UNCHANGED attempts
      BY <1>1, <1>2, <2>3 DEF RecordUnsent, UpdateJobStatus, JobOf, SenderOf
    <3>2. Lifecycle!Fail(j)
      BY <1>4, <3>1 DEF Lifecycle!Fail
    <3> QED  BY <3>2 DEF Lifecycle!Next
  <2>4. ~SenderCrash(j)
    BY <1>2 DEF SenderCrash
  <2> QED  BY <1>5, <2>1, <2>2, <2>3, <2>4 DEF SenderStep
<1>6. ASSUME NEW r \in Retriers, RetrierStep(r) \/ RetrierCrash(r)
      PROVE  [Lifecycle!Next]_(Lifecycle!vars)
  <2>1. CASE SelectFailed(r) \/ DataUnreadable(r) \/ Resend(r)
    BY <1>3, <2>1 DEF SelectFailed, DataUnreadable, Resend, dbVars
  <2>2. CASE MarkPending(r)
    <3>1. PICK j \in retrier[r].batch :
             SetStatus(j, "pending") /\ attempts' = [attempts EXCEPT ![j] = @ + 1]
      BY <1>2, <2>2 DEF MarkPending
    <3>2. retrier[r] \in Call
      BY <1>1
    <3>3. j \in Jobs
      BY <3>2 DEF Call
    <3>4. status[j] \in {"failed"} /\ attempts[j] < MaxAttempts
      BY <1>1, <3>3 DEF JobOf, RetriesOf
    <3>5. Lifecycle!Retry(j)
      BY <1>4, <3>1, <3>3, <3>4 DEF Lifecycle!Retry
    <3> QED  BY <3>3, <3>5 DEF Lifecycle!Next
  <2>3. CASE RevertToFailed(r)
    <3>1. PICK j : j = retrier[r].job
      OBVIOUS
    <3>2. /\ retrier[r].step \in {"unsent", "caught"}
          /\ SetStatus(j, "failed") /\ UNCHANGED attempts
      BY <1>2, <2>3, <3>1 DEF RevertToFailed
    <3>3. j \in Jobs
      BY <1>1, <3>1, <3>2 DEF JobInHand
    <3>4. status[j] \in {"pending", "processing"}
      BY <1>1, <3>1, <3>2, <3>3 DEF JobOf, RetriesOf
    <3>5. Lifecycle!Fail(j)
      BY <1>4, <3>2, <3>3, <3>4 DEF Lifecycle!Fail
    <3> QED  BY <3>3, <3>5 DEF Lifecycle!Next
  <2>4. ~RetrierCrash(r)
    BY <1>2 DEF RetrierCrash
  <2> QED  BY <1>6, <2>1, <2>2, <2>3, <2>4 DEF RetrierStep, RetrierContinues
<1>7. ASSUME NEW m \in Messages, NEW w \in Workers, Deliver(m, w) \/ HandlerNext(m, w)
      PROVE  [Lifecycle!Next]_(Lifecycle!vars)
  <2>1. m \in DOMAIN message /\ HandlerGoes(m) /\ UNCHANGED attempts
    BY <1>7, HandlerQuiet
  <2>2. PICK j \in Jobs : j = message[m].job
    BY <2>1, MessageFacts DEF QuietInv, TypesInv, TypeOK, MessagesOK, Message
  <2>3. \A s : Writes(m, s) => SetStatus(j, s) \/ UNCHANGED status
    BY <2>2 DEF Writes, SetStatus
  <2>4. CASE ~message[m].tagged
    <3>1. UNCHANGED status
      BY <2>1, <2>4 DEF HandlerGoes, Writes
    <3> QED  BY <1>3, <2>1, <3>1
  <2>5. CASE message[m].tagged
    <3>1. status[j] \in Shown(Stage(m))
      <4>1. message[m].tagged = TRUE
        BY <2>1, <2>5, MessageFacts DEF QuietInv, TypesInv, TypeOK, MessagesOK, Message
      <4> QED  BY <1>1, <2>1, <2>2, <4>1 DEF JobOf, MessagesOf, Sent
    <3>2. \/ UNCHANGED status
          \/ status[j] \in {"pending"} /\ SetStatus(j, "processing")
          \/ status[j] \in {"processing"} /\ SetStatus(j, "completed")
          \/ status[j] \in {"pending", "processing"} /\ SetStatus(j, "failed")
      BY <2>1, <2>3, <3>1, ShownFacts DEF HandlerGoes, Goes
    <3>3. \/ UNCHANGED status
          \/ Lifecycle!Start(j) \/ Lifecycle!Complete(j) \/ Lifecycle!Fail(j)
      BY <1>4, <2>1, <3>2 DEF Lifecycle!Start, Lifecycle!Complete, Lifecycle!Fail
    <3> QED  BY <1>3, <2>1, <3>3 DEF Lifecycle!Next
  <2> QED  BY <2>4, <2>5
<1>8. \A w \in Workers : ~ConnectionStep(w)
  BY ConnectionsRest
<1>9. CASE UNCHANGED vars
  BY <1>3, <1>9 DEF vars
<1> QED  BY <1>5, <1>6, <1>7, <1>8, <1>9 DEF Next

(* The jobs table goes through the documented life of a job and no other, as *)
(* long as nothing but a publish fails and one retryFailedJobs() runs at a   *)
(* time: no write of a sender, a handler or a retry undoes one made since it *)
(* read the row.                                                             *)
THEOREM LifecycleIsKept == Undisturbed => (Spec => ImplementsLifecycle)
<1> SUFFICES ASSUME Undisturbed  PROVE Spec => ImplementsLifecycle
  OBVIOUS
<1>1. Init => Lifecycle!Init
  BY DEF Init, Lifecycle!Init
<1>2. QuietInv /\ [Next]_vars => QuietInv'
  BY QuietStep
<1>3. QuietInv /\ [Next]_vars => [Lifecycle!Next]_(Lifecycle!vars)
  BY LifecycleStep
<1> QED  BY <1>1, <1>2, <1>3, QuietInit, PTL DEF Spec, ImplementsLifecycle, Lifecycle!Spec
=============================================================================
