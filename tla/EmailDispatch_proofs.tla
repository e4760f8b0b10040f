------------------------- MODULE EmailDispatch_proofs -------------------------
(* Theorems about EmailDispatch, for any mails, occasions and faults, while  *)
(* queries fail and the connection and the process go and come back at any   *)
(* time.                                                                     *)
EXTENDS EmailDispatch, TLAPS

-----------------------------------------------------------------------------
(* The inductive invariant *)

Callers == {"idle", "racing", "fallback"} \union Over

Operations == {"none", "inserting", "publishing", "recording", "true", "false"}

Statuses == {"none", "pending", "processing", "completed", "failed"}

HandlerSteps == {"none", "received", "sending", "sent", "recorded", "failing", "rejecting"}

Consumers == {"down", "consuming", "gone"}

TypeOK ==
    /\ occasion \in Occasions
    /\ connected \in BOOLEAN
    /\ caller \in [Mails -> Callers]
    /\ op \in [Mails -> Operations]
    /\ jobs \in [Mails -> Statuses]
    /\ at \in [Mails -> Places]
    /\ consumer \in Consumers
    /\ handler \in [Mails -> HandlerSteps]
    /\ inbox \in [Mails -> Nat]
    /\ faults \in 0..MaxFaults
    /\ deaths \in Nat
    /\ unrecorded \subseteq Mails

(* Before it is published or sent, a mail is nowhere.                        *)
Fresh(c, o, j, p, i) ==
    /\ c = "idle" => j = "none"
    /\ c \in {"idle", "fallback"} => o = "none"
    /\ c \in {"idle", "fallback"} \/ o \in {"inserting", "publishing"} => p = "none" /\ i = 0
    /\ o \in {"inserting", "publishing", "recording"} => c \in {"racing", "thrown"}

(* A handler has its message on a channel that consumes; or it was left over *)
(* from one that was lost, after which nobody consumes.                      *)
Placed(p, h, k) ==
    /\ p = "held" => k = "consuming" /\ h # "none"
    /\ h # "none" => p = "held" \/ (p = "queued" /\ k = "gone")

(* Each death of the process costs at most one more delivery: a mail that    *)
(* may yet be sent was delivered no more often than that.                    *)
Counted(p, h, i, d, k) ==
    /\ i <= d + 1
    /\ h \in {"received", "sending"} => i <= d
    /\ p \in {"buffered", "queued", "held"} /\ k # "gone" /\ h = "none" => i <= d

(* What was reported as sent or settled is accounted for.                    *)
Reported(c, o, j, p, h, i, u) ==
    /\ h \in {"sent", "recorded"} => i > 0
    /\ p = "acked" \/ j = "completed" => i > 0
    /\ h = "rejecting" \/ p = "dead" => j = "failed" \/ u
    /\ c = "success" \/ o = "true" => p # "none" \/ i > 0

(* What holds of a mail with caller c, operation o, row j, place p, handler  *)
(* h and i deliveries, unrecorded or not, after d deaths, with consumer k.   *)
Good(c, o, j, p, h, i, u, d, k) ==
    Fresh(c, o, j, p, i) /\ Placed(p, h, k) /\ Counted(p, h, i, d, k) /\ Reported(c, o, j, p, h, i, u)

MailOK(m) ==
    Good(caller[m], op[m], jobs[m], at[m], handler[m], inbox[m], m \in unrecorded, deaths, consumer)

Inv ==
    /\ TypeOK
    /\ consumer = "consuming" => connected
    /\ \A m \in Mails : MailOK(m)

-----------------------------------------------------------------------------
(* Steps that touch one mail *)

(* f is g, but for its value at m, which is v.                               *)
Becomes(f, g, m, v) == g = [f EXCEPT ![m] = v] \/ (g = f /\ v = f[m])

LEMMA FaultsCount ==
  ASSUME TypeOK, UNCHANGED faults \/ Fault
  PROVE  faults' \in 0..MaxFaults
BY EmailAssumption DEF TypeOK, Fault

(* The state of the mail that a step touches is good again, and the others   *)
(* are as they were.                                                         *)
LEMMA Touched ==
  ASSUME Inv, NEW m \in Mails,
         NEW c \in Callers, NEW o \in Operations, NEW j \in Statuses,
         NEW p \in Places, NEW h \in HandlerSteps, NEW i \in Nat,
         Becomes(caller, caller', m, c), Becomes(op, op', m, o), Becomes(jobs, jobs', m, j),
         Becomes(at, at', m, p), Becomes(handler, handler', m, h), Becomes(inbox, inbox', m, i),
         unrecorded' \in {unrecorded, unrecorded \union {m}},
         UNCHANGED <<occasion, connected, consumer, deaths>>,
         UNCHANGED faults \/ Fault,
         Good(c, o, j, p, h, i, m \in unrecorded', deaths, consumer)
  PROVE  Inv'
<1>1. /\ TypeOK
      /\ caller \in [Mails -> Callers] /\ op \in [Mails -> Operations]
      /\ jobs \in [Mails -> Statuses] /\ at \in [Mails -> Places]
      /\ handler \in [Mails -> HandlerSteps] /\ inbox \in [Mails -> Nat]
  BY DEF Inv, TypeOK
<1>2. /\ caller' \in [Mails -> Callers] /\ caller'[m] = c
      /\ \A n \in Mails : n # m => caller'[n] = caller[n]
  BY <1>1 DEF Becomes
<1>3. /\ op' \in [Mails -> Operations] /\ op'[m] = o
      /\ \A n \in Mails : n # m => op'[n] = op[n]
  BY <1>1 DEF Becomes
<1>4. /\ jobs' \in [Mails -> Statuses] /\ jobs'[m] = j
      /\ \A n \in Mails : n # m => jobs'[n] = jobs[n]
  BY <1>1 DEF Becomes
<1>5. /\ at' \in [Mails -> Places] /\ at'[m] = p
      /\ \A n \in Mails : n # m => at'[n] = at[n]
  BY <1>1 DEF Becomes
<1>6. /\ handler' \in [Mails -> HandlerSteps] /\ handler'[m] = h
      /\ \A n \in Mails : n # m => handler'[n] = handler[n]
  BY <1>1 DEF Becomes
<1>7. /\ inbox' \in [Mails -> Nat] /\ inbox'[m] = i
      /\ \A n \in Mails : n # m => inbox'[n] = inbox[n]
  BY <1>1 DEF Becomes
<1>8. TypeOK'
  BY <1>1, <1>2, <1>3, <1>4, <1>5, <1>6, <1>7, FaultsCount DEF TypeOK
<1>9. deaths' = deaths /\ consumer' = consumer /\ connected' = connected
  OBVIOUS
<1>10. ASSUME NEW n \in Mails, n # m  PROVE MailOK(n)'
  <2>1. MailOK(n)
    BY DEF Inv
  <2>2. n \in unrecorded' <=> n \in unrecorded
    BY <1>10
  <2>3. /\ caller'[n] = caller[n] /\ op'[n] = op[n] /\ jobs'[n] = jobs[n]
        /\ at'[n] = at[n] /\ handler'[n] = handler[n] /\ inbox'[n] = inbox[n]
    BY <1>2, <1>3, <1>4, <1>5, <1>6, <1>7, <1>10
  <2> QED  BY <1>9, <2>1, <2>2, <2>3 DEF MailOK, Good, Fresh, Placed, Counted, Reported
<1>11. MailOK(m)'
  BY <1>2, <1>3, <1>4, <1>5, <1>6, <1>7, <1>9 DEF MailOK, Good, Fresh, Placed, Counted, Reported
<1> QED  BY <1>8, <1>9, <1>10, <1>11 DEF Inv

(* The values before a step, and what is known of them.                      *)
LEMMA Before ==
  ASSUME Inv, NEW m \in Mails
  PROVE  /\ caller[m] \in Callers /\ op[m] \in Operations /\ jobs[m] \in Statuses
         /\ at[m] \in Places /\ handler[m] \in HandlerSteps /\ inbox[m] \in Nat
         /\ deaths \in Nat /\ consumer \in Consumers
         /\ Good(caller[m], op[m], jobs[m], at[m], handler[m], inbox[m], m \in unrecorded,
                 deaths, consumer)
BY DEF Inv, TypeOK, MailOK

LEMMA SendStep ==
  ASSUME Inv, NEW m \in Mails, sendEmailSmart(m)
  PROVE  Inv'
<1>1. /\ caller[m] = "idle"
      /\ UNCHANGED <<occasion, connected, jobs, at, consumer, handler, unrecorded, inbox, faults, deaths>>
  BY DEF sendEmailSmart, workerVars
<1>2. op[m] = "none" /\ at[m] = "none" /\ inbox[m] = 0 /\ jobs[m] = "none"
  BY <1>1, Before DEF Good, Fresh
<1>3. PICK c \in {"racing", "fallback"}, o \in {"inserting", "none"} :
         /\ Becomes(caller, caller', m, c) /\ Becomes(op, op', m, o)
         /\ c = "racing" <=> o = "inserting"
  <2>1. CASE connected
    BY <2>1 DEF sendEmailSmart, queueOTPEmail, queueWelcomeEmail, Becomes
  <2>2. CASE ~connected
    BY <1>2, <2>2 DEF sendEmailSmart, Becomes
  <2> QED  BY <2>1, <2>2
<1>4. /\ c \in Callers /\ o \in Operations
      /\ Becomes(jobs, jobs', m, jobs[m]) /\ Becomes(at, at', m, at[m])
      /\ Becomes(handler, handler', m, handler[m]) /\ Becomes(inbox, inbox', m, inbox[m])
  BY <1>1 DEF Callers, Operations, Becomes
<1>5. Good(c, o, jobs[m], at[m], handler[m], inbox[m], m \in unrecorded', deaths, consumer)
  BY <1>1, <1>2, <1>3, Before DEF Good, Fresh, Placed, Counted, Reported
<1> QED  BY <1>1, <1>3, <1>4, <1>5, Before, Touched

(* What sendEmailSmart() returns or throws.                                  *)
LEMMA ReturnStep ==
  ASSUME Inv, NEW m \in Mails, QueueSettles(m) \/ Timeout(m)
  PROVE  Inv'
<1>1. /\ caller[m] = "racing"
      /\ UNCHANGED <<occasion, connected, op, jobs, at, consumer, handler, unrecorded, inbox,
                     faults, deaths>>
  BY DEF QueueSettles, Timeout, workerVars
<1>2. PICK c \in {"success", "failed", "thrown"} :
         /\ Becomes(caller, caller', m, c)
         /\ c = "success" => op[m] = "true"
         /\ c \in {"success", "failed"} => op[m] \in {"true", "false"}
  <2>1. CASE QueueSettles(m) /\ op[m] = "true"
    BY <2>1 DEF QueueSettles, Becomes
  <2>2. CASE QueueSettles(m) /\ op[m] # "true"
    BY <2>2 DEF QueueSettles, Becomes
  <2>3. CASE Timeout(m)
    BY <2>3 DEF Timeout, Becomes
  <2> QED  BY <2>1, <2>2, <2>3
<1>3. /\ c \in Callers
      /\ Becomes(op, op', m, op[m]) /\ Becomes(jobs, jobs', m, jobs[m]) /\ Becomes(at, at', m, at[m])
      /\ Becomes(handler, handler', m, handler[m]) /\ Becomes(inbox, inbox', m, inbox[m])
  BY <1>1 DEF Callers, Over, Becomes
<1>4. Good(c, op[m], jobs[m], at[m], handler[m], inbox[m], m \in unrecorded', deaths, consumer)
  BY <1>1, <1>2, Before DEF Good, Fresh, Placed, Counted, Reported
<1> QED  BY <1>1, <1>2, <1>3, <1>4, Before, Touched

(* fallbackToSyncEmail(): a mail that is nowhere else is sent.               *)
LEMMA FallbackStep ==
  ASSUME Inv, NEW m \in Mails, fallbackToSyncEmail(m)
  PROVE  Inv'
<1>1. /\ caller[m] = "fallback"
      /\ UNCHANGED <<occasion, connected, op, jobs, at, consumer, handler, unrecorded, deaths>>
      /\ UNCHANGED faults \/ Fault
  BY DEF fallbackToSyncEmail, SendNow, workerVars
<1>2. op[m] = "none" /\ at[m] = "none" /\ inbox[m] = 0 /\ handler[m] = "none"
  BY <1>1, Before DEF Good, Fresh, Placed
<1>3. PICK c \in {"success", "failed"}, i \in {0, 1} :
         /\ Becomes(caller, caller', m, c) /\ Becomes(inbox, inbox', m, i)
         /\ c = "success" => i > 0
  BY <1>2 DEF fallbackToSyncEmail, SendNow, Becomes
<1>4. /\ c \in Callers /\ i \in Nat
      /\ Becomes(op, op', m, op[m]) /\ Becomes(jobs, jobs', m, jobs[m]) /\ Becomes(at, at', m, at[m])
      /\ Becomes(handler, handler', m, handler[m])
  BY <1>1 DEF Callers, Over, Becomes
<1>5. Good(c, op[m], jobs[m], at[m], handler[m], i, m \in unrecorded', deaths, consumer)
  BY <1>1, <1>2, <1>3, Before DEF Good, Fresh, Placed, Counted, Reported
<1> QED  BY <1>1, <1>3, <1>4, <1>5, Before, Touched

(* sendToQueue(), and the broker that takes what it has published.           *)
LEMMA QueueStep ==
  ASSUME Inv, NEW m \in Mails,
         InsertJob(m) \/ PublishMail(m) \/ RecordUnpublished(m) \/ BrokerTakes(m)
  PROVE  Inv'
<1>1. /\ UNCHANGED <<occasion, connected, caller, consumer, handler, unrecorded, inbox, deaths>>
      /\ UNCHANGED faults \/ Fault
  BY DEF InsertJob, PublishMail, RecordUnpublished, BrokerTakes, updateJobStatus, workerVars, callerVars
<1>2. ASSUME NEW o \in Operations, NEW j \in Statuses, NEW p \in Places,
             Becomes(op, op', m, o), Becomes(jobs, jobs', m, j), Becomes(at, at', m, p),
             Good(caller[m], o, j, p, handler[m], inbox[m], m \in unrecorded', deaths, consumer)
      PROVE  Inv'
  <2>1. /\ Becomes(caller, caller', m, caller[m]) /\ Becomes(handler, handler', m, handler[m])
        /\ Becomes(inbox, inbox', m, inbox[m])
    BY <1>1 DEF Becomes
  <2> QED  BY <1>1, <1>2, <2>1, Before, Touched
<1>3. \A s \in {"publishing", "recording", "true", "false"} : s \in Operations
  BY DEF Operations
<1>4. CASE InsertJob(m)
  <2>1. PICK o \in {"publishing", "false"}, j \in {"pending", jobs[m]} :
           Becomes(op, op', m, o) /\ Becomes(jobs, jobs', m, j) /\ Becomes(at, at', m, at[m])
    BY <1>4 DEF InsertJob, Becomes
  <2>2. op[m] = "inserting" /\ j \in Statuses
    BY <1>4, Before DEF InsertJob, Statuses
  <2>3. Good(caller[m], o, j, at[m], handler[m], inbox[m], m \in unrecorded', deaths, consumer)
    BY <1>1, <2>2, Before DEF Good, Fresh, Placed, Counted, Reported
  <2> QED  BY <1>2, <1>3, <2>1, <2>2, <2>3, Before
<1>5. CASE PublishMail(m)
  <2>1. PICK o \in {"true", "recording"}, p \in {"buffered", at[m]} :
           /\ Becomes(op, op', m, o) /\ Becomes(jobs, jobs', m, jobs[m]) /\ Becomes(at, at', m, p)
           /\ o = "true" => p = "buffered"
    BY <1>5 DEF PublishMail, Becomes
  <2>2. op[m] = "publishing" /\ p \in Places
    BY <1>5, Before DEF PublishMail, Places
  <2>3. Good(caller[m], o, jobs[m], p, handler[m], inbox[m], m \in unrecorded', deaths, consumer)
    BY <1>1, <2>1, <2>2, Before DEF Good, Fresh, Placed, Counted, Reported
  <2> QED  BY <1>2, <1>3, <2>1, <2>2, <2>3, Before
<1>6. CASE RecordUnpublished(m)
  <2>1. PICK j \in {"failed", jobs[m]} :
           Becomes(op, op', m, "false") /\ Becomes(jobs, jobs', m, j) /\ Becomes(at, at', m, at[m])
    BY <1>6 DEF RecordUnpublished, updateJobStatus, Becomes
  <2>2. op[m] = "recording" /\ j \in Statuses
    BY <1>6, Before DEF RecordUnpublished, Statuses
  <2>3. Good(caller[m], "false", j, at[m], handler[m], inbox[m], m \in unrecorded', deaths, consumer)
    BY <1>1, <2>2, Before DEF Good, Fresh, Placed, Counted, Reported
  <2> QED  BY <1>2, <1>3, <2>1, <2>2, <2>3, Before
<1>7. CASE BrokerTakes(m)
  <2>1. /\ Becomes(op, op', m, op[m]) /\ Becomes(jobs, jobs', m, jobs[m])
        /\ Becomes(at, at', m, "queued") /\ at[m] = "buffered"
    BY <1>7 DEF BrokerTakes, callerVars, Becomes
  <2>2. "queued" \in Places
    BY DEF Places
  <2>3. Good(caller[m], op[m], jobs[m], "queued", handler[m], inbox[m], m \in unrecorded',
             deaths, consumer)
    BY <1>1, <2>1, Before DEF Good, Fresh, Placed, Counted, Reported
  <2> QED  BY <1>2, <2>1, <2>2, <2>3, Before
<1> QED  BY <1>4, <1>5, <1>6, <1>7

(* Steps of a handler that loses neither its connection nor its process.     *)
LEMMA HandlerTouches ==
  ASSUME Inv, NEW m \in Mails,
         NEW j \in Statuses, NEW p \in Places, NEW h \in HandlerSteps, NEW i \in Nat,
         Becomes(jobs, jobs', m, j), Becomes(at, at', m, p), Step(m, h), Becomes(inbox, inbox', m, i),
         unrecorded' \in {unrecorded, unrecorded \union {m}},
         UNCHANGED <<callerVars, connected, consumer, deaths>>,
         UNCHANGED faults \/ Fault,
         Good(caller[m], op[m], j, p, h, i, m \in unrecorded', deaths, consumer)
  PROVE  Inv'
<1>1. /\ Becomes(caller, caller', m, caller[m]) /\ Becomes(op, op', m, op[m])
      /\ Becomes(handler, handler', m, h)
      /\ UNCHANGED <<occasion, connected, consumer, deaths>>
  BY DEF Step, Becomes, callerVars
<1> QED  BY <1>1, Before, Touched

LEMMA HandlerStepFacts ==
  \A s \in {"none", "received", "sending", "sent", "recorded", "failing", "rejecting"} :
     s \in HandlerSteps
BY DEF HandlerSteps

LEMMA DeliverStep ==
  ASSUME Inv, NEW m \in Mails, Deliver(m)
  PROVE  Inv'
<1>1. /\ at[m] = "queued" /\ consumer = "consuming"
      /\ Becomes(at, at', m, "held") /\ Step(m, "received")
      /\ Becomes(jobs, jobs', m, jobs[m]) /\ Becomes(inbox, inbox', m, inbox[m])
      /\ UNCHANGED <<callerVars, connected, consumer, deaths>>
      /\ UNCHANGED faults /\ UNCHANGED unrecorded
  BY DEF Deliver, Becomes
<1>2. "held" \in Places
  BY DEF Places
<1>3. Good(caller[m], op[m], jobs[m], "held", "received", inbox[m], m \in unrecorded', deaths, consumer)
  BY <1>1, Before DEF Good, Fresh, Placed, Counted, Reported
<1> QED  BY <1>1, <1>2, <1>3, Before, HandlerStepFacts, HandlerTouches

LEMMA RecordStep ==
  ASSUME Inv, NEW m \in Mails, RecordProcessing(m) \/ RecordCompleted(m) \/ RecordFailed(m)
  PROVE  Inv'
<1>1. /\ Becomes(at, at', m, at[m]) /\ Becomes(inbox, inbox', m, inbox[m])
      /\ UNCHANGED <<callerVars, connected, consumer, deaths>>
      /\ UNCHANGED faults \/ Fault
      /\ unrecorded' \in {unrecorded, unrecorded \union {m}}
  BY DEF RecordProcessing, RecordCompleted, RecordFailed, updateJobStatus, Becomes
<1>2. PICK j \in {"processing", "completed", "failed", jobs[m]},
           h \in {"sending", "recorded", "rejecting"} :
         /\ Becomes(jobs, jobs', m, j) /\ Step(m, h)
         /\ h = "sending" => handler[m] = "received" /\ j \in {"processing", jobs[m]}
         /\ h = "recorded" => handler[m] = "sent" /\ j \in {"completed", jobs[m]}
         /\ h = "rejecting" => /\ handler[m] = "failing" /\ j \in {"failed", jobs[m]}
                               /\ j = "failed" \/ m \in unrecorded'
  <2>1. CASE RecordProcessing(m)
    BY <2>1 DEF RecordProcessing, updateJobStatus, Becomes
  <2>2. CASE RecordCompleted(m)
    BY <2>2 DEF RecordCompleted, updateJobStatus, Becomes
  <2>3. CASE RecordFailed(m)
    BY <2>3 DEF RecordFailed, Becomes
  <2> QED  BY <2>1, <2>2, <2>3
<1>3. j \in Statuses /\ h \in HandlerSteps
  BY <1>2, Before DEF Statuses, HandlerSteps
<1>4. handler[m] # "none" /\ (m \in unrecorded => m \in unrecorded')
  BY <1>1, <1>2
<1>5. Good(caller[m], op[m], j, at[m], h, inbox[m], m \in unrecorded', deaths, consumer)
  <2>1. Fresh(caller[m], op[m], j, at[m], inbox[m])
    BY <1>4, Before DEF Good, Fresh, Placed
  <2>2. Placed(at[m], h, consumer)
    BY <1>2, <1>4, Before DEF Good, Placed
  <2>3. Counted(at[m], h, inbox[m], deaths, consumer)
    BY <1>2, Before DEF Good, Counted
  <2>4. Reported(caller[m], op[m], j, at[m], h, inbox[m], m \in unrecorded')
    BY <1>2, <1>4, Before DEF Good, Placed, Reported
  <2> QED  BY <2>1, <2>2, <2>3, <2>4 DEF Good
<1> QED  BY <1>1, <1>2, <1>3, <1>5, Before, HandlerTouches

(* The SMTP server answers: a first delivery, or one more after a death.     *)
LEMMA SmtpStep ==
  ASSUME Inv, NEW m \in Mails, SmtpAnswers(m)
  PROVE  Inv'
<1>1. /\ handler[m] = "sending" /\ inbox[m] \in Nat
      /\ Becomes(jobs, jobs', m, jobs[m]) /\ Becomes(at, at', m, at[m])
      /\ UNCHANGED <<callerVars, connected, consumer, deaths>>
      /\ UNCHANGED faults \/ Fault
      /\ UNCHANGED unrecorded
  BY Before DEF SmtpAnswers, Becomes
<1>2. PICK i \in {inbox[m], inbox[m] + 1}, h \in {"sent", "failing"} :
         /\ Becomes(inbox, inbox', m, i) /\ Step(m, h)
         /\ h = "sent" => i = inbox[m] + 1
  BY DEF SmtpAnswers, Becomes
<1>3. i \in Nat /\ h \in HandlerSteps /\ i >= inbox[m] /\ i <= inbox[m] + 1
  BY <1>1, <1>2 DEF HandlerSteps
<1>4. inbox[m] <= deaths /\ at[m] \in {"held", "queued"} /\ deaths \in Nat
  BY <1>1, Before DEF Good, Counted, Placed
<1>5. i <= deaths + 1 /\ (h = "sent" => i > 0) /\ (inbox[m] > 0 => i > 0)
  BY <1>1, <1>2, <1>3, <1>4
<1>6. Good(caller[m], op[m], jobs[m], at[m], h, i, m \in unrecorded', deaths, consumer)
  <2>1. Fresh(caller[m], op[m], jobs[m], at[m], i)
    BY <1>4, Before DEF Good, Fresh
  <2>2. Placed(at[m], h, consumer)
    BY <1>1, <1>2, Before DEF Good, Placed
  <2>3. Counted(at[m], h, i, deaths, consumer)
    BY <1>2, <1>5 DEF Counted
  <2>4. Reported(caller[m], op[m], jobs[m], at[m], h, i, m \in unrecorded')
    BY <1>1, <1>2, <1>4, <1>5, Before DEF Good, Reported
  <2> QED  BY <2>1, <2>2, <2>3, <2>4 DEF Good
<1> QED  BY <1>1, <1>2, <1>3, <1>6, Before, HandlerTouches

-----------------------------------------------------------------------------
(* Steps of the connection and of the process *)

LEMMA LossFacts ==
  ASSUME NEW p \in Places
  PROVE  /\ AfterLoss(p) \in Places
         /\ AfterLoss(p) # "held"
         /\ p # "held" => AfterLoss(p) = p \/ (p = "buffered" /\ AfterLoss(p) = "lost")
         /\ p = "held" => AfterLoss(p) = "queued"
BY DEF AfterLoss, Places

(* The consumer changes, and with it where messages are: what must hold for  *)
(* every mail to be good still.                                              *)
LEMMA WorldStep ==
  ASSUME Inv,
         UNCHANGED <<callerVars, jobs, inbox, deaths, unrecorded>>,
         UNCHANGED faults \/ Fault,
         connected' \in BOOLEAN, consumer' \in Consumers,
         consumer' = "consuming" => connected',
         handler' \in [Mails -> HandlerSteps], at' \in [Mails -> Places],
         \A m \in Mails : handler'[m] \in {handler[m], "none"},
         \A m \in Mails : at'[m] \in {at[m], AfterLoss(at[m])},
         \A m \in Mails : Placed(at'[m], handler'[m], consumer'),
         \A m \in Mails : Counted(at'[m], handler'[m], inbox[m], deaths, consumer')
  PROVE  Inv'
<1>1. TypeOK /\ UNCHANGED <<occasion, caller, op>>
  BY DEF Inv, callerVars
<1>2. TypeOK'
  BY <1>1, FaultsCount DEF TypeOK
<1>3. ASSUME NEW m \in Mails  PROVE MailOK(m)'
  <2>1. /\ caller'[m] = caller[m] /\ op'[m] = op[m] /\ jobs'[m] = jobs[m] /\ inbox'[m] = inbox[m]
        /\ deaths' = deaths /\ unrecorded' = unrecorded
        /\ handler'[m] \in {handler[m], "none"}
    BY <1>1
  <2>2. /\ at'[m] = "none" <=> at[m] = "none"
        /\ at'[m] = "dead" <=> at[m] = "dead"
        /\ at'[m] = "acked" <=> at[m] = "acked"
    BY Before, LossFacts
  <2>3. Fresh(caller[m], op[m], jobs[m], at'[m], inbox[m])
    BY <2>2, Before DEF Good, Fresh
  <2>4. Reported(caller[m], op[m], jobs[m], at'[m], handler'[m], inbox[m], m \in unrecorded)
    BY <2>1, <2>2, Before DEF Good, Reported
  <2>5. Placed(at'[m], handler'[m], consumer') /\ Counted(at'[m], handler'[m], inbox[m], deaths, consumer')
    OBVIOUS
  <2>6. Good(caller[m], op[m], jobs[m], at'[m], handler'[m], inbox[m], m \in unrecorded, deaths, consumer')
    BY <2>3, <2>4, <2>5 DEF Good
  <2> QED  BY <2>1, <2>6 DEF MailOK
<1> QED  BY <1>2, <1>3 DEF Inv

(* start() and connect(): no handler runs before the consumer is registered. *)
LEMMA StartStep ==
  ASSUME Inv, start \/ Connect
  PROVE  Inv'
<1>1. /\ UNCHANGED <<callerVars, jobs, inbox, deaths, unrecorded>>
      /\ UNCHANGED faults \/ Fault
      /\ UNCHANGED handler /\ UNCHANGED at
  BY DEF start, Connect, workerVars
<1>2. /\ handler' \in [Mails -> HandlerSteps] /\ at' \in [Mails -> Places]
      /\ connected' \in BOOLEAN /\ consumer' \in Consumers
      /\ consumer' = "consuming" => connected'
  BY <1>1 DEF Inv, TypeOK, start, Connect, workerVars, Consumers
<1>3. consumer' = consumer \/ consumer = "down"
  BY DEF start, Connect, workerVars
<1>4. ASSUME NEW m \in Mails
      PROVE  Placed(at'[m], handler'[m], consumer') /\ Counted(at'[m], handler'[m], inbox[m], deaths, consumer')
  BY <1>1, <1>3, Before DEF Good, Placed, Counted
<1> QED  BY <1>1, <1>2, <1>4, WorldStep

(* The connection goes, with or without a handler that has just found out.   *)
LEMMA LossStep ==
  ASSUME Inv, ConnectionGoes, UNCHANGED <<callerVars, jobs, inbox, deaths, unrecorded>>,
         UNCHANGED faults \/ Fault,
         \/ UNCHANGED handler
         \/ consumer = "gone" /\ \E m \in Mails : handler' = [handler EXCEPT ![m] = "none"]
  PROVE  Inv'
<1>1. /\ handler \in [Mails -> HandlerSteps] /\ at \in [Mails -> Places] /\ consumer \in Consumers
  BY DEF Inv, TypeOK
<1>2. /\ at' = [m \in Mails |-> AfterLoss(at[m])]
      /\ consumer' \in Consumers /\ consumer' # "consuming" /\ connected' = FALSE
      /\ consumer' = "gone" \/ (consumer' = "down" /\ consumer = "down")
  BY <1>1 DEF ConnectionGoes, Consumers
<1>3. at' \in [Mails -> Places]
  BY <1>1, <1>2, LossFacts
<1>4. handler' \in [Mails -> HandlerSteps] /\ \A m \in Mails : handler'[m] \in {handler[m], "none"}
  BY <1>1 DEF HandlerSteps
<1>5. consumer = "down" => UNCHANGED handler
  OBVIOUS
<1>6. ASSUME NEW m \in Mails
      PROVE  Placed(at'[m], handler'[m], consumer') /\ Counted(at'[m], handler'[m], inbox[m], deaths, consumer')
  <2>1. at[m] \in Places /\ at'[m] = AfterLoss(at[m])
    BY <1>1, <1>2
  <2>2. handler[m] # "none" => at[m] \in {"held", "queued"} /\ consumer # "down"
    BY Before DEF Good, Placed
  <2>3. at[m] = "held" => consumer = "consuming"
    BY Before DEF Good, Placed
  <2>4. Placed(at'[m], handler'[m], consumer')
    BY <1>2, <1>4, <2>1, <2>2, LossFacts DEF Placed
  <2>5. Counted(at'[m], handler'[m], inbox[m], deaths, consumer')
    <3>1. inbox[m] <= deaths + 1 /\ (handler'[m] \in {"received", "sending"} => inbox[m] <= deaths)
      BY <1>4, Before DEF Good, Counted
    <3>2. CASE consumer' = "gone"
      BY <3>1, <3>2 DEF Counted
    <3>3. CASE consumer' = "down" /\ consumer = "down"
      <4>1. handler[m] = "none" /\ at[m] # "held"
        BY <2>2, <2>3, <3>3
      <4>2. at'[m] \in {"buffered", "queued", "held"} => at[m] \in {"buffered", "queued", "held"}
        BY <2>1, <4>1, LossFacts
      <4> QED  BY <3>1, <3>3, <4>1, <4>2, Before DEF Good, Counted
    <3> QED  BY <1>2, <3>2, <3>3
  <2> QED  BY <2>4, <2>5
<1>7. \A m \in Mails : at'[m] = AfterLoss(at[m])
  BY <1>2
<1> QED  BY <1>2, <1>3, <1>4, <1>6, <1>7, WorldStep

(* A handler that settles on a later channel, whose connection stays.        *)
LEMMA TooLateStep ==
  ASSUME Inv, NEW m \in Mails, consumer = "gone", Step(m, "none"),
         UNCHANGED <<callerVars, jobs, inbox, deaths, unrecorded, connected, at, consumer, faults>>
  PROVE  Inv'
<1>1. /\ handler \in [Mails -> HandlerSteps] /\ at \in [Mails -> Places]
      /\ consumer \in Consumers /\ connected \in BOOLEAN
  BY DEF Inv, TypeOK
<1>2. handler' \in [Mails -> HandlerSteps] /\ \A n \in Mails : handler'[n] \in {handler[n], "none"}
  BY <1>1 DEF HandlerSteps, Step
<1>3. ASSUME NEW n \in Mails
      PROVE  Placed(at[n], handler'[n], consumer) /\ Counted(at[n], handler'[n], inbox[n], deaths, consumer)
  <2>1. at[n] # "held"
    BY Before DEF Good, Placed
  <2> QED  BY <1>2, <2>1, Before DEF Good, Placed, Counted
<1> QED  BY <1>1, <1>2, <1>3, WorldStep

(* The process dies: what its callers and handlers were at is over, and one  *)
(* more delivery of each mail is allowed.                                    *)
LEMMA DeathStep ==
  ASSUME Inv, ProcessDies, UNCHANGED faults \/ Fault
  PROVE  Inv'
<1>1. /\ TypeOK
      /\ UNCHANGED <<occasion, jobs, inbox, unrecorded>>
      /\ connected' = FALSE /\ consumer' = "down" /\ deaths' = deaths + 1
      /\ handler' = [m \in Mails |-> "none"]
      /\ at' = [m \in Mails |-> AfterLoss(at[m])]
      /\ op' = [m \in Mails |-> IF op[m] \in {"true", "false"} THEN op[m] ELSE "none"]
  BY DEF Inv, ProcessDies
<1>2. PICK dead \in SUBSET Mails :
         /\ caller' = [m \in Mails |-> IF m \in dead THEN "dead" ELSE caller[m]]
         /\ \A m \in Mails : caller[m] \in {"racing", "fallback"} => m \in dead
  <2> DEFINE started == \E m \in Range(occasion.upload) : caller[m] # "idle"
  <2> DEFINE d == {m \in Mails : \/ caller[m] \in {"racing", "fallback"}
                                 \/ caller[m] = "idle" /\ started /\ m \in Range(occasion.upload)}
  <2>1. caller' = [m \in Mails |-> IF m \in d THEN "dead" ELSE caller[m]]
    BY DEF ProcessDies
  <2> QED  BY <2>1
<1>3. /\ caller' \in [Mails -> Callers] /\ op' \in [Mails -> Operations]
      /\ at' \in [Mails -> Places] /\ handler' \in [Mails -> HandlerSteps]
  <2>1. /\ caller \in [Mails -> Callers] /\ op \in [Mails -> Operations]
        /\ at \in [Mails -> Places]
    BY <1>1 DEF TypeOK
  <2>2. "dead" \in Callers /\ "none" \in Operations /\ "none" \in HandlerSteps
    BY DEF Callers, Over, Operations, HandlerSteps
  <2>3. caller' \in [Mails -> Callers]
    BY <1>2, <2>1, <2>2
  <2>4. op' \in [Mails -> Operations]
    BY <1>1, <2>1, <2>2
  <2>5. at' \in [Mails -> Places] /\ handler' \in [Mails -> HandlerSteps]
    BY <1>1, <2>1, <2>2, LossFacts
  <2> QED  BY <2>3, <2>4, <2>5
<1>4. TypeOK'
  <2>1. connected' \in BOOLEAN /\ consumer' \in Consumers
    BY <1>1 DEF Consumers
  <2>2. deaths' \in Nat /\ faults' \in 0..MaxFaults
    BY <1>1, FaultsCount DEF TypeOK
  <2>3. /\ occasion' \in Occasions /\ jobs' \in [Mails -> Statuses]
        /\ inbox' \in [Mails -> Nat] /\ unrecorded' \subseteq Mails
    BY <1>1 DEF TypeOK
  <2> QED  BY <1>3, <2>1, <2>2, <2>3 DEF TypeOK
<1>5. ASSUME NEW m \in Mails  PROVE MailOK(m)'
  <2>1. /\ caller'[m] = "dead" \/ (caller'[m] = caller[m] /\ caller[m] \notin {"racing", "fallback"})
        /\ op'[m] = (IF op[m] \in {"true", "false"} THEN op[m] ELSE "none")
        /\ at'[m] = AfterLoss(at[m]) /\ handler'[m] = "none"
        /\ jobs'[m] = jobs[m] /\ inbox'[m] = inbox[m]
    BY <1>1, <1>2
  <2>2. /\ at'[m] = "none" <=> at[m] = "none"
        /\ at'[m] = "dead" <=> at[m] = "dead"
        /\ at'[m] = "acked" <=> at[m] = "acked"
        /\ at'[m] # "held"
    BY <2>1, Before, LossFacts
  <2>3. Fresh(caller'[m], op'[m], jobs[m], at'[m], inbox[m])
    BY <2>1, <2>2, Before DEF Good, Fresh
  <2>4. Placed(at'[m], "none", "down")
    BY <2>2 DEF Placed
  <2>5. Counted(at'[m], "none", inbox[m], deaths + 1, "down")
    BY Before DEF Good, Counted
  <2>6. Reported(caller'[m], op'[m], jobs[m], at'[m], "none", inbox[m], m \in unrecorded)
    BY <2>1, <2>2, Before DEF Good, Reported
  <2>7. Good(caller'[m], op'[m], jobs[m], at'[m], "none", inbox[m], m \in unrecorded, deaths + 1, "down")
    BY <2>3, <2>4, <2>5, <2>6 DEF Good
  <2> QED  BY <1>1, <2>1, <2>7 DEF MailOK
<1> QED  BY <1>1, <1>4, <1>5 DEF Inv

(* The message is settled, or the handler finds that it cannot be.           *)
LEMMA SettleStep ==
  ASSUME Inv, NEW m \in Mails, AckMail(m) \/ NackMail(m)
  PROVE  Inv'
<1>1. CASE ~connected /\ NackMail(m)
  <2>1. consumer # "consuming"
    BY <1>1 DEF Inv
  <2>2. ProcessDies /\ UNCHANGED faults
    BY <1>1, <2>1 DEF NackMail, SettledTooLate
  <2> QED  BY <2>2, DeathStep
<1>2. CASE /\ SettledTooLate /\ Step(m, "none")
           /\ UNCHANGED <<callerVars, jobs, inbox, faults, deaths, unrecorded>>
  <2>1. CASE ConnectionGoes
    BY <1>2, <2>1, LossStep DEF SettledTooLate, Step
  <2>2. CASE UNCHANGED <<connected, at, consumer>>
    BY <1>2, <2>2, TooLateStep DEF SettledTooLate
  <2> QED  BY <1>2, <2>1, <2>2 DEF SettledTooLate
<1>3. ASSUME NEW p \in {"acked", "dead", at[m]}, NEW h \in {"none", "failing"},
             Becomes(at, at', m, p), Step(m, h), handler[m] \in {"recorded", "rejecting"},
             UNCHANGED <<callerVars, connected, jobs, consumer, inbox, faults, deaths, unrecorded>>,
             h = "none" => consumer = "consuming" /\ p # at[m],
             h = "failing" => p = at[m],
             p = "acked" => handler[m] = "recorded",
             p = "dead" => handler[m] = "rejecting"
      PROVE  Inv'
  <2>1. p \in Places /\ h \in HandlerSteps
    BY Before DEF Places, HandlerSteps
  <2>2. Becomes(jobs, jobs', m, jobs[m]) /\ Becomes(inbox, inbox', m, inbox[m])
    BY <1>3 DEF Becomes
  <2>3. at[m] \in {"held", "queued"}
    BY <1>3, Before DEF Good, Placed
  <2>4. Fresh(caller[m], op[m], jobs[m], p, inbox[m])
    BY <2>3, Before DEF Good, Fresh
  <2>5. Placed(p, h, consumer)
    BY <1>3, <2>3, Before DEF Good, Placed
  <2>6. Counted(p, h, inbox[m], deaths, consumer)
    BY <1>3, Before DEF Good, Counted
  <2>7. Reported(caller[m], op[m], jobs[m], p, h, inbox[m], m \in unrecorded)
    BY <1>3, <2>3, Before DEF Good, Reported
  <2>8. Good(caller[m], op[m], jobs[m], p, h, inbox[m], m \in unrecorded', deaths, consumer)
    BY <1>3, <2>4, <2>5, <2>6, <2>7 DEF Good
  <2> QED  BY <1>3, <2>1, <2>2, <2>8, Before, HandlerTouches
<1>4. at[m] \in {"held", "queued"}
  BY Before DEF AckMail, NackMail, Good, Placed
<1>5. CASE AckMail(m)
  <2>1. CASE consumer = "consuming"
    <3>1. connected /\ ~SettledTooLate
      BY <2>1 DEF Inv, SettledTooLate
    <3>2. /\ Becomes(at, at', m, "acked") /\ Step(m, "none")
          /\ UNCHANGED <<callerVars, connected, jobs, consumer, inbox, faults, deaths, unrecorded>>
          /\ handler[m] = "recorded"
      BY <1>5, <3>1 DEF AckMail, Becomes
    <3> QED  BY <1>3, <1>4, <2>1, <3>2
  <2>2. CASE consumer # "consuming" /\ ~SettledTooLate
    <3>1. /\ Becomes(at, at', m, at[m]) /\ Step(m, "failing")
          /\ UNCHANGED <<callerVars, connected, jobs, consumer, inbox, faults, deaths, unrecorded>>
          /\ handler[m] = "recorded"
      BY <1>5, <2>2 DEF AckMail, Becomes
    <3> QED  BY <1>3, <1>4, <3>1
  <2>3. CASE consumer # "consuming" /\ SettledTooLate
    <3>1. connected
      BY <2>3 DEF SettledTooLate
    <3> QED  BY <1>2, <1>5, <2>3, <3>1 DEF AckMail
  <2> QED  BY <2>1, <2>2, <2>3
<1>6. CASE NackMail(m) /\ connected
  <2>1. CASE consumer = "consuming"
    <3>1. ~SettledTooLate
      BY <2>1 DEF SettledTooLate
    <3>2. /\ Becomes(at, at', m, "dead") /\ Step(m, "none")
          /\ UNCHANGED <<callerVars, connected, jobs, consumer, inbox, faults, deaths, unrecorded>>
          /\ handler[m] = "rejecting"
      BY <1>6, <3>1 DEF NackMail, Becomes
    <3> QED  BY <1>3, <1>4, <2>1, <3>2
  <2>2. CASE consumer # "consuming"
    BY <1>2, <1>6, <2>2 DEF NackMail
  <2> QED  BY <2>1, <2>2
<1> QED  BY <1>1, <1>5, <1>6

-----------------------------------------------------------------------------
(* The theorems *)

LEMMA InvInit == Init => Inv
<1> SUFFICES ASSUME Init  PROVE Inv
  OBVIOUS
<1>1. TypeOK
  <2>1. /\ "idle" \in Callers /\ "none" \in Operations /\ "none" \in Statuses
        /\ "none" \in Places /\ "none" \in HandlerSteps /\ "down" \in Consumers
    BY DEF Callers, Operations, Statuses, Places, HandlerSteps, Consumers
  <2>2. faults \in 0..MaxFaults /\ deaths \in Nat
    BY EmailAssumption DEF Init
  <2>3. /\ caller \in [Mails -> Callers] /\ op \in [Mails -> Operations]
        /\ jobs \in [Mails -> Statuses] /\ at \in [Mails -> Places]
    BY <2>1 DEF Init
  <2>4. handler \in [Mails -> HandlerSteps] /\ inbox \in [Mails -> Nat]
    BY <2>1 DEF Init
  <2>5. connected \in BOOLEAN /\ unrecorded \subseteq Mails
    BY DEF Init
  <2> QED  BY <2>1, <2>2, <2>3, <2>4, <2>5 DEF Init, TypeOK
<1>2. ASSUME NEW m \in Mails  PROVE MailOK(m)
  BY DEF Init, MailOK, Good, Fresh, Placed, Counted, Reported
<1> QED  BY <1>1, <1>2 DEF Init, Inv

LEMMA InvNext == Inv /\ [Next]_vars => Inv'
<1> SUFFICES ASSUME Inv, [Next]_vars  PROVE Inv'
  OBVIOUS
<1>1. ASSUME NEW m \in Mails, SendCode(m) \/ SendWelcome(m)  PROVE Inv'
  BY <1>1, SendStep DEF SendCode, SendWelcome
<1>2. ASSUME NEW m \in Mails, QueueSettles(m) \/ Timeout(m)  PROVE Inv'
  BY <1>2, ReturnStep
<1>3. ASSUME NEW m \in Mails, fallbackToSyncEmail(m)  PROVE Inv'
  BY <1>3, FallbackStep
<1>4. ASSUME NEW m \in Mails, InsertJob(m) \/ PublishMail(m) \/ RecordUnpublished(m) \/ BrokerTakes(m)
      PROVE  Inv'
  BY <1>4, QueueStep
<1>5. ASSUME NEW m \in Mails, Deliver(m)  PROVE Inv'
  BY <1>5, DeliverStep
<1>6. ASSUME NEW m \in Mails, HandlerStep(m)  PROVE Inv'
  BY <1>6, RecordStep, SmtpStep, SettleStep DEF HandlerStep, sendOTPEmail, sendWelcomeEmail
<1>7. ASSUME NEW i \in DOMAIN occasion.upload, SendNextWelcome(i)  PROVE Inv'
  <2>1. occasion.upload \in Seq(Welcomes)
    BY EmailAssumption DEF Inv, TypeOK
  <2>2. occasion.upload[i] \in Mails
    BY <2>1 DEF Mails
  <2> QED  BY <1>7, <2>2, SendStep DEF SendNextWelcome
<1>8. CASE start \/ Connect
  BY <1>8, StartStep
<1>9. CASE ConnectionLost
  BY <1>9, LossStep DEF ConnectionLost
<1>10. CASE ProcessKilled
  BY <1>10, DeathStep DEF ProcessKilled
<1>11. CASE UNCHANGED vars
  <2>1. TypeOK'
    BY <1>11 DEF Inv, vars, TypeOK
  <2>2. \A m \in Mails : MailOK(m)'
    BY <1>11 DEF Inv, vars, MailOK
  <2> QED  BY <1>11, <2>1, <2>2 DEF Inv, vars
<1> QED  BY <1>1, <1>2, <1>3, <1>4, <1>5, <1>6, <1>7, <1>8, <1>9, <1>10, <1>11 DEF Next

LEMMA InvHolds == Spec => []Inv
BY InvInit, InvNext, PTL DEF Spec

(* Callers, operations, rows, messages and handlers keep their types,        *)
(* whatever fails or dies.                                                   *)
THEOREM TypeCorrect == Spec => []TypeOK
<1>1. Inv => TypeOK
  BY DEF Inv
<1> QED  BY <1>1, InvHolds, PTL

(* A mail that sendEmailSmart() reported as sent was delivered, is on its    *)
(* way or has failed visibly, unless its message went down with the buffer   *)
(* of the connection or the UPDATE to failed was lost.                       *)
THEOREM MailsAreAccountedFor == Spec => []MailsLeaveATrace
<1>1. ASSUME Inv, NEW m \in Mails
      PROVE  /\ caller[m] = "success" =>
                   \/ inbox[m] > 0 \/ OnItsWay(m) \/ jobs[m] = "failed"
                   \/ at[m] = "lost"
                   \/ at[m] = "dead" /\ m \in unrecorded
             /\ at[m] = "dead" => jobs[m] = "failed" \/ m \in unrecorded
             /\ jobs[m] = "completed" \/ at[m] = "acked" => inbox[m] > 0
  <2>1. at[m] \in Places
    BY <1>1, Before
  <2>2. Reported(caller[m], op[m], jobs[m], at[m], handler[m], inbox[m], m \in unrecorded)
    BY <1>1, Before DEF Good
  <2> QED  BY <2>1, <2>2 DEF Reported, OnItsWay, Places
<1>2. Inv => MailsLeaveATrace
  BY <1>1 DEF MailsLeaveATrace
<1> QED  BY <1>2, InvHolds, PTL

(* Neither the race of the queue with its timeout nor a lost connection      *)
(* sends a mail twice: only a death of the process can.                      *)
THEOREM MailsAreSentOnce == Spec => []MailedOnce
<1>1. ASSUME Inv, NEW m \in Mails  PROVE inbox[m] <= 1 + deaths
  <2>1. inbox[m] \in Nat /\ deaths \in Nat /\ inbox[m] <= deaths + 1
    BY <1>1, Before DEF Good, Counted
  <2> QED  BY <2>1
<1>2. Inv => MailedOnce
  BY <1>1 DEF MailedOnce
<1> QED  BY <1>2, InvHolds, PTL
=============================================================================
