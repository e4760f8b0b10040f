-------------------------- MODULE QueueConnection --------------------------
(***************************************************************************)
(* helpers/queue.js, the connection of one process to RabbitMQ: connect(), *)
(* the 'error' and 'close' handlers, reconnect(), close() and the two      *)
(* timers.                                                                 *)
(*                                                                         *)
(* JavaScript runs a callback to its next await without interruption, and  *)
(* the continuations of promises already settled run before any timer. So  *)
(* the fields of the service are one record q, each handler is a function  *)
(* on that record, and what happens without a gap is their composition.    *)
(*                                                                         *)
(* amqplib is external: connect() and createChannel() answer or reject; an *)
(* orderly close by the broker emits 'close'; a broken connection emits    *)
(* 'error' and then 'close'; either rejects the requests still waiting.    *)
(***************************************************************************)
EXTENDS Integers

CONSTANTS
    MaxReconnectAttempts,  \* config.rabbitmq.maxReconnectAttempts
    MaxFaults,             \* bound of the model: faults that may happen
    Faults                 \* kinds of fault that may happen

FaultKinds ==
    { "refused",  \* amqp.connect() rejects
      "closed",   \* the broker closes the connection in order
      "broken" }  \* the connection breaks

ASSUME ConnectionAssumption ==
    /\ MaxReconnectAttempts \in Nat \ {0}
    /\ MaxFaults \in Nat
    /\ Faults \subseteq FaultKinds

VARIABLES
    q,           \* the fields of the QueueService object, and its timers
    connecting,  \* where the connect() call in flight stands
    process,     \* "up", "crashed", or "closed" once close() has returned
    overlapped,  \* history: a connect() call passed its guard during another
    faults       \* faults so far

vars == <<q, connecting, process, overlapped, faults>>

Service ==
    [ connection : {"null", "open", "gone"},  \* this.connection and this.channel
      isConnected : BOOLEAN,
      isReconnecting : BOOLEAN,
      attempts : Nat,                         \* this.reconnectAttempts
      closeTimer : BOOLEAN,                   \* this.reconnectionTimer is set
      delayed : Nat ]                         \* reconnect() timers, not kept anywhere

TypeOK ==
    /\ q \in Service
    /\ connecting \in {"idle", "dialing", "opening", "setup"}
    /\ process \in {"up", "crashed", "closed"}
    /\ overlapped \in BOOLEAN
    /\ faults \in 0..MaxFaults

-----------------------------------------------------------------------------
(* The handlers, as functions on the service *)

(* reconnect() *)
ReconnectLater(s) == [s EXCEPT !.attempts = @ + 1, !.delayed = @ + 1]

(* handleConnectionError() *)
OnError(s) ==
    LET down == [s EXCEPT !.isConnected = FALSE]
    IN  IF ~s.isReconnecting /\ s.attempts < MaxReconnectAttempts
        THEN ReconnectLater([down EXCEPT !.isReconnecting = TRUE])
        ELSE down

(* Mutant: isConnected is left to the 'error' handler. *)
OnCloseKeepsFlag(s) ==
    [s EXCEPT !.connection = "null",
              !.closeTimer = @ \/ s.attempts < MaxReconnectAttempts]

(* handleConnectionClose() *)
OnClose(s) ==
    [s EXCEPT !.isConnected = FALSE,
              !.connection = "null",
              !.closeTimer = @ \/ s.attempts < MaxReconnectAttempts]

(* The catch block of connect() *)
ConnectFailed(s) == OnError([s EXCEPT !.isConnected = FALSE, !.isReconnecting = FALSE])

(* Mutant: one less than none, to make up for the next increment. *)
ConnectSucceededEarly(s) ==
    [s EXCEPT !.isConnected = TRUE, !.isReconnecting = FALSE,
              !.attempts = 0 - 1, !.closeTimer = FALSE]

(* connect() once the channel is open *)
ConnectSucceeded(s) ==
    [s EXCEPT !.isConnected = TRUE, !.isReconnecting = FALSE,
              !.attempts = 0, !.closeTimer = FALSE]

-----------------------------------------------------------------------------

FreshService ==
    [ connection |-> "null", isConnected |-> FALSE, isReconnecting |-> TRUE,
      attempts |-> 0, closeTimer |-> FALSE, delayed |-> 0 ]

(* The module calls connect() when it is loaded. *)
Init ==
    /\ q = FreshService
    /\ connecting = "dialing"
    /\ process = "up"
    /\ overlapped = FALSE
    /\ faults = 0

Fault(kind) ==
    /\ kind \in Faults
    /\ faults < MaxFaults
    /\ faults' = faults + 1

(* connect(): amqp.connect() answers. *)
Dialed ==
    /\ connecting = "dialing"
    /\ \/ /\ q' = [q EXCEPT !.connection = "open"]
          /\ connecting' = "opening"
          /\ UNCHANGED faults
       \/ /\ Fault("refused")
          /\ q' = ConnectFailed(q)
          /\ connecting' = "idle"
    /\ UNCHANGED <<process, overlapped>>

(* connect(): createChannel() answers. *)
ChannelOpened ==
    /\ connecting = "opening"
    /\ q' = ConnectSucceeded(q)
    /\ connecting' = "setup"
    /\ UNCHANGED <<process, overlapped, faults>>

(* connect(): setupQueues() is through. *)
QueuesReady ==
    /\ connecting = "setup"
    /\ connecting' = "idle"
    /\ UNCHANGED <<q, process, overlapped, faults>>

(* The connection goes before its handlers are registered: createChannel()   *)
(* rejects; an 'error' event without a listener ends the process.            *)
LostWhileOpening ==
    /\ connecting = "opening"
    /\ connecting' = "idle"
    /\ \/ /\ Fault("closed")
          /\ q' = ConnectFailed([q EXCEPT !.connection = "gone"])
          /\ UNCHANGED process
       \/ /\ Fault("broken")
          /\ process' = "crashed"
          /\ UNCHANGED q
    /\ UNCHANGED overlapped

(* The connection goes later. A setupQueues() still waiting rejects as well, *)
(* right after the event handlers.                                           *)
Lost ==
    /\ connecting \in {"idle", "setup"}
    /\ q.connection = "open"
    /\ \E kind \in {"closed", "broken"} :
          /\ Fault(kind)
          /\ LET handled == OnClose(IF kind = "broken" THEN OnError(q) ELSE q)
             IN  q' = IF connecting = "setup" THEN ConnectFailed(handled) ELSE handled
    /\ connecting' = "idle"
    /\ UNCHANGED <<process, overlapped>>

(* Mutant: the test of isConnected inverted. *)
CloseTimerFiresInverted ==
    /\ q.closeTimer
    /\ LET fired == [q EXCEPT !.closeTimer = FALSE]
       IN  q' = IF q.isConnected THEN ReconnectLater(fired) ELSE fired
    /\ UNCHANGED <<connecting, process, overlapped, faults>>

(* The timer of handleConnectionClose() *)
CloseTimerFires ==
    /\ q.closeTimer
    /\ LET fired == [q EXCEPT !.closeTimer = FALSE]
       IN  q' = IF q.isConnected THEN fired ELSE ReconnectLater(fired)
    /\ UNCHANGED <<connecting, process, overlapped, faults>>

(* Mutant: the guard asks for a connection rather than for an attempt. *)
MayConnectUnlessConnected == ~q.isConnected

(* The guard of connect() *)
MayConnect == ~q.isReconnecting

(* The timer of reconnect(): connect() is called, and returns at once if     *)
(* isReconnecting is set. The model does not follow a second attempt that    *)
(* overlaps a first; SingleAttempt says there is none.                       *)
DelayedConnect ==
    /\ q.delayed > 0
    /\ LET fired == [q EXCEPT !.delayed = @ - 1]
       IN  \/ /\ ~MayConnect
              /\ q' = fired
              /\ UNCHANGED <<connecting, overlapped>>
           \/ /\ MayConnect
              /\ q' = [fired EXCEPT !.isReconnecting = TRUE]
              /\ overlapped' = (overlapped \/ connecting # "idle")
              /\ connecting' = "dialing"
    /\ UNCHANGED <<process, faults>>

(* Mutant: the timer is left to the process exit. *)
ClosedKeepsTimer(s) == [s EXCEPT !.isConnected = FALSE]

(* The end of close(). Closing the connection emits 'close', whose handler,  *)
(* if it is registered by then, arms the timer that is cleared here.         *)
Closed(s) == [s EXCEPT !.isConnected = FALSE, !.closeTimer = FALSE]

(* close(), on shutdown, wherever a connection attempt may stand; the        *)
(* process exits after it. Closing a connection that is gone throws, and the *)
(* rest of close() is skipped.                                               *)
Close ==
    /\ \/ /\ q.connection = "open"
          /\ q' = Closed(IF connecting = "opening" THEN q ELSE OnClose(q))
       \/ /\ q.connection = "null"
          /\ q' = Closed(q)
       \/ /\ q.connection = "gone"
          /\ UNCHANGED q
    /\ process' = "closed"
    /\ UNCHANGED <<connecting, overlapped, faults>>

Restart ==
    /\ process = "crashed"
    /\ q' = FreshService
    /\ connecting' = "dialing"
    /\ process' = "up"
    /\ UNCHANGED <<overlapped, faults>>

Progress ==
    process = "up" /\ (Dialed \/ ChannelOpened \/ QueuesReady)

Timers == process = "up" /\ (CloseTimerFires \/ DelayedConnect)

Next ==
    \/ Progress
    \/ Timers
    \/ process = "up" /\ (LostWhileOpening \/ Lost \/ Close)
    \/ Restart

Spec == Init /\ [][Next]_vars

(* amqplib answers every request, armed timers fire, and the container       *)
(* runtime restarts a crashed process. Nobody is obliged to call close().    *)
Fairness ==
    /\ WF_vars(Progress)
    /\ WF_vars(process = "up" /\ CloseTimerFires)
    /\ WF_vars(process = "up" /\ DelayedConnect)
    /\ WF_vars(Restart)

FairSpec == Spec /\ Fairness

-----------------------------------------------------------------------------
(* Properties *)

(* sendToQueue() and consume() trust isConnected: whenever it is set, the    *)
(* connection is there and open, in whatever order errors, closes, timers    *)
(* and connection attempts came.                                             *)
ConnectedMeansOpen == q.isConnected => q.connection = "open"

(* The guard of connect(), "Prevent multiple concurrent connection           *)
(* attempts" (queue.js:36), works: no second connection is ever dialled      *)
(* while an attempt is under way.                                            *)
SingleAttempt == ~overlapped

(* An armed close timer means there is no connection it could interfere      *)
(* with, and a completed shutdown leaves none armed (handles left to a dead  *)
(* connection apart, for which close() gives up).                            *)
TimerOnlyWithoutConnection ==
    q.closeTimer => ~q.isConnected /\ (process = "closed" => q.connection = "gone")

(* After an orderly close outside of connect() the service is connected      *)
(* again, unless another fault or a shutdown comes between.                  *)
OrderlyCloseRecovers ==
    \A n \in 0..MaxFaults :
       (q.closeTimer /\ ~q.isReconnecting /\ faults = n)
          ~> (q.isConnected \/ faults > n \/ process = "closed")

(* documentation/docs/configuration.md:64, "Max reconnection attempts": the  *)
(* service tries again after a failed attempt, so a process that stays up    *)
(* gets its connection once the broker accepts it.                           *)
Reconnects == ~q.isConnected ~> (q.isConnected \/ process = "closed")
=============================================================================
