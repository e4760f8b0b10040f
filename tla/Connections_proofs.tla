-------------------------- MODULE Connections_proofs --------------------------
(* Theorems about the two connections that the server keeps alive, the one   *)
(* to RabbitMQ (QueueConnection) and the one to Redis (RedisConnection), for *)
(* every limit of attempts, any number of clients and any number of faults.  *)
EXTENDS QueueConnection, RedisConnection, TLAPS

-------------------------------------------------------------------------------
(* The connection to RabbitMQ *)

(* isReconnecting is held from the guard of connect() to its channel, during *)
(* which no timer is armed.                                                  *)
AttemptHoldsGuard ==
    connecting \in {"dialing", "opening"} =>
       /\ q.isReconnecting
       /\ ~q.isConnected
       /\ q.delayed = 0 /\ ~q.closeTimer
       /\ connecting = "opening" => q.connection = "open"

(* Nor is any while setupQueues() runs, where the guard is already given up. *)
SetupIsAlone ==
    connecting = "setup" =>
       q.isConnected /\ ~q.isReconnecting /\ q.delayed = 0 /\ ~q.closeTimer

(* Between attempts, unless isReconnecting has been left set, at most one    *)
(* timer is armed, and none beside an open connection.                       *)
OneTimerLeft ==
    connecting = "idle" /\ ~q.isReconnecting =>
       /\ q.delayed <= 1
       /\ q.delayed = 1 => ~q.closeTimer
       /\ q.connection = "open" => q.delayed = 0 /\ ~q.closeTimer

(* The inductive invariant. *)
ConnectionInv ==
    /\ TypeOK
    /\ ConnectedMeansOpen
    /\ SingleAttempt
    /\ TimerOnlyWithoutConnection
    /\ process = "up" => AttemptHoldsGuard /\ SetupIsAlone /\ OneTimerLeft

(* What handleConnectionError() does to the service, field by field: it      *)
(* takes the guard and arms a timer, or finds the guard taken or the         *)
(* attempts used up and only clears isConnected.                             *)
LEMMA ErrorHandled ==
  ASSUME NEW s \in Service
  PROVE  /\ OnError(s) \in Service
         /\ OnError(s).connection = s.connection
         /\ ~OnError(s).isConnected
         /\ OnError(s).closeTimer = s.closeTimer
         /\ \/ /\ OnError(s).isReconnecting
               /\ ~s.isReconnecting /\ s.attempts < MaxReconnectAttempts
               /\ OnError(s).attempts = s.attempts + 1
            \/ /\ OnError(s).isReconnecting = s.isReconnecting
               /\ OnError(s).attempts = s.attempts
               /\ OnError(s).delayed = s.delayed
               /\ s.isReconnecting \/ s.attempts >= MaxReconnectAttempts
         /\ OnError(s).delayed <= s.delayed + 1
<1> DEFINE armed == ~s.isReconnecting /\ s.attempts < MaxReconnectAttempts
           down == [s EXCEPT !.isConnected = FALSE]
           taken == [s EXCEPT !.isConnected = FALSE, !.isReconnecting = TRUE,
                              !.attempts = s.attempts + 1, !.delayed = s.delayed + 1]
<1>1. OnError(s) = IF armed THEN taken ELSE down
  BY DEF OnError, ReconnectLater, Service
<1>2. /\ down \in Service /\ ~down.isConnected
      /\ down.connection = s.connection /\ down.closeTimer = s.closeTimer
      /\ down.isReconnecting = s.isReconnecting
      /\ down.attempts = s.attempts /\ down.delayed = s.delayed
  BY DEF Service
<1>3. /\ s.attempts + 1 \in Nat /\ s.delayed + 1 \in Nat
      /\ s.attempts \in Nat /\ s.delayed \in Nat
  BY DEF Service
<1>4. /\ taken \in Service /\ ~taken.isConnected
      /\ taken.connection = s.connection /\ taken.closeTimer = s.closeTimer
      /\ taken.isReconnecting
      /\ taken.attempts = s.attempts + 1 /\ taken.delayed = s.delayed + 1
  BY <1>3 DEF Service
<1> HIDE DEF down, taken
<1>5. CASE armed
  BY <1>1, <1>3, <1>4, <1>5
<1>6. CASE ~armed
  BY <1>1, <1>2, <1>3, <1>6, ConnectionAssumption
<1> QED  BY <1>5, <1>6

(* And handleConnectionClose().                                              *)
LEMMA CloseHandled ==
  ASSUME NEW s \in Service
  PROVE  /\ OnClose(s) \in Service
         /\ OnClose(s).connection = "null"
         /\ ~OnClose(s).isConnected
         /\ OnClose(s).isReconnecting = s.isReconnecting
         /\ OnClose(s).attempts = s.attempts
         /\ OnClose(s).delayed = s.delayed
         /\ OnClose(s).closeTimer = (s.closeTimer \/ s.attempts < MaxReconnectAttempts)
BY ConnectionAssumption DEF OnClose, Service

(* The catch block gives the guard back before it handles the error.         *)
LEMMA FailureHandled ==
  ASSUME NEW s \in Service
  PROVE  /\ ConnectFailed(s) \in Service
         /\ ConnectFailed(s).connection = s.connection
         /\ ~ConnectFailed(s).isConnected
         /\ ConnectFailed(s).closeTimer = s.closeTimer
         /\ \/ ConnectFailed(s).isReconnecting
            \/ /\ ConnectFailed(s).delayed = s.delayed
               /\ s.attempts >= MaxReconnectAttempts
<1> DEFINE freed == [s EXCEPT !.isConnected = FALSE, !.isReconnecting = FALSE]
<1>1. /\ freed \in Service
      /\ freed.connection = s.connection /\ freed.closeTimer = s.closeTimer
      /\ freed.attempts = s.attempts /\ freed.delayed = s.delayed
      /\ ~freed.isReconnecting
  BY DEF Service
<1>2. ConnectFailed(s) = OnError(freed)
  BY DEF ConnectFailed
<1> HIDE DEF freed
<1> QED  BY <1>1, <1>2, ErrorHandled

(* A service just created satisfies the invariant. *)
LEMMA InitInv == Init => ConnectionInv
<1> SUFFICES ASSUME Init  PROVE ConnectionInv
  OBVIOUS
<1>1. /\ FreshService \in Service
      /\ FreshService.isReconnecting /\ ~FreshService.isConnected
      /\ FreshService.delayed = 0 /\ ~FreshService.closeTimer
  BY DEF FreshService, Service
<1>2. TypeOK
  <2>1. faults \in 0..MaxFaults
    BY ConnectionAssumption DEF Init
  <2>2. overlapped \in BOOLEAN
    BY Zenon DEF Init
  <2> QED  BY <1>1, <2>1, <2>2 DEF Init, TypeOK
<1>3. ConnectedMeansOpen /\ SingleAttempt /\ TimerOnlyWithoutConnection
  BY <1>1 DEF Init, ConnectedMeansOpen, SingleAttempt, TimerOnlyWithoutConnection
<1>4. AttemptHoldsGuard /\ SetupIsAlone /\ OneTimerLeft
  BY <1>1 DEF Init, AttemptHoldsGuard, SetupIsAlone, OneTimerLeft
<1> QED  BY <1>2, <1>3, <1>4 DEF ConnectionInv

(* Answers of amqplib to the attempt under way. *)
LEMMA ProgressInv ==
  ASSUME ConnectionInv, process = "up", Dialed \/ ChannelOpened \/ QueuesReady
  PROVE  ConnectionInv'
<1> USE ConnectionAssumption
    DEF ConnectionInv, TypeOK, ConnectedMeansOpen, SingleAttempt, TimerOnlyWithoutConnection,
        AttemptHoldsGuard, SetupIsAlone, OneTimerLeft
<1>1. CASE Dialed
  <2>1. CASE q' = [q EXCEPT !.connection = "open"] /\ connecting' = "opening" /\ UNCHANGED faults
    BY <1>1, <2>1 DEF Dialed, Service
  <2>2. CASE Fault("refused") /\ q' = ConnectFailed(q) /\ connecting' = "idle"
    BY <1>1, <2>2, FailureHandled DEF Dialed, Fault
  <2> QED  BY <1>1, <2>1, <2>2 DEF Dialed
<1>2. CASE ChannelOpened
  BY <1>2 DEF ChannelOpened, ConnectSucceeded, Service
<1>3. CASE QueuesReady
  BY <1>3 DEF QueuesReady
<1> QED  BY <1>1, <1>2, <1>3

(* The loss of the connection, before and after its handlers are registered. *)
LEMMA LossInv ==
  ASSUME ConnectionInv, process = "up", LostWhileOpening \/ Lost
  PROVE  ConnectionInv'
<1> USE ConnectionAssumption
    DEF ConnectionInv, TypeOK, ConnectedMeansOpen, SingleAttempt, TimerOnlyWithoutConnection,
        AttemptHoldsGuard, SetupIsAlone, OneTimerLeft
<1>1. CASE LostWhileOpening
  <2> DEFINE gone == [q EXCEPT !.connection = "gone"]
  <2>1. /\ gone \in Service /\ gone.closeTimer = q.closeTimer
        /\ gone.delayed = q.delayed /\ gone.connection = "gone"
    BY DEF Service
  <2> HIDE DEF gone
  <2>2. CASE Fault("closed") /\ q' = ConnectFailed(gone) /\ UNCHANGED process
    BY <1>1, <2>1, <2>2, FailureHandled DEF LostWhileOpening, Fault
  <2>3. CASE Fault("broken") /\ process' = "crashed" /\ UNCHANGED q
    BY <1>1, <2>3 DEF LostWhileOpening, Fault
  <2> QED  BY <1>1, <2>2, <2>3 DEF LostWhileOpening, gone
<1>2. CASE Lost
  <2>1. PICK kind \in {"closed", "broken"} :
           /\ Fault(kind)
           /\ q' = IF connecting = "setup"
                   THEN ConnectFailed(OnClose(IF kind = "broken" THEN OnError(q) ELSE q))
                   ELSE OnClose(IF kind = "broken" THEN OnError(q) ELSE q)
    BY <1>2 DEF Lost
  <2> DEFINE erred == IF kind = "broken" THEN OnError(q) ELSE q
             handled == OnClose(erred)
  <2>2. /\ erred \in Service
        /\ erred.closeTimer = q.closeTimer
        /\ ~erred.isReconnecting => ~q.isReconnecting /\ erred.delayed = q.delayed
        /\ erred.delayed <= q.delayed + 1
    <3>1. CASE kind = "broken"
      BY <3>1, ErrorHandled
    <3>2. CASE kind # "broken"
      BY <3>2 DEF Service
    <3> QED  BY <3>1, <3>2
  <2>3. /\ handled \in Service
        /\ handled.connection = "null" /\ ~handled.isConnected
        /\ handled.isReconnecting = erred.isReconnecting
        /\ handled.attempts = erred.attempts /\ handled.delayed = erred.delayed
        /\ handled.closeTimer = (q.closeTimer \/ erred.attempts < MaxReconnectAttempts)
    BY <2>2, CloseHandled
  <2>4. q' = IF connecting = "setup" THEN ConnectFailed(handled) ELSE handled
    BY <2>1
  <2>5. q.delayed \in Nat /\ erred.delayed \in Nat /\ erred.attempts \in Nat
    BY <2>2 DEF Service
  <2> HIDE DEF erred, handled
  <2>6. CASE connecting = "setup"
    BY <1>2, <2>1, <2>2, <2>3, <2>4, <2>5, <2>6, FailureHandled DEF Lost, Fault
  <2>7. CASE connecting = "idle"
    BY <1>2, <2>1, <2>2, <2>3, <2>4, <2>5, <2>7 DEF Lost, Fault
  <2> QED  BY <1>2, <2>6, <2>7 DEF Lost
<1> QED  BY <1>1, <1>2

(* The timers. *)
LEMMA TimersInv ==
  ASSUME ConnectionInv, process = "up", CloseTimerFires \/ DelayedConnect
  PROVE  ConnectionInv'
<1> USE ConnectionAssumption
    DEF ConnectionInv, TypeOK, ConnectedMeansOpen, SingleAttempt, TimerOnlyWithoutConnection,
        AttemptHoldsGuard, SetupIsAlone, OneTimerLeft
<1>1. connecting = "idle"
  BY DEF CloseTimerFires, DelayedConnect
<1>2. q.delayed \in Nat /\ q.attempts \in Nat
  BY DEF Service
<1>3. CASE CloseTimerFires
  <2>1. ~q.isConnected /\ q.closeTimer
    BY <1>3 DEF CloseTimerFires
  <2>2. q' = [q EXCEPT !.closeTimer = FALSE, !.attempts = q.attempts + 1, !.delayed = q.delayed + 1]
    BY <1>3, <2>1 DEF CloseTimerFires, ReconnectLater, Service
  <2>3. q.attempts + 1 \in Nat /\ q.delayed + 1 \in Nat
    BY <1>2
  <2>4. /\ q' \in Service /\ q'.delayed = q.delayed + 1 /\ ~q'.closeTimer
        /\ q'.connection = q.connection /\ q'.isConnected = q.isConnected
        /\ q'.isReconnecting = q.isReconnecting
    BY <2>2, <2>3 DEF Service
  <2> QED  BY <1>1, <1>2, <1>3, <2>1, <2>4 DEF CloseTimerFires
<1>4. CASE DelayedConnect
  <2>1. q.delayed - 1 \in Nat
    BY <1>2, <1>4 DEF DelayedConnect
  <2>2. CASE q.isReconnecting
    <3>1. q' = [q EXCEPT !.delayed = q.delayed - 1] /\ UNCHANGED <<connecting, overlapped>>
      BY <1>4, <2>2 DEF DelayedConnect, MayConnect
    <3>2. /\ q' \in Service /\ q'.closeTimer = q.closeTimer
          /\ q'.connection = q.connection /\ q'.isConnected = q.isConnected
          /\ q'.isReconnecting
      BY <2>1, <2>2, <3>1 DEF Service
    <3> QED  BY <1>1, <1>4, <3>1, <3>2 DEF DelayedConnect
  <2>3. CASE ~q.isReconnecting
    <3>1. /\ q' = [q EXCEPT !.delayed = q.delayed - 1, !.isReconnecting = TRUE]
          /\ connecting' = "dialing"
      BY <1>4, <2>3 DEF DelayedConnect, MayConnect, Service
    <3>2. /\ q' \in Service /\ q'.closeTimer = q.closeTimer
          /\ q'.connection = q.connection /\ q'.isConnected = q.isConnected
          /\ q'.isReconnecting /\ q'.delayed = q.delayed - 1
      BY <2>1, <3>1 DEF Service
    <3>3. q.delayed = 1 /\ ~q.closeTimer /\ ~q.isConnected
      BY <1>1, <1>2, <2>1, <2>3
    <3>4. overlapped' = overlapped
      BY <1>1, <1>4, <2>3 DEF DelayedConnect, MayConnect
    <3> QED  BY <1>4, <3>1, <3>2, <3>3, <3>4 DEF DelayedConnect
  <2> QED  BY <2>2, <2>3
<1> QED  BY <1>3, <1>4

(* close(), wherever an attempt may stand. *)
LEMMA ShutdownInv ==
  ASSUME ConnectionInv, process = "up", Close
  PROVE  ConnectionInv'
<1> USE DEF ConnectionInv, TypeOK, ConnectedMeansOpen, SingleAttempt, TimerOnlyWithoutConnection
<1>1. ASSUME NEW s \in Service
      PROVE  Closed(s) \in Service /\ ~Closed(s).isConnected /\ ~Closed(s).closeTimer
  BY DEF Closed, Service
<1>2. OnClose(q) \in Service
  BY CloseHandled
<1>3. CASE q.connection = "gone" /\ UNCHANGED q
  BY <1>3 DEF Close
<1>4. CASE q' = Closed(q) \/ q' = Closed(OnClose(q))
  BY <1>1, <1>2, <1>4 DEF Close
<1> QED  BY <1>3, <1>4 DEF Close

(* Every step keeps the invariant. *)
LEMMA NextInv == ConnectionInv /\ [Next]_vars => ConnectionInv'
<1> SUFFICES ASSUME ConnectionInv, [Next]_vars  PROVE ConnectionInv'
  OBVIOUS
<1>1. CASE Restart
  <2>1. /\ FreshService \in Service
        /\ FreshService.isReconnecting /\ ~FreshService.isConnected
        /\ FreshService.delayed = 0 /\ ~FreshService.closeTimer
    BY DEF FreshService, Service
  <2> QED
    BY <1>1, <2>1
    DEF Restart, ConnectionInv, TypeOK, ConnectedMeansOpen, SingleAttempt,
        TimerOnlyWithoutConnection, AttemptHoldsGuard, SetupIsAlone, OneTimerLeft
<1>2. CASE UNCHANGED vars
  BY <1>2
  DEF vars, ConnectionInv, TypeOK, ConnectedMeansOpen, SingleAttempt,
      TimerOnlyWithoutConnection, AttemptHoldsGuard, SetupIsAlone, OneTimerLeft
<1> QED
  BY <1>1, <1>2, ProgressInv, LossInv, TimersInv, ShutdownInv DEF Next, Progress, Timers

(* The invariant holds in every behaviour. *)
THEOREM Invariance == Spec => []ConnectionInv
BY InitInv, NextInv, PTL DEF Spec

(* The fields keep their types, attempts and timers counted from zero up.    *)
THEOREM TypeCorrect == Spec => []TypeOK
<1>1. ConnectionInv => TypeOK
  BY DEF ConnectionInv
<1> QED  BY <1>1, Invariance, PTL

(* sendToQueue() and consume() may trust isConnected, whatever the limit of  *)
(* attempts and however often the connection is lost.                        *)
THEOREM FlagTellsTheTruth == Spec => []ConnectedMeansOpen
<1>1. ConnectionInv => ConnectedMeansOpen
  BY DEF ConnectionInv
<1> QED  BY <1>1, Invariance, PTL

(* The guard of connect() keeps attempts apart.                              *)
THEOREM AttemptsNeverOverlap == Spec => []SingleAttempt
<1>1. ConnectionInv => SingleAttempt
  BY DEF ConnectionInv
<1> QED  BY <1>1, Invariance, PTL

(* An armed close timer has no connection to interfere with.                 *)
THEOREM TimersAreHarmless == Spec => []TimerOnlyWithoutConnection
<1>1. ConnectionInv => TimerOnlyWithoutConnection
  BY DEF ConnectionInv
<1> QED  BY <1>1, Invariance, PTL

-------------------------------------------------------------------------------
(* The connection to Redis *)

(* The types by themselves do not bind the state of one client to that of    *)
(* another; the invariant is inductive with them, as Forget resets what any  *)
(* failing client could have made false.                                     *)
RedisInv == RedisTypeOK /\ PagesAreToldTheTruth

LEMMA RedisInitInv == RedisInit => RedisInv
<1> SUFFICES ASSUME RedisInit  PROVE RedisInv
  OBVIOUS
<1>1. RedisTypeOK
  <2>1. client \in [Clients -> {"unused", "connecting", "failing", "waiting"} \union Connected]
    BY DEF RedisInit
  <2>2. retries \in [Clients -> 0..MaxRetries] /\ redisFaults \in 0..MaxRedisFaults
    BY RedisAssumption DEF RedisInit
  <2>3. isRedisConnected \in BOOLEAN /\ isReconnecting \in BOOLEAN /\ reconnectionTimer \in BOOLEAN
    BY DEF RedisInit
  <2>4. server \in {"up", "down"} /\ redis \in Clients \union {None}
    BY DEF RedisInit
  <2> QED  BY <2>1, <2>2, <2>3, <2>4 DEF RedisTypeOK
<1>2. client[redis] = "connecting" /\ ~isRedisConnected
  BY DEF RedisInit
<1> QED  BY <1>1, <1>2 DEF RedisInv, PagesAreToldTheTruth

(* A client made, if one is: it is in use and connects, and the others go on.*)
LEMMA Created ==
  ASSUME RedisTypeOK, createRedisConnection
  PROVE  /\ client' \in [Clients -> {"unused", "connecting", "failing", "waiting"} \union Connected]
         /\ retries' \in [Clients -> 0..MaxRetries]
         /\ redis' \in Clients \union {None}
         /\ isReconnecting' \in BOOLEAN
         /\ \A c \in Clients : client[c] \in Connected => client'[c] = client[c]
         /\ \/ redis' = redis /\ client' = client
            \/ redis' \in Clients /\ client'[redis'] = "connecting"
<1>1. CASE isReconnecting
  BY <1>1 DEF createRedisConnection, RedisTypeOK
<1>2. CASE ~isReconnecting
  <2>1. PICK c \in Unused :
           /\ client' = [client EXCEPT ![c] = "connecting"]
           /\ retries' = [retries EXCEPT ![c] = 0]
           /\ redis' = c
           /\ isReconnecting'
    BY <1>2 DEF createRedisConnection
  <2>2. c \in Clients /\ client[c] = "unused"
    BY DEF Unused
  <2>3. isReconnecting' \in BOOLEAN
    BY <1>2 DEF createRedisConnection
  <2> QED  BY <2>1, <2>2, <2>3, RedisAssumption DEF RedisTypeOK, Connected
<1> QED  BY <1>1, <1>2

LEMMA FailsType ==
  ASSUME RedisTypeOK, Fails \/ RedisFault \/ UNCHANGED redisFaults
  PROVE  redisFaults' \in 0..MaxRedisFaults
BY RedisAssumption DEF RedisTypeOK, Fails, RedisFault

LEMMA RedisStepInv == RedisInv /\ [RedisNext]_redisVars => RedisInv'
<1> SUFFICES ASSUME RedisInv, [RedisNext]_redisVars  PROVE RedisInv'
  OBVIOUS
<1> USE DEF RedisInv
<1> DEFINE ClientStates == {"unused", "connecting", "failing", "waiting"} \union Connected
<1>1. CASE getRedis
  <2>1. createRedisConnection /\ UNCHANGED <<server, isRedisConnected, reconnectionTimer, redisFaults>>
    BY <1>1 DEF getRedis
  <2>2. RedisTypeOK'
    BY <2>1, Created DEF RedisTypeOK
  <2>3. PagesAreToldTheTruth'
    BY <2>1, Created DEF PagesAreToldTheTruth, Connected
  <2> QED  BY <2>2, <2>3
<1>2. ASSUME NEW c \in Clients, OnClientConnect(c)  PROVE RedisInv'
  <2>1. isRedisConnected' \in BOOLEAN /\ isReconnecting' \in BOOLEAN /\ reconnectionTimer' \in BOOLEAN
    BY <1>2 DEF OnClientConnect
  <2>2. RedisTypeOK'
    BY <1>2, <2>1 DEF OnClientConnect, RedisTypeOK, Connected
  <2>3. PagesAreToldTheTruth'
    BY <1>2 DEF OnClientConnect, RedisTypeOK, Connected, PagesAreToldTheTruth
  <2> QED  BY <2>2, <2>3
<1>3. ASSUME NEW c \in Clients, OnClientReady(c)  PROVE RedisInv'
  <2>1. isRedisConnected' \in BOOLEAN
    BY <1>3 DEF OnClientReady
  <2>2. RedisTypeOK'
    BY <1>3, <2>1, RedisAssumption DEF OnClientReady, RedisTypeOK, Connected
  <2>3. PagesAreToldTheTruth'
    BY <1>3 DEF OnClientReady, RedisTypeOK, Connected, PagesAreToldTheTruth
  <2> QED  BY <2>2, <2>3
<1>4. ASSUME NEW c \in Clients, OnClientError(c)  PROVE RedisInv'
  <2>1. isRedisConnected' \in BOOLEAN /\ isReconnecting' \in BOOLEAN /\ redis' = None
    BY <1>4 DEF OnClientError, Forget
  <2>2. redisFaults' \in 0..MaxRedisFaults
    BY <1>4, FailsType DEF OnClientError
  <2>3. RedisTypeOK'
    BY <1>4, <2>1, <2>2 DEF OnClientError, RedisTypeOK
  <2>4. PagesAreToldTheTruth'
    BY <1>4 DEF OnClientError, Forget, PagesAreToldTheTruth
  <2> QED  BY <2>3, <2>4
<1>5. ASSUME NEW c \in Clients, OnClientClose(c)  PROVE RedisInv'
  <2>1. isRedisConnected' \in BOOLEAN /\ isReconnecting' \in BOOLEAN /\ redis' = None
    BY <1>5 DEF OnClientClose, Forget
  <2>2. reconnectionTimer' \in BOOLEAN
    BY <1>5 DEF OnClientClose
  <2>3. redisFaults' \in 0..MaxRedisFaults
    BY <1>5, FailsType DEF OnClientClose
  <2>4. /\ client' \in [Clients -> ClientStates]
        /\ retries' \in [Clients -> 0..MaxRetries]
    BY <1>5, RedisAssumption DEF OnClientClose, RedisTypeOK
  <2>5. RedisTypeOK'
    BY <1>5, <2>1, <2>2, <2>3, <2>4 DEF OnClientClose, RedisTypeOK
  <2>6. PagesAreToldTheTruth'
    BY <1>5 DEF OnClientClose, Forget, PagesAreToldTheTruth
  <2> QED  BY <2>5, <2>6
<1>6. ASSUME NEW c \in Clients, Retry(c)  PROVE RedisInv'
  <2>1. RedisTypeOK'
    BY <1>6 DEF Retry, RedisTypeOK
  <2>2. PagesAreToldTheTruth'
    BY <1>6 DEF Retry, RedisTypeOK, Connected, PagesAreToldTheTruth
  <2> QED  BY <2>1, <2>2
<1>7. CASE ReconnectionTimerFires
  <2>1. reconnectionTimer' \in BOOLEAN
    BY <1>7 DEF ReconnectionTimerFires
  <2>2. CASE isRedisConnected
    <3>1. UNCHANGED <<server, client, retries, redis, isRedisConnected, isReconnecting, redisFaults>>
      BY <1>7, <2>2 DEF ReconnectionTimerFires
    <3> QED  BY <2>1, <3>1 DEF RedisTypeOK, PagesAreToldTheTruth
  <2>3. CASE ~isRedisConnected
    <3>1. createRedisConnection /\ UNCHANGED <<server, isRedisConnected, redisFaults>>
      BY <1>7, <2>3 DEF ReconnectionTimerFires
    <3>2. RedisTypeOK'
      BY <2>1, <3>1, Created DEF RedisTypeOK
    <3>3. PagesAreToldTheTruth'
      BY <2>3, <3>1, Created DEF PagesAreToldTheTruth, Connected
    <3> QED  BY <3>2, <3>3
  <2> QED  BY <2>2, <2>3
<1>8. CASE ServerDown
  <2>1. redisFaults' \in 0..MaxRedisFaults
    BY <1>8, FailsType DEF ServerDown
  <2> QED  BY <1>8, <2>1 DEF ServerDown, RedisTypeOK, PagesAreToldTheTruth
<1>9. CASE ServerUp
  BY <1>9 DEF ServerUp, RedisTypeOK, PagesAreToldTheTruth
<1>10. CASE UNCHANGED redisVars
  BY <1>10 DEF redisVars, RedisTypeOK, PagesAreToldTheTruth
<1> QED  BY <1>1, <1>2, <1>3, <1>4, <1>5, <1>6, <1>7, <1>8, <1>9, <1>10 DEF RedisNext

(* The state of db/redis.js keeps its types, counters within their bounds.   *)
THEOREM RedisTypeCorrect == RedisSpec => []RedisTypeOK
<1>1. RedisInv => RedisTypeOK
  BY DEF RedisInv
<1> QED  BY <1>1, RedisInitInv, RedisStepInv, PTL DEF RedisSpec

(* What isConnected() and getRedis() of db/redis.js tell the pages is right, *)
(* whichever client wrote it last.                                           *)
THEOREM ToldTheTruth == RedisSpec => []PagesAreToldTheTruth
<1>1. RedisInv => PagesAreToldTheTruth
  BY DEF RedisInv
<1> QED  BY <1>1, RedisInitInv, RedisStepInv, PTL DEF RedisSpec
===============================================================================
