--------------------------- MODULE RedisConnection ---------------------------
(***************************************************************************)
(* db/redis.js: one module-wide client, whose event handlers write the     *)
(* module's state whether or not they belong to the client that is in use. *)
(* A client of ioredis that loses its connection tries again by itself for *)
(* a while (retryStrategy), whereas the module makes another one, after 15 *)
(* seconds or as soon as a page asks for it: clients live side by side.    *)
(*                                                                         *)
(* ioredis and the server are external.  closeRedis() has no caller. Names *)
(* that QueueConnection has too are set apart by "Redis" or "Client": what *)
(* is proved of both connections stands in one module.                     *)
(***************************************************************************)
EXTENDS Naturals

CONSTANTS
    Clients,        \* objects of ioredis
    None,           \* null
    MaxRetries,     \* config.redis.maxRetries
    MaxRedisFaults  \* bound of the model: connections lost or refused, server gone

ASSUME RedisAssumption ==
    /\ None \notin Clients
    /\ MaxRetries \in Nat
    /\ MaxRedisFaults \in Nat

VARIABLES
    server,            \* "up" or "down"
    client,            \* client[c]: what client c is doing
    retries,           \* retries[c]: its attempts since it was last ready
    redis,             \* the client in use
    isRedisConnected,
    isReconnecting,
    reconnectionTimer, \* whether it is armed
    redisFaults

redisVars == <<server, client, retries, redis, isRedisConnected, isReconnecting,
               reconnectionTimer, redisFaults>>

Connected == {"connected", "ready"}

(* A client that has given up is not referred to any more.                   *)
Unused == {c \in Clients : client[c] = "unused"}

RedisTypeOK ==
    /\ server \in {"up", "down"}
    /\ client \in [Clients -> {"unused", "connecting", "failing", "waiting"} \union Connected]
    /\ retries \in [Clients -> 0..MaxRetries]
    /\ redis \in Clients \union {None}
    /\ isRedisConnected \in BOOLEAN
    /\ isReconnecting \in BOOLEAN
    /\ reconnectionTimer \in BOOLEAN
    /\ redisFaults \in 0..MaxRedisFaults

-----------------------------------------------------------------------------

(* createRedisConnection() on loading the module, with the server up or not. *)
RedisInit ==
    /\ server \in {"up", "down"}
    /\ redis \in Clients
    /\ client = [c \in Clients |-> IF c = redis THEN "connecting" ELSE "unused"]
    /\ retries = [c \in Clients |-> 0]
    /\ isRedisConnected = FALSE
    /\ isReconnecting = TRUE
    /\ reconnectionTimer = FALSE
    /\ redisFaults = 0

RedisFault ==
    /\ redisFaults < MaxRedisFaults
    /\ redisFaults' = redisFaults + 1

(* A connection attempt or a connection fails.                               *)
Fails ==
    \/ server = "down" /\ UNCHANGED redisFaults
    \/ server = "up" /\ RedisFault

(* A client made while another one connects is refused; not so one made      *)
(* after an error or a close of any client has reset isReconnecting.         *)
createRedisConnection ==
    IF isReconnecting
    THEN UNCHANGED <<client, retries, redis, isReconnecting>>
    ELSE \E c \in Unused :
            /\ client' = [client EXCEPT ![c] = "connecting"]
            /\ retries' = [retries EXCEPT ![c] = 0]
            /\ redis' = c
            /\ isReconnecting' = TRUE

(* A page asks for the client.                                               *)
getRedis ==
    /\ redis = None /\ ~isReconnecting
    /\ createRedisConnection
    /\ UNCHANGED <<server, isRedisConnected, reconnectionTimer, redisFaults>>

-----------------------------------------------------------------------------
(* Events of client c *)

OnClientConnect(c) ==
    /\ client[c] = "connecting"
    /\ server = "up"
    /\ client' = [client EXCEPT ![c] = "connected"]
    /\ isRedisConnected' = TRUE
    /\ isReconnecting' = FALSE
    /\ reconnectionTimer' = FALSE
    /\ UNCHANGED <<server, retries, redis, redisFaults>>

OnClientReady(c) ==
    /\ client[c] = "connected"
    /\ client' = [client EXCEPT ![c] = "ready"]
    /\ retries' = [retries EXCEPT ![c] = 0]
    /\ isRedisConnected' = TRUE
    /\ UNCHANGED <<server, redis, isReconnecting, reconnectionTimer, redisFaults>>

(* What the handlers of error, close and end have in common.                 *)
Forget ==
    /\ redis' = None
    /\ isRedisConnected' = FALSE
    /\ isReconnecting' = FALSE

OnClientError(c) ==
    /\ client[c] \in Connected \union {"connecting"}
    /\ Fails
    /\ client' = [client EXCEPT ![c] = "failing"]
    /\ Forget
    /\ UNCHANGED <<server, retries, reconnectionTimer>>

(* Mutant: no attempt of the module's own is scheduled.                      *)
OnClientCloseWithoutTimer(c) ==
    /\ client[c] \in Connected \union {"connecting", "failing"}
    /\ \/ client[c] = "failing" /\ UNCHANGED redisFaults
       \/ client[c] # "failing" /\ Fails
    /\ IF retries[c] < MaxRetries
       THEN /\ client' = [client EXCEPT ![c] = "waiting"]
            /\ retries' = [retries EXCEPT ![c] = @ + 1]
       ELSE /\ client' = [client EXCEPT ![c] = "unused"]
            /\ UNCHANGED retries
    /\ Forget
    /\ UNCHANGED <<server, reconnectionTimer>>

(* Mutant: a client that is not in use any more is ignored.                  *)
OnClientCloseIfInUse(c) ==
    /\ client[c] \in Connected \union {"connecting", "failing"}
    /\ \/ client[c] = "failing" /\ UNCHANGED redisFaults
       \/ client[c] # "failing" /\ Fails
    /\ IF retries[c] < MaxRetries
       THEN /\ client' = [client EXCEPT ![c] = "waiting"]
            /\ retries' = [retries EXCEPT ![c] = @ + 1]
       ELSE /\ client' = [client EXCEPT ![c] = "unused"]
            /\ UNCHANGED retries
    /\ IF redis = c
       THEN Forget /\ reconnectionTimer' = TRUE
       ELSE UNCHANGED <<redis, isRedisConnected, isReconnecting, reconnectionTimer>>
    /\ UNCHANGED server

(* A closed client waits for its next attempt, or gives up: its end event    *)
(* follows, and its handler does no more than this one. So does the catch of *)
(* connect(), after a first attempt.                                         *)
OnClientClose(c) ==
    /\ client[c] \in Connected \union {"connecting", "failing"}
    /\ \/ client[c] = "failing" /\ UNCHANGED redisFaults
       \/ client[c] # "failing" /\ Fails
    /\ IF retries[c] < MaxRetries
       THEN /\ client' = [client EXCEPT ![c] = "waiting"]
            /\ retries' = [retries EXCEPT ![c] = @ + 1]
       ELSE /\ client' = [client EXCEPT ![c] = "unused"]
            /\ UNCHANGED retries
    /\ Forget
    /\ reconnectionTimer' = TRUE
    /\ UNCHANGED server

(* retryStrategy: the client tries again by itself, in use or not.           *)
Retry(c) ==
    /\ client[c] = "waiting"
    /\ client' = [client EXCEPT ![c] = "connecting"]
    /\ UNCHANGED <<server, retries, redis, isRedisConnected, isReconnecting,
                   reconnectionTimer, redisFaults>>

-----------------------------------------------------------------------------

(* 15 seconds after a close.                                                 *)
ReconnectionTimerFires ==
    /\ reconnectionTimer
    /\ reconnectionTimer' = FALSE
    /\ IF isRedisConnected THEN UNCHANGED <<client, retries, redis, isReconnecting>>
                           ELSE createRedisConnection
    /\ UNCHANGED <<server, isRedisConnected, redisFaults>>

ServerDown ==
    /\ server = "up"
    /\ RedisFault
    /\ server' = "down"
    /\ UNCHANGED <<client, retries, redis, isRedisConnected, isReconnecting, reconnectionTimer>>

ServerUp ==
    /\ server = "down"
    /\ server' = "up"
    /\ UNCHANGED <<client, retries, redis, isRedisConnected, isReconnecting,
                   reconnectionTimer, redisFaults>>

RedisNext ==
    \/ getRedis
    \/ \E c \in Clients :
          \/ OnClientConnect(c)
          \/ OnClientReady(c)
          \/ OnClientError(c)
          \/ OnClientClose(c)
          \/ Retry(c)
    \/ ReconnectionTimerFires
    \/ ServerDown
    \/ ServerUp

RedisSpec == RedisInit /\ [][RedisNext]_redisVars

(* Attempts come to an end, timers fire, a close follows an error. Nobody is *)
(* obliged to ask for a page, and the server need not come back.             *)
RedisFairness ==
    /\ \A c \in Clients : /\ WF_redisVars(OnClientConnect(c) \/ OnClientError(c) \/ OnClientClose(c))
                          /\ WF_redisVars(Retry(c))
    /\ WF_redisVars(ReconnectionTimerFires)

RedisFairSpec == RedisSpec /\ RedisFairness

-----------------------------------------------------------------------------
(* Properties *)

(* What isConnected() and getRedis() tell the pages is right, although every *)
(* client writes it: some client is connected, and the one in use has not    *)
(* failed since it was made.                                                 *)
PagesAreToldTheTruth ==
    /\ isRedisConnected => \E c \in Clients : client[c] \in Connected
    /\ redis # None => client[redis] \in Connected \union {"connecting"}

(* A server that is back for good is found again, even if nobody asks for a  *)
(* page and every client has given up: whichever client resets the state,    *)
(* isReconnecting does not block all attempts, and a timer is left.          *)
CacheComesBack == <>[](server = "up") => <>[]isRedisConnected
=============================================================================
