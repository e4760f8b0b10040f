----------------------------- MODULE CacheAside -----------------------------
(***************************************************************************)
(* helpers/cache.js: handleCache(), which a page uses to read the database *)
(* through Redis, and invalidateCache(), which an update calls after its   *)
(* write, once per pattern.  Every command to Redis or MySQL is awaited,   *)
(* so each is a step of its own and other requests run in between.         *)
(*                                                                         *)
(* Keys do not touch each other, so a behaviour follows one cached page,   *)
(* chosen at the start, and every update that may happen.  The page's data *)
(* is the number of updates that changed it; what a reader caches is the   *)
(* number at the first query it made.  A hit changes nothing and is not a  *)
(* step.  The cache's own pages flush it, clear a pattern, and import what *)
(* was exported before.  Redis and MySQL are external.                     *)
(***************************************************************************)
EXTENDS Naturals, Sequences, SequencesExt

CONSTANTS
    Pages,       \* cached pages: the key, in segments, and the tables read
    Updates,     \* updates: the tables written, and the patterns invalidated
    Readers,     \* concurrent calls of handleCache()
    Writers,     \* concurrent update requests
    MaxVersion,  \* bound of the model: updates of the page's data
    MaxFaults,   \* bound of the model: faults and imports that may happen
    None         \* no entry under the key

(* Segments of a key, or of the part of a pattern before its ":*".           *)
Keys == Seq(STRING)

ASSUME CacheAssumption ==
    /\ \A p \in Pages : p.key \in Keys
    /\ \A u \in Updates : u.clears \in Seq(Keys)

ASSUME BoundsAssumption ==
    /\ MaxVersion \in Nat
    /\ MaxFaults \in Nat
    /\ None \notin 0..MaxVersion

VARIABLES
    page,      \* the page this behaviour follows
    version,   \* its data in the database
    cached,    \* its entry in Redis
    expires,   \* whether the entry has a time to live
    redis,     \* "up" or "down", as isConnected() sees it
    reader,    \* reader[r]: where call r of handleCache() stands
    writer,    \* writer[w]: where update request w stands
    blemish,   \* history: what went wrong since the entry was last right
    faults     \* faults so far

vars == <<page, version, cached, expires, redis, reader, writer, blemish, faults>>

Versions == 0..MaxVersion

IdleReader == [step |-> "idle", fill |-> FALSE, seen |-> 0]

IdleWriter == [step |-> "idle", todo |-> <<>>]

TypeOK ==
    /\ page \in Pages
    /\ version \in Versions
    /\ cached \in Versions \union {None}
    /\ expires \in BOOLEAN
    /\ redis \in {"up", "down"}
    /\ reader \in [Readers -> [step : {"idle", "query", "store"}, fill : BOOLEAN, seen : Versions]]
    /\ writer \in [Writers -> [step : {"idle", "scan", "del"}, todo : Seq(Keys)]]
    /\ \A w \in Writers : writer[w].step = "idle" <=> writer[w].todo = <<>>
    /\ blemish \subseteq {"lateFill", "notInvalidated", "imported"}
    /\ faults \in 0..MaxFaults

-----------------------------------------------------------------------------

Init ==
    /\ page \in Pages
    /\ version = 0
    /\ cached = None
    /\ expires = TRUE
    /\ redis = "up"
    /\ reader = [r \in Readers |-> IdleReader]
    /\ writer = [w \in Writers |-> IdleWriter]
    /\ blemish = {}
    /\ faults = 0

Fault ==
    /\ faults < MaxFaults
    /\ faults' = faults + 1

(* A command sent to Redis fails: the client is disconnected, or only this   *)
(* command goes wrong.                                                       *)
CommandFails ==
    \/ redis = "down" /\ UNCHANGED faults
    \/ redis = "up" /\ Fault

-----------------------------------------------------------------------------
(* handleCache() *)

(* The lookup misses, or fails; only after a miss will the data be stored.   *)
Lookup(r) ==
    /\ reader[r].step = "idle"
    /\ \/ /\ redis = "up"
          /\ cached = None
          /\ reader' = [reader EXCEPT ![r] = [step |-> "query", fill |-> TRUE, seen |-> 0]]
          /\ UNCHANGED faults
       \/ /\ CommandFails
          /\ reader' = [reader EXCEPT ![r] = [step |-> "query", fill |-> FALSE, seen |-> 0]]
    /\ UNCHANGED <<page, version, cached, expires, redis, writer, blemish>>

(* dbQueryFn() answers; or it throws, or finds nothing, which is not stored. *)
Query(r) ==
    /\ reader[r].step = "query"
    /\ \/ /\ reader[r].fill
          /\ reader' = [reader EXCEPT ![r].step = "store", ![r].seen = version]
       \/ reader' = [reader EXCEPT ![r] = IdleReader]
    /\ UNCHANGED <<page, version, cached, expires, redis, writer, blemish, faults>>

(* SET with a time to live *)
Store(r) ==
    /\ reader[r].step = "store"
    /\ reader' = [reader EXCEPT ![r] = IdleReader]
    /\ \/ /\ redis = "up"
          /\ cached' = reader[r].seen
          /\ expires' = TRUE
          /\ blemish' = IF reader[r].seen = version THEN {} ELSE {"lateFill"}
          /\ UNCHANGED faults
       \/ /\ CommandFails
          /\ UNCHANGED <<cached, expires, blemish>>
    /\ UNCHANGED <<page, version, redis, writer>>

-----------------------------------------------------------------------------
(* An update and its invalidateCache() calls *)

(* All patterns of the code end in ":*". *)
Matches(pattern, key) == IsPrefix(pattern, key)

Affects(update) == update.writes \intersect page.reads # {}

Clears(update) == \E i \in DOMAIN update.clears : Matches(update.clears[i], page.key)

(* An update that neither changes nor clears this page is not a step. *)
Write(w) ==
    /\ writer[w].step = "idle"
    /\ \E u \in Updates :
          /\ \/ Affects(u) /\ version < MaxVersion /\ version' = version + 1
             \/ ~Affects(u) /\ Clears(u) /\ UNCHANGED version
          /\ writer' = [writer EXCEPT ![w] =
                IF u.clears = <<>> THEN IdleWriter
                                   ELSE [step |-> "scan", todo |-> u.clears]]
    /\ UNCHANGED <<page, cached, expires, redis, reader, blemish, faults>>

(* Mutant: the last pattern is skipped. *)
NextPatternButLast(w) ==
    writer' = [writer EXCEPT ![w] =
                 IF Len(writer[w].todo) <= 2
                 THEN IdleWriter
                 ELSE [step |-> "scan", todo |-> Tail(writer[w].todo)]]

(* Mutant: one pattern too many. *)
NextPatternForEver(w) ==
    writer' = [writer EXCEPT ![w] = [step |-> "scan", todo |-> Tail(writer[w].todo)]]

NextPattern(w) ==
    writer' = [writer EXCEPT ![w] =
                 IF Len(writer[w].todo) = 1
                 THEN IdleWriter
                 ELSE [step |-> "scan", todo |-> Tail(writer[w].todo)]]

ScanFinds(w) == cached # None /\ Matches(Head(writer[w].todo), page.key)

(* invalidateCache() returns 0, or catches the error; the caller goes on.    *)
NotInvalidated(w, missed) ==
    /\ CommandFails
    /\ NextPattern(w)
    /\ blemish' = IF missed THEN blemish \union {"notInvalidated"} ELSE blemish
    /\ UNCHANGED <<cached, expires>>

(* The keys under the pattern are collected. Without any, no DEL is sent.    *)
Scan(w) ==
    /\ writer[w].step = "scan"
    /\ \/ /\ redis = "up"
          /\ IF ScanFinds(w)
             THEN writer' = [writer EXCEPT ![w].step = "del"]
             ELSE NextPattern(w)
          /\ UNCHANGED <<cached, expires, blemish, faults>>
       \/ NotInvalidated(w, ScanFinds(w))
    /\ UNCHANGED <<page, version, redis, reader>>

(* The entry goes. *)
Gone == cached' = None /\ expires' = TRUE /\ blemish' = {}

(* The keys collected are deleted. *)
Del(w) ==
    /\ writer[w].step = "del"
    /\ \/ /\ redis = "up"
          /\ Gone
          /\ NextPattern(w)
          /\ UNCHANGED faults
       \/ NotInvalidated(w, cached # None)
    /\ UNCHANGED <<page, version, redis, reader>>

(* The process dies between the write and the last invalidation. *)
WriterCrash(w) ==
    /\ writer[w].step # "idle"
    /\ Fault
    /\ writer' = [writer EXCEPT ![w] = IdleWriter]
    /\ blemish' = IF cached = None THEN blemish ELSE blemish \union {"notInvalidated"}
    /\ UNCHANGED <<page, version, cached, expires, redis, reader>>

-----------------------------------------------------------------------------
(* Redis *)

(* exportCacheAPI(): what was cached at some time, and the time to live it   *)
(* had left in seconds; rounded to 0, it is exported as none.                *)
Exported == [value : 0..version, expires : BOOLEAN]

(* importCacheAPI(): whether the key exists is asked earlier, if at all.     *)
Import ==
    /\ redis = "up"
    /\ Fault
    /\ \E entry \in Exported : cached' = entry.value /\ expires' = entry.expires
    /\ blemish' = IF cached' = version THEN {} ELSE {"imported"}
    /\ UNCHANGED <<page, version, redis, reader, writer>>

(* Mutant: SET without EX. *)
ExpireNever == FALSE /\ UNCHANGED vars

(* The entry's time to live is over. *)
Expire ==
    /\ cached # None
    /\ expires
    /\ Gone
    /\ UNCHANGED <<page, version, redis, reader, writer, faults>>

(* The connection goes; what is stored stays. *)
RedisDown ==
    /\ redis = "up"
    /\ Fault
    /\ redis' = "down"
    /\ UNCHANGED <<page, version, cached, expires, reader, writer, blemish>>

RedisUp ==
    /\ redis = "down"
    /\ redis' = "up"
    /\ UNCHANGED <<page, version, cached, expires, reader, writer, blemish, faults>>

ReaderStep(r) == Lookup(r) \/ Query(r) \/ Store(r)

WriterContinues(w) == Scan(w) \/ Del(w)

Next ==
    \/ \E r \in Readers : ReaderStep(r)
    \/ \E w \in Writers : Write(w) \/ WriterContinues(w) \/ WriterCrash(w)
    \/ Import
    \/ Expire
    \/ RedisDown
    \/ RedisUp

Spec == Init /\ [][Next]_vars

(* Requests go on to their end, and Redis drops an entry after its time to   *)
(* live. Nobody is obliged to read or to update, and a lost Redis connection *)
(* need not come back.                                                       *)
Fairness ==
    /\ \A r \in Readers : WF_vars(Query(r)) /\ WF_vars(Store(r))
    /\ \A w \in Writers : WF_vars(WriterContinues(w))
    /\ WF_vars(Expire)

FairSpec == Spec /\ Fairness

-----------------------------------------------------------------------------
(* Properties *)

Stale == cached # None /\ cached # version

BeingCleared ==
    \E w \in Writers : \E i \in DOMAIN writer[w].todo : Matches(writer[w].todo[i], page.key)

(* knowledge/admin/permissions/en.md:255, "Changes invalidate cache          *)
(* automatically": an entry behind the database is about to be deleted, or   *)
(* something out of the ordinary happened to it. A reader that had queried   *)
(* before the write stored after the invalidation, an old export was         *)
(* imported, or Redis or the process failed during the invalidation. There   *)
(* is no fourth case.                                                        *)
ChangesInvalidate == Stale => BeingCleared \/ blemish # {}

(* The code lives up to it on the pages whose every update clears them.      *)
Covered == \A u \in Updates : Affects(u) => Clears(u)

ChangesInvalidateCovered == Covered => ChangesInvalidate

(* Whatever happened, and even where no pattern matches the page's key: once *)
(* the updates stop, no stale entry outlives its time to live, and none      *)
(* comes back. Only one imported without a time to live may stay.            *)
EventuallyFresh == <>[][version' = version]_vars => <>[](Stale => ~expires)
=============================================================================
