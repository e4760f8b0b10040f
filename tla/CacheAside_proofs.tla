--------------------------- MODULE CacheAside_proofs ---------------------------
(* Theorems about CacheAside, for every set of pages and updates, any number *)
(* of readers, writers and versions, and any number of faults.               *)
EXTENDS CacheAside, SequenceTheorems, TLAPS

(* The inductive invariant: a stale entry is accounted for. What is left of  *)
(* an update's patterns is part of the account, so the types matter: a       *)
(* writer is idle exactly when nothing is left.                              *)
CacheInv ==
    /\ TypeOK
    /\ ChangesInvalidateCovered

(* What is left of the patterns of an update that is under way.              *)
LEMMA TodoType ==
  ASSUME TypeOK, NEW w \in Writers, writer[w].step # "idle"
  PROVE  /\ writer[w].todo \in Seq(Keys)
         /\ writer[w].todo # <<>>
         /\ Len(writer[w].todo) \in Nat \ {0}
<1>1. writer[w] \in [step : {"idle", "scan", "del"}, todo : Seq(Keys)]
  BY DEF TypeOK
<1>2. writer[w].todo \in Seq(Keys)
  BY <1>1
<1>3. writer[w].todo # <<>>
  BY DEF TypeOK
<1> QED  BY <1>2, <1>3

(* A writer that moves on to its next pattern stays well typed, and drops    *)
(* nothing that the page still waits for, unless that was its first pattern. *)
LEMMA NextPatternType ==
  ASSUME TypeOK, NEW w \in Writers, writer[w].step # "idle", NextPattern(w)
  PROVE  /\ writer' \in [Writers -> [step : {"idle", "scan", "del"}, todo : Seq(Keys)]]
         /\ \A v \in Writers : (writer[v].step = "idle" <=> writer[v].todo = <<>>)'
<1> DEFINE todo == writer[w].todo
<1>1. todo \in Seq(Keys) /\ todo # <<>> /\ Len(todo) \in Nat \ {0}
  BY TodoType
<1>2. CASE Len(todo) = 1
  <2>1. IdleWriter \in [step : {"idle", "scan", "del"}, todo : Seq(Keys)]
    BY DEF IdleWriter
  <2>2. writer' = [writer EXCEPT ![w] = IdleWriter]
    BY <1>2 DEF NextPattern
  <2>3. writer' \in [Writers -> [step : {"idle", "scan", "del"}, todo : Seq(Keys)]]
    BY <2>1, <2>2 DEF TypeOK
  <2> QED  BY <2>2, <2>3 DEF TypeOK, IdleWriter
<1>3. CASE Len(todo) # 1
  <2>1. Tail(todo) \in Seq(Keys) /\ Len(Tail(todo)) = Len(todo) - 1
    BY <1>1
  <2>2. Tail(todo) # <<>>
    <3>1. Len(Tail(todo)) # 0
      BY <1>1, <1>3, <2>1
    <3>2. Len(<<>>) = 0
      BY EmptySeq
    <3> QED  BY <3>1, <3>2
  <2>3. writer' = [writer EXCEPT ![w] = [step |-> "scan", todo |-> Tail(todo)]]
    BY <1>3 DEF NextPattern
  <2>4. [step |-> "scan", todo |-> Tail(todo)] \in [step : {"idle", "scan", "del"}, todo : Seq(Keys)]
    BY <2>1
  <2>5. writer' \in [Writers -> [step : {"idle", "scan", "del"}, todo : Seq(Keys)]]
    BY <2>3, <2>4 DEF TypeOK
  <2> QED  BY <2>2, <2>3, <2>5 DEF TypeOK
<1> QED  BY <1>2, <1>3

(* Moving past a pattern that does not match the page's key leaves the       *)
(* deletion to come, if there is one.                                        *)
LEMMA NextPatternClears ==
  ASSUME TypeOK, NEW w \in Writers, writer[w].step # "idle", NextPattern(w), UNCHANGED page,
         ~Matches(Head(writer[w].todo), page.key), BeingCleared
  PROVE  BeingCleared'
<1> DEFINE todo == writer[w].todo
<1>1. todo \in Seq(Keys) /\ todo # <<>> /\ Len(todo) \in Nat \ {0}
  BY TodoType
<1>2. PICK v \in Writers : \E i \in DOMAIN writer[v].todo : Matches(writer[v].todo[i], page.key)
  BY DEF BeingCleared
<1>3. CASE v # w
  <2>1. writer'[v] = writer[v]
    BY <1>3 DEF TypeOK, NextPattern
  <2> QED  BY <1>2, <2>1 DEF BeingCleared
<1>4. CASE v = w
  <2>1. PICK i \in DOMAIN todo : Matches(todo[i], page.key)
    BY <1>2, <1>4
  <2>2. i \in 2..Len(todo)
    BY <1>1, <2>1
  <2>3. writer'[w].todo = Tail(todo)
    <3>1. Len(todo) # 1
      BY <1>1, <2>2
    <3>2. writer' = [writer EXCEPT ![w] = [step |-> "scan", todo |-> Tail(todo)]]
      BY <3>1 DEF NextPattern
    <3> QED  BY <3>2 DEF TypeOK
  <2>4. i - 1 \in DOMAIN Tail(todo) /\ Tail(todo)[i - 1] = todo[i]
    BY <1>1, <2>2
  <2> QED  BY <2>1, <2>3, <2>4 DEF BeingCleared
<1> QED  BY <1>3, <1>4

(* The cache is empty and current at the start. *)
LEMMA InitInv == Init => CacheInv
<1> SUFFICES ASSUME Init  PROVE CacheInv
  OBVIOUS
<1>1. TypeOK
  BY BoundsAssumption DEF Init, TypeOK, Versions, IdleReader, IdleWriter
<1>2. ~Stale
  BY DEF Init, Stale
<1> QED  BY <1>1, <1>2 DEF CacheInv, ChangesInvalidateCovered, ChangesInvalidate

(* Every step is typed. *)
LEMMA NextType == TypeOK /\ [Next]_vars => TypeOK'
<1> SUFFICES ASSUME TypeOK, [Next]_vars  PROVE TypeOK'
  OBVIOUS
<1> USE BoundsAssumption
<1>0. 0 \in Versions
  BY DEF Versions
<1> DEFINE Call == [step : {"idle", "query", "store"}, fill : BOOLEAN, seen : Versions]
<1>r. ASSUME NEW r \in Readers, NEW c \in Call, reader' = [reader EXCEPT ![r] = c]
      PROVE  reader' \in [Readers -> Call]
  BY <1>r DEF TypeOK
<1>1. ASSUME NEW r \in Readers, Lookup(r)  PROVE TypeOK'
  <2>1. /\ [step |-> "query", fill |-> TRUE, seen |-> 0] \in Call
        /\ [step |-> "query", fill |-> FALSE, seen |-> 0] \in Call
    BY <1>0
  <2>2. reader' \in [Readers -> Call]
    BY <1>1, <1>r, <2>1 DEF Lookup
  <2> QED  BY <1>1, <2>2 DEF Lookup, CommandFails, Fault, TypeOK
<1>2. ASSUME NEW r \in Readers, Query(r)  PROVE TypeOK'
  <2>1. reader' \in [Readers -> Call]
    <3>1. CASE reader' = [reader EXCEPT ![r] = IdleReader]
      BY <1>r, <1>0, <3>1 DEF IdleReader
    <3>2. CASE reader' = [reader EXCEPT ![r].step = "store", ![r].seen = version]
      BY <3>2 DEF TypeOK
    <3> QED  BY <1>2, <3>1, <3>2 DEF Query
  <2> QED  BY <1>2, <2>1 DEF Query, TypeOK
<1>3. ASSUME NEW r \in Readers, Store(r)  PROVE TypeOK'
  <2>1. IdleReader \in Call /\ reader[r].seen \in Versions
    BY <1>0 DEF IdleReader, TypeOK
  <2>2. reader' \in [Readers -> Call]
    BY <1>3, <1>r, <2>1 DEF Store
  <2>3. cached' \in Versions \union {None} /\ blemish' \subseteq {"lateFill", "notInvalidated", "imported"}
    BY <1>3, <2>1 DEF Store, TypeOK
  <2>4. expires' \in BOOLEAN
    BY <1>3 DEF Store, TypeOK
  <2>5. faults' \in 0..MaxFaults
    BY <1>3 DEF Store, CommandFails, Fault, TypeOK
  <2> QED  BY <1>3, <2>2, <2>3, <2>4, <2>5 DEF Store, TypeOK
<1>4. ASSUME NEW w \in Writers, Write(w)  PROVE TypeOK'
  BY <1>4, CacheAssumption DEF Write, IdleWriter, TypeOK, Versions
<1>5. ASSUME NEW w \in Writers, Scan(w)  PROVE TypeOK'
  <2>1. CASE NextPattern(w)
    <3>1. faults' \in 0..MaxFaults
      BY <1>5 DEF Scan, NotInvalidated, CommandFails, Fault, TypeOK
    <3>2. expires' = expires /\ blemish' \subseteq {"lateFill", "notInvalidated", "imported"}
      BY <1>5 DEF Scan, NotInvalidated, TypeOK
    <3>3. writer[w].step # "idle" /\ UNCHANGED <<page, version, cached, redis, reader>>
      BY <1>5 DEF Scan, NotInvalidated
    <3> QED  BY <2>1, <3>1, <3>2, <3>3, NextPatternType DEF TypeOK
  <2>2. CASE writer' = [writer EXCEPT ![w].step = "del"] /\ UNCHANGED <<cached, expires, blemish, faults>>
    BY <1>5, <2>2 DEF Scan, TypeOK
  <2> QED  BY <1>5, <2>1, <2>2 DEF Scan, NotInvalidated
<1>6. ASSUME NEW w \in Writers, Del(w)  PROVE TypeOK'
  <2>1. writer[w].step # "idle" /\ NextPattern(w)
    BY <1>6 DEF Del, NotInvalidated
  <2>2. cached' \in Versions \union {None} /\ blemish' \subseteq {"lateFill", "notInvalidated", "imported"}
    BY <1>6 DEF Del, Gone, NotInvalidated, TypeOK
  <2>3. faults' \in 0..MaxFaults
    BY <1>6 DEF Del, NotInvalidated, CommandFails, Fault, TypeOK
  <2>4. expires' \in BOOLEAN
    BY <1>6 DEF Del, Gone, NotInvalidated, TypeOK
  <2> QED  BY <1>6, <2>1, <2>2, <2>3, <2>4, NextPatternType DEF Del, TypeOK
<1>7. ASSUME NEW w \in Writers, WriterCrash(w)  PROVE TypeOK'
  BY <1>7 DEF WriterCrash, Fault, IdleWriter, TypeOK
<1>8. CASE Expire \/ Import
  <2>1. CASE Expire
    BY <2>1 DEF Expire, Gone, TypeOK
  <2>2. CASE Import
    <3>1. PICK entry \in Exported : cached' = entry.value /\ expires' = entry.expires
      BY <2>2 DEF Import
    <3>2. cached' \in Versions /\ expires' \in BOOLEAN
      BY <3>1 DEF Exported, TypeOK, Versions
    <3>3. blemish' \subseteq {"imported"} /\ faults' \in 0..MaxFaults
      BY <2>2 DEF Import, Fault, TypeOK
    <3>4. UNCHANGED <<page, version, redis, reader, writer>>
      BY <2>2 DEF Import
    <3> QED  BY <3>2, <3>3, <3>4 DEF TypeOK
  <2> QED  BY <1>8, <2>1, <2>2
<1>9. CASE RedisDown
  BY <1>9 DEF RedisDown, Fault, TypeOK
<1>10. CASE RedisUp \/ UNCHANGED vars
  BY <1>10 DEF RedisUp, vars, TypeOK
<1> QED  BY <1>1, <1>2, <1>3, <1>4, <1>5, <1>6, <1>7, <1>8, <1>9, <1>10
         DEF Next, ReaderStep, WriterContinues

(* An account given before a step stands after it, unless the step settles   *)
(* or shortens it.                                                           *)
LEMMA AccountStands ==
  ASSUME ChangesInvalidate, UNCHANGED <<page, version, cached>>,
         blemish = {} \/ blemish' # {}, BeingCleared => BeingCleared'
  PROVE  ChangesInvalidate'
BY DEF ChangesInvalidate, Stale

(* Every step keeps a stale entry accounted for, on a page that every update *)
(* of its data clears.                                                       *)
LEMMA NextInv == CacheInv /\ [Next]_vars => CacheInv'
<1> SUFFICES ASSUME CacheInv, [Next]_vars, Covered'  PROVE ChangesInvalidate'
  BY NextType DEF CacheInv, ChangesInvalidateCovered
<1> USE BoundsAssumption
<1>0. TypeOK /\ page' = page /\ Covered
  BY DEF CacheInv, Next, ReaderStep, WriterContinues, Lookup, Query, Store, Write, Scan, Del,
         WriterCrash, Import, Expire, RedisDown, RedisUp, vars, Covered, Affects, Clears
<1>1. ChangesInvalidate
  BY <1>0 DEF CacheInv, ChangesInvalidateCovered
<1>2. ASSUME UNCHANGED writer  PROVE BeingCleared => BeingCleared'
  BY <1>0, <1>2 DEF BeingCleared
<1>3. ASSUME NEW r \in Readers, Lookup(r) \/ Query(r)  PROVE ChangesInvalidate'
  BY <1>1, <1>2, <1>3, AccountStands DEF Lookup, Query
<1>4. ASSUME NEW r \in Readers, Store(r)  PROVE ChangesInvalidate'
  <2>1. CASE UNCHANGED <<cached, blemish>>
    BY <1>1, <1>2, <1>4, <2>1, AccountStands DEF Store
  <2>2. CASE cached' = reader[r].seen /\ reader[r].seen = version
    BY <1>4, <2>2 DEF Store, ChangesInvalidate, Stale
  <2>3. CASE cached' = reader[r].seen /\ reader[r].seen # version /\ blemish' = {"lateFill"}
    BY <2>3 DEF ChangesInvalidate
  <2> QED  BY <1>4, <2>1, <2>2, <2>3 DEF Store
<1>5. ASSUME NEW w \in Writers, Write(w)  PROVE ChangesInvalidate'
  <2>1. PICK u \in Updates :
           /\ Affects(u) \/ Clears(u)
           /\ writer' = [writer EXCEPT ![w] =
                 IF u.clears = <<>> THEN IdleWriter
                                    ELSE [step |-> "scan", todo |-> u.clears]]
    BY <1>5 DEF Write
  <2>2. Clears(u)
    BY <1>0, <2>1 DEF Covered
  <2>3. u.clears # <<>> /\ writer'[w].todo = u.clears
    BY <1>0, <2>1, <2>2 DEF Clears, TypeOK
  <2>4. BeingCleared'
    BY <1>0, <2>2, <2>3 DEF BeingCleared, Clears
  <2> QED  BY <2>4 DEF ChangesInvalidate
<1>6. ASSUME NEW w \in Writers, NEW missed \in BOOLEAN, NotInvalidated(w, missed),
             writer[w].step # "idle", UNCHANGED <<page, version>>,
             Stale /\ Matches(Head(writer[w].todo), page.key) => missed
      PROVE  ChangesInvalidate'
  <2>1. CASE missed
    BY <1>6, <2>1 DEF NotInvalidated, ChangesInvalidate
  <2>2. CASE ~missed /\ ~Stale
    BY <1>6, <2>2 DEF NotInvalidated, ChangesInvalidate, Stale
  <2>3. CASE ~missed /\ Stale
    <3>1. ~Matches(Head(writer[w].todo), page.key)
      BY <1>6, <2>3
    <3>2. BeingCleared => BeingCleared'
      BY <1>0, <1>6, <3>1, NextPatternClears DEF NotInvalidated
    <3> QED  BY <1>1, <1>6, <2>3, <3>2, AccountStands DEF NotInvalidated
  <2> QED  BY <2>1, <2>2, <2>3
<1>7. ASSUME NEW w \in Writers, Scan(w)  PROVE ChangesInvalidate'
  <2>1. CASE NotInvalidated(w, ScanFinds(w))
    BY <1>6, <1>7, <2>1 DEF Scan, ScanFinds, Stale
  <2>2. CASE ScanFinds(w) /\ writer' = [writer EXCEPT ![w].step = "del"] /\ UNCHANGED <<cached, blemish>>
    <3>1. \A v \in Writers : writer'[v].todo = writer[v].todo
      BY <1>0, <2>2 DEF TypeOK
    <3>2. BeingCleared => BeingCleared'
      BY <1>0, <3>1 DEF BeingCleared
    <3> QED  BY <1>1, <1>7, <2>2, <3>2, AccountStands DEF Scan
  <2>3. CASE ~ScanFinds(w) /\ NextPattern(w) /\ UNCHANGED <<cached, blemish>>
    <3>1. CASE cached = None
      BY <2>3, <3>1 DEF ChangesInvalidate, Stale
    <3>2. CASE ~Matches(Head(writer[w].todo), page.key)
      <4>1. BeingCleared => BeingCleared'
        BY <1>0, <1>7, <2>3, <3>2, NextPatternClears DEF Scan
      <4> QED  BY <1>1, <1>7, <2>3, <4>1, AccountStands DEF Scan
    <3> QED  BY <2>3, <3>1, <3>2 DEF ScanFinds
  <2> QED  BY <1>7, <2>1, <2>2, <2>3 DEF Scan
<1>8. ASSUME NEW w \in Writers, Del(w)  PROVE ChangesInvalidate'
  <2>1. CASE Gone
    BY <2>1 DEF Gone, ChangesInvalidate, Stale
  <2>2. CASE NotInvalidated(w, cached # None)
    BY <1>6, <1>8, <2>2 DEF Del, Stale
  <2> QED  BY <1>8, <2>1, <2>2 DEF Del
<1>9. ASSUME NEW w \in Writers, WriterCrash(w)  PROVE ChangesInvalidate'
  BY <1>9 DEF WriterCrash, ChangesInvalidate, Stale
<1>10. CASE Expire
  BY <1>10 DEF Expire, Gone, ChangesInvalidate, Stale
<1>11. CASE RedisDown \/ RedisUp \/ UNCHANGED vars
  BY <1>1, <1>2, <1>11, AccountStands DEF RedisDown, RedisUp, vars
<1>12. CASE Import
  BY <1>12 DEF Import, ChangesInvalidate, Stale
<1> QED  BY <1>3, <1>4, <1>5, <1>7, <1>8, <1>9, <1>10, <1>11, <1>12
         DEF Next, ReaderStep, WriterContinues

(* The invariant holds in every behaviour. *)
THEOREM Invariance == Spec => []CacheInv
BY InitInv, NextInv, PTL DEF Spec

(* Types, for every set of pages, updates, readers and writers: a writer is  *)
(* idle exactly when none of its patterns is left.                           *)
THEOREM TypeCorrect == Spec => []TypeOK
<1>1. CacheInv => TypeOK
  BY DEF CacheInv
<1> QED  BY <1>1, Invariance, PTL

(* invalidateCache() works on covered pages, however many requests overlap   *)
(* and whatever fails: a stale entry is about to be deleted, or was filled   *)
(* late, or a failure kept it from being deleted.                            *)
THEOREM CoveredPagesInvalidated == Spec => []ChangesInvalidateCovered
<1>1. CacheInv => ChangesInvalidateCovered
  BY DEF CacheInv
<1> QED  BY <1>1, Invariance, PTL

================================================================================
