---------------------------- MODULE PooledQueries ----------------------------
(***************************************************************************)
(* db/db.js: every handler sends its queries, one after the other, through *)
(* db.query() of one mysql2 pool, which takes a free connection for each   *)
(* query and gives it back after the answer.  Nothing ties the queries of  *)
(* a request to one connection: neither those between START TRANSACTION    *)
(* and COMMIT of helpers/permissionOverride.js and                         *)
(* routes/admin/roles/updateRolePermissions.js, nor those of others that   *)
(* come between them.                                                      *)
(*                                                                         *)
(* The pool and MySQL are external: free connections form a stack (mysql2  *)
(* pops the one released last), a transaction belongs to a connection,     *)
(* what it wrote stays locked and invisible to others until it ends, and a *)
(* connection that goes takes its transaction with it.                     *)
(***************************************************************************)
EXTENDS Naturals, Sequences, FiniteSets, HandlerQueries, SequencesExt

CONSTANTS
    Connections,  \* of the pool: config.database.connectionLimit
    Requests,     \* requests that may run at the same time
    Mixes,        \* what may run together: functions from requests to queries
    Initial,      \* the rows of each cell at the start
    MaxFaults,    \* bound of the model: faults that may happen
    None          \* no connection, no request

Cells == DOMAIN Initial

ASSUME PoolAssumption ==
    /\ Connections # {} /\ IsFiniteSet(Connections)
    /\ None \notin Connections \union Requests
    /\ MaxFaults \in Nat
    /\ \A mix \in Mixes : \A r \in Requests : \A i \in DOMAIN mix[r] :
          mix[r][i].cell \in Cells \union {"none"}

(* What the handlers have in common: they are sequences;                     *)
ASSUME ProgramsAssumption ==
    \A mix \in Mixes : \A r \in Requests :
        /\ Len(mix[r]) \in Nat
        /\ mix[r] = [i \in 1..Len(mix[r]) |-> mix[r][i]]
        /\ \A i \in DOMAIN mix[r] : mix[r][i].guarded \in BOOLEAN

(* where one has a transaction, it reads and may be refused, sends BEGIN as  *)
(* its query b, the DELETE, INSERTs and reads, COMMIT as its query e, and    *)
(* then only reads and logs;                                                 *)
ReplacesInTransaction(p, b, e, k) ==
    /\ b + 1 < e
    /\ p[b].op = "begin"
    /\ p[b + 1].op = "clear" /\ p[b + 1].cell = k
    /\ p[e].op = "commit"
    /\ \A i \in DOMAIN p :
          /\ i < b => p[i].op \in {"read", "present", "absent"} /\ ~p[i].guarded
          /\ b < i /\ i <= e => p[i].guarded
          /\ b + 1 < i /\ i < e => p[i].op = "read" \/ (p[i].op = "insert" /\ p[i].cell = k)
          /\ e < i => p[i].op \in {"read", "log"}

ASSUME TransactionsAssumption ==
    \A mix \in Mixes : \A r \in Requests :
        (\E i \in DOMAIN mix[r] : mix[r][i].op = "begin") =>
            \E b, e \in DOMAIN mix[r] : \E k \in Cells : ReplacesInTransaction(mix[r], b, e, k)

(* none deletes or empties a row that a unique index keeps, a rename writes  *)
(* another row than an INSERT or a change of status, and only the INSERT of  *)
(* a row that is there, and its log, are left out.                           *)
ASSUME NamesAssumption ==
    \A mix \in Mixes : \A q, r \in Requests :
        /\ \A i \in DOMAIN mix[q], j \in DOMAIN mix[r] :
              LET s == mix[q][i]
                  t == mix[r][j]
              IN  s.cell = t.cell =>
                    /\ t.op = "insertUnique" =>
                          /\ s.op # "clear"
                          /\ s.op \in {"insertUnique", "rename", "set"} => s.rows # {}
                    /\ t.op = "rename" =>
                          /\ s.op # "negate"
                          /\ s.op \in {"insertUnique", "set"} => s.rows \intersect t.rows = {}
        /\ \A i \in DOMAIN mix[r] : \A j \in DOMAIN mix[r] \intersect {i + 1, i + 2} :
              mix[r][i].op = "skipIf" =>
                 \/ mix[r][j].op = "log"
                 \/ mix[r][j].op = "insertUnique" /\ mix[r][j].cell = mix[r][i].cell

VARIABLES
    program,  \* program[r]: the queries request r is made of
    request,  \* request[r]: how far it is, and what it has been answered
    free,     \* the pool's stack of free connections
    pending,  \* pending[c]: what c's open transaction has written, by cell
    open,     \* connections with a transaction open
    rows,     \* rows[k]: the committed rows of cell k
    faults    \* the kinds of fault so far

vars == <<program, request, free, pending, open, rows, faults>>

Running == {"waiting", "asking"}

-----------------------------------------------------------------------------

(* A request may be absent: its program is empty.                            *)
Init ==
    /\ program \in Mixes
    /\ request = [r \in Requests |->
                    [step |-> IF program[r] = <<>> THEN "success" ELSE "waiting",
                     next |-> 1, on |-> None, seen |-> {}, failing |-> FALSE]]
    /\ free = SetToSeq(Connections)
    /\ pending = [c \in Connections |-> <<>>]
    /\ open = {}
    /\ rows = Initial
    /\ faults = <<>>

Fault(kind) ==
    /\ Len(faults) < MaxFaults
    /\ faults' = Append(faults, kind)

(* The query request r is at: that of its program, or ROLLBACK after an      *)
(* exception.                                                                *)
Current(r) == IF request[r].failing THEN Rollback ELSE program[r][request[r].next]

(* What connection c sees of cell k, and whether another one has it locked.  *)
Sees(c, k) == IF k \in DOMAIN pending[c] THEN pending[c][k] ELSE rows[k]

LockedFor(c, k) == \E d \in Connections \ {c} : k \in DOMAIN pending[d]

-----------------------------------------------------------------------------
(* What becomes of a request after an answer *)

Release(r) == free' = Append(free, request[r].on)

(* On to the query that is n further, or to the end.                         *)
GoOn(r, n, seen) ==
    /\ request' = [request EXCEPT ![r].next = @ + n,
                                  ![r].on = None,
                                  ![r].seen = seen,
                                  ![r].step = IF request[r].next + n > Len(program[r])
                                              THEN "success" ELSE "waiting"]
    /\ Release(r)

End(r, outcome) ==
    /\ request' = [request EXCEPT ![r].step = outcome, ![r].on = None]
    /\ Release(r)

(* Mutant: the catch block only throws on.                                   *)
ThrowWithoutRollback(r) == End(r, "error")

(* An exception: the catch block of a transaction sends ROLLBACK first.      *)
Throw(r) ==
    /\ request' = [request EXCEPT ![r].on = None,
                                  ![r].failing = Current(r).guarded,
                                  ![r].step = IF Current(r).guarded THEN "waiting" ELSE "error"]
    /\ Release(r)

-----------------------------------------------------------------------------
(* Transactions *)

(* What c's transaction has written is committed, or forgotten.              *)
CommitOn(c) == rows' = [k \in Cells |-> Sees(c, k)]

CloseTransaction(c) ==
    /\ pending' = [pending EXCEPT ![c] = <<>>]
    /\ open' = open \ {c}

(* START TRANSACTION ends the transaction that is open on its connection.    *)
BeginAnswer(r) ==
    /\ CommitOn(request[r].on)
    /\ pending' = [pending EXCEPT ![request[r].on] = <<>>]
    /\ open' = open \union {request[r].on}
    /\ GoOn(r, 1, request[r].seen)

CommitAnswer(r) ==
    /\ CommitOn(request[r].on)
    /\ CloseTransaction(request[r].on)
    /\ GoOn(r, 1, request[r].seen)

RollbackAnswer(r) ==
    /\ CloseTransaction(request[r].on)
    /\ End(r, "error")
    /\ UNCHANGED rows

-----------------------------------------------------------------------------
(* Reading and writing *)

(* SELECT, which waits for no lock.                                          *)
ReadAnswer(r) ==
    LET s == Current(r)
        found == s.cell \in Cells /\ Sees(request[r].on, s.cell) \intersect s.rows # {}
    IN  /\ \/ /\ s.op = "present" => found
              /\ s.op = "absent" => ~found
              /\ GoOn(r, IF s.op = "skipIf" /\ found THEN 3 ELSE 1,
                      IF s.cell \in Cells THEN Sees(request[r].on, s.cell) ELSE {})
           \/ /\ <<s.op, found>> \in {<<"present", FALSE>>, <<"absent", TRUE>>}
              /\ End(r, "refused")
        /\ UNCHANGED <<pending, open, rows>>

(* The opposite status; UPDATE ... SET is_active leaves deleted_at alone.    *)
Opposite(seen, now) ==
    IF now \intersect {"deleted", "deletedActive"} # {}
    THEN IF "active" \in seen THEN {"deleted"} ELSE {"deletedActive"}
    ELSE IF "active" \in seen THEN {"inactive"} ELSE {"active"}

(* Mutant: the migrations declare no unique index.                           *)
NoUniqueIndex(s, now) == s.op = "insert" /\ now \intersect s.rows # {}

Duplicate(s, now) ==
    \/ s.op = "insert" /\ now \intersect s.rows # {}
    \/ s.op = "insertUnique" /\ now # {}
    \/ s.op = "rename" /\ now \ s.rows # {}

Written(r, s, now) ==
    CASE s.op = "clear" -> {}
      [] s.op = "insert" -> now \union s.rows
      [] s.op \in {"insertUnique", "rename", "set"} -> s.rows
      [] s.op = "negate" -> Opposite(request[r].seen, now)
      [] s.op = "save" -> IF request[r].seen = {} THEN now \union {r} ELSE now

Writes == {"clear", "insert", "insertUnique", "rename", "set", "negate", "save"}

(* The effect stays with the connection while it is in a transaction.        *)
WriteAnswer(r) ==
    LET s == Current(r)
        c == request[r].on
        after == Written(r, s, Sees(c, s.cell))
    IN  /\ ~LockedFor(c, s.cell)
        /\ ~Duplicate(s, Sees(c, s.cell))
        /\ IF c \in open
           THEN /\ pending' = [pending EXCEPT ![c] =
                                 [k \in DOMAIN pending[c] \union {s.cell} |->
                                    IF k = s.cell THEN after ELSE pending[c][k]]]
                /\ UNCHANGED rows
           ELSE /\ rows' = [rows EXCEPT ![s.cell] = after]
                /\ UNCHANGED pending
        /\ GoOn(r, 1, request[r].seen)
        /\ UNCHANGED open

(* Mutant: the wait for a lock never times out.                              *)
WriteRejectedOnlyIfDuplicate(r) ==
    /\ Current(r).op \in Writes
    /\ Duplicate(Current(r), Sees(request[r].on, Current(r).cell))
    /\ Throw(r)
    /\ UNCHANGED <<pending, open, rows>>

(* The unique index, or innodb_lock_wait_timeout.                            *)
WriteRejected(r) ==
    LET s == Current(r) IN
    /\ s.op \in Writes
    /\ Duplicate(s, Sees(request[r].on, s.cell)) \/ LockedFor(request[r].on, s.cell)
    /\ Throw(r)
    /\ UNCHANGED <<pending, open, rows>>

LogAnswer(r) == GoOn(r, 1, request[r].seen) /\ UNCHANGED <<pending, open, rows>>

-----------------------------------------------------------------------------
(* Steps of a request *)

(* db.query() takes the connection on top of the stack.                      *)
Ask(r) ==
    /\ request[r].step = "waiting"
    /\ free # <<>>
    /\ request' = [request EXCEPT ![r].step = "asking", ![r].on = Last(free)]
    /\ free' = Front(free)
    /\ UNCHANGED <<program, pending, open, rows, faults>>

Answer(r) ==
    /\ request[r].step = "asking"
    /\ \/ Current(r).op = "begin" /\ BeginAnswer(r)
       \/ Current(r).op = "commit" /\ CommitAnswer(r)
       \/ Current(r).op = "rollback" /\ RollbackAnswer(r)
       \/ Current(r).op \in {"read", "present", "absent", "skipIf"} /\ ReadAnswer(r)
       \/ Current(r).op \in Writes /\ WriteAnswer(r)
       \/ Current(r).op = "log" /\ LogAnswer(r)
       \/ WriteRejected(r)
    /\ UNCHANGED <<program, faults>>

(* A query fails and nothing else.                                           *)
QueryFails(r) ==
    /\ request[r].step = "asking"
    /\ Current(r).op \notin {"begin", "commit", "rollback", "log"}
    /\ Fault("query")
    /\ Throw(r)
    /\ UNCHANGED <<program, pending, open, rows>>

(* The connection goes during a query; a new one takes its place. MySQL ends *)
(* its transaction; a COMMIT on its way may have come through. A victim of   *)
(* deadlock detection loses its transaction in the same way.                 *)
ConnectionLost(r) ==
    /\ request[r].step = "asking"
    /\ Fault("connection")
    /\ CloseTransaction(request[r].on)
    /\ \/ UNCHANGED rows
       \/ Current(r).op = "commit" /\ CommitOn(request[r].on)
    /\ CASE Current(r).op = "rollback" -> End(r, "error")
         [] Current(r).op = "log" -> GoOn(r, 1, request[r].seen)
         [] OTHER -> Throw(r)
    /\ UNCHANGED program

(* A free connection goes, perhaps between two queries of a transaction.     *)
FreeConnectionLost ==
    /\ Fault("free")
    /\ \E c \in Range(free) : CloseTransaction(c)
    /\ UNCHANGED <<program, request, free, rows>>

(* Mutant: idle connections are kept.                                        *)
IdleTimeoutNever == FALSE /\ UNCHANGED vars

(* The connections unused for longest have been so for config.database       *)
(* .idleTimeout: mysql2 closes them, and MySQL ends their transactions. A    *)
(* minute is longer than a request takes between two queries.                *)
IdleTimeout ==
    /\ \A r \in Requests : request[r].step # "waiting"
    /\ \E i \in DOMAIN free :
          LET closed == {free[j] : j \in 1..i} IN
          /\ closed \intersect open # {}
          /\ pending' = [c \in Connections |-> IF c \in closed THEN <<>> ELSE pending[c]]
          /\ open' = open \ closed
    /\ UNCHANGED <<program, request, free, rows, faults>>

(* The process dies, and with it all connections and requests.               *)
ProcessCrash ==
    /\ Fault("crash")
    /\ \E r \in Requests : request[r].step \in Running
    /\ request' = [r \in Requests |->
                     [request[r] EXCEPT !.step = IF @ \in Running THEN "dead" ELSE @, !.on = None]]
    /\ free' = SetToSeq(Connections)
    /\ pending' = [c \in Connections |-> <<>>]
    /\ open' = {}
    /\ UNCHANGED <<program, rows>>

Next ==
    \/ \E r \in Requests : Ask(r) \/ Answer(r) \/ QueryFails(r) \/ ConnectionLost(r)
    \/ FreeConnectionLost
    \/ IdleTimeout
    \/ ProcessCrash

Spec == Init /\ [][Next]_vars

(* The event loop goes on with every request; MySQL answers every query, at  *)
(* the latest when the wait for a lock times out; the pool's timer finds     *)
(* idle connections (it runs while maxIdle < connectionLimit, as in          *)
(* production).                                                              *)
Fairness ==
    /\ \A r \in Requests : WF_vars(Ask(r)) /\ WF_vars(Answer(r))
    /\ WF_vars(IdleTimeout)

FairSpec == Spec /\ Fairness

-----------------------------------------------------------------------------
(* Properties *)

Over(r) == request[r].step \notin Running

Alone(r) == \A q \in Requests \ {r} : program[q] = <<>>

HasTransaction(r) == \E i \in DOMAIN program[r] : program[r][i].op = "begin"

Touching(r, ops) == {program[r][i].cell : i \in {j \in DOMAIN program[r] : program[r][j].op \in ops}}

AskedFor(r, k) ==
    UNION {program[r][i].rows : i \in {j \in DOMAIN program[r] :
                                        program[r][j].op = "insert" /\ program[r][j].cell = k}}

(* updateRolePermissions() and updateUserPermissionOverrides(), while no     *)
(* other request is around, replace a set of permissions as a whole or not   *)
(* at all, whichever query, COMMIT or connection fails and whenever the      *)
(* process dies (unless a connection is lost between two queries), they      *)
(* report success only for the set asked for, and end their transaction.     *)
AloneReplacesWhole ==
    \A r \in Requests : Alone(r) /\ HasTransaction(r) /\ "free" \notin Range(faults) =>
       /\ \A k \in Touching(r, {"clear"}) :
             /\ rows[k] \in {Initial[k], AskedFor(r, k)}
             /\ request[r].step = "success" => rows[k] = AskedFor(r, k)
             /\ request[r].step = "refused" => rows[k] = Initial[k]
       /\ Over(r) => open = {}

Creates(r, k) == k \in Touching(r, {"insertUnique"}) \ Touching(r, {"skipIf"})

Renames(r, k) == k \in Touching(r, {"rename"})

(* Creating and renaming handlers look for the name and write it in two      *)
(* queries. Of two requests that give one name or address to two records at  *)
(* the same time, at most one succeeds, while no transaction is around: an   *)
(* INSERT that goes to a connection with a transaction open is answered, and *)
(* taken back when somebody else's ROLLBACK or a lost connection ends it.    *)
OneGetsTheName ==
    (\A r \in Requests : ~HasTransaction(r)) =>
       \A q, r \in Requests : \A k \in Cells :
          (q # r /\ Creates(q, k) /\ (Creates(r, k) \/ Renames(r, k)))
             => ~(request[q].step = "success" /\ request[r].step = "success")

(* No request waits for ever, not even for a lock that its own queries left  *)
(* on another connection.                                                    *)
RequestsEnd == \A r \in Requests : ~Over(r) ~> Over(r)

(* A transaction that was left open on a pooled connection, with its locks,  *)
(* goes once the application is quiet.                                       *)
LeftTransactionsEnd == (\A r \in Requests : Over(r)) ~> (open = {})
=============================================================================
