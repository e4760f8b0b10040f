------------------------ MODULE PooledQueries_proofs ------------------------
(* Theorems about PooledQueries, for any number of connections, of requests  *)
(* at the same time and of faults, and for any handlers of the shapes that   *)
(* the assumptions of PooledQueries name.                                    *)
EXTENDS PooledQueries, FiniteSetTheorems, SequenceTheorems, TLAPS

-----------------------------------------------------------------------------
(* The pool's stack *)

(* The connections, in any order, make a stack without repetition.           *)
LEMMA Stacked ==
  /\ SetToSeq(Connections) \in Seq(Connections)
  /\ SetToSeq(Connections) # <<>>
  /\ IsInjective(SetToSeq(Connections))
<1> DEFINE n == Cardinality(Connections)
<1>1. n \in Nat /\ ExistsBijection(1..n, Connections)
  BY FS_CardinalityType, PoolAssumption
<1>2. PICK f \in [1..n -> Connections] : IsInjective(f)
  BY <1>1 DEF ExistsBijection, Bijection, Injection
<1>3. SetToSeq(Connections) \in [1..n -> Connections] /\ IsInjective(SetToSeq(Connections))
  BY <1>2 DEF SetToSeq
<1>4. SetToSeq(Connections) \in Seq(Connections)
  BY <1>1, <1>3, IsASeq
<1>5. n # 0
  BY FS_EmptySet, PoolAssumption
<1>6. SetToSeq(Connections) # <<>>
  <2>1. ASSUME NEW g \in [1..n -> Connections]  PROVE g # <<>>
    BY <1>1, <1>5, <2>1
  <2> QED  BY <1>3, <2>1
<1> QED  BY <1>3, <1>4, <1>6

LEMMA Popped ==
  ASSUME NEW s \in Seq(Connections), s # <<>>
  PROVE  /\ Front(s) \in Seq(Connections)
         /\ Last(s) \in Connections
         /\ IsInjective(s) => IsInjective(Front(s)) /\ Last(s) \notin Range(Front(s))
<1>1. Len(s) \in Nat \ {0} /\ DOMAIN s = 1..Len(s)
  BY EmptySeq, LenProperties
<1>2. /\ Front(s) \in Seq(Connections)
      /\ DOMAIN Front(s) = 1..(Len(s) - 1)
      /\ \A i \in 1..(Len(s) - 1) : Front(s)[i] = s[i]
  BY <1>1, SubSeqProperties DEF Front
<1>3. Last(s) \in Connections
  BY <1>1, ElementOfSeq DEF Last
<1> QED  BY <1>1, <1>2, <1>3 DEF Last, IsInjective, Range

LEMMA Pushed ==
  ASSUME NEW s \in Seq(Connections), NEW c \in Connections
  PROVE  /\ Append(s, c) \in Seq(Connections)
         /\ Append(s, c) # <<>>
         /\ Last(Append(s, c)) = c
         /\ IsInjective(s) /\ c \notin Range(s) => IsInjective(Append(s, c))
<1>1. Len(s) \in Nat /\ DOMAIN s = 1..Len(s)
  BY LenProperties
<1>2. /\ Append(s, c) \in Seq(Connections)
      /\ Append(s, c) # <<>>
      /\ Len(Append(s, c)) = Len(s) + 1
      /\ \A i \in 1..Len(s) : Append(s, c)[i] = s[i]
      /\ Append(s, c)[Len(s) + 1] = c
  BY AppendProperties
<1>3. DOMAIN Append(s, c) = 1..(Len(s) + 1)
  BY <1>2, LenProperties
<1> QED  BY <1>1, <1>2, <1>3 DEF Last, IsInjective, Range

-----------------------------------------------------------------------------
(* The handlers with a transaction are of the form that is assumed *)

(* Sequences, of whatever elements.                                          *)
IsSequence(s) == Len(s) \in Nat /\ s = [i \in 1..Len(s) |-> s[i]]

(* A function on 1..n is one, of length n.                                   *)
LEMMA MadeSequence ==
  ASSUME NEW n \in Nat, NEW f, f = [i \in 1..n |-> f[i]]
  PROVE  IsSequence(f) /\ Len(f) = n
<1> DEFINE S == {f[i] : i \in 1..n}
<1>1. f \in [1..n -> S]
  OBVIOUS
<1>2. f \in Seq(S)
  BY <1>1, IsASeq
<1>3. Len(f) = n
  BY <1>1, <1>2, LenProperties
<1> QED  BY <1>3 DEF IsSequence

(* One sequence after the other.                                            *)
LEMMA Concatenated ==
  ASSUME NEW s, NEW t, IsSequence(s), IsSequence(t)
  PROVE  /\ IsSequence(s \o t)
         /\ Len(s \o t) = Len(s) + Len(t)
         /\ \A i \in 1..Len(s) : (s \o t)[i] = s[i]
         /\ \A i \in 1..Len(t) : (s \o t)[Len(s) + i] = t[i]
<1> DEFINE S == {s[i] : i \in 1..Len(s)} \union {t[i] : i \in 1..Len(t)}
<1>1. s \in Seq(S)
  <2>1. s \in [1..Len(s) -> S]
    BY DEF IsSequence
  <2> QED  BY <2>1, IsASeq DEF IsSequence
<1>2. t \in Seq(S)
  <2>1. t \in [1..Len(t) -> S]
    BY DEF IsSequence
  <2> QED  BY <2>1, IsASeq DEF IsSequence
<1>3. /\ s \o t \in Seq(S)
      /\ Len(s \o t) = Len(s) + Len(t)
      /\ \A i \in 1..Len(s) + Len(t) : (s \o t)[i] = IF i <= Len(s) THEN s[i] ELSE t[i - Len(s)]
  BY <1>1, <1>2, ConcatProperties
<1>4. Len(s) \in Nat /\ Len(t) \in Nat
  BY DEF IsSequence
<1>5. s \o t \in [1..(Len(s) + Len(t)) -> S]
  BY <1>3, LenProperties
<1>6. IsSequence(s \o t)
  <2>1. PICK f : f = s \o t
    OBVIOUS
  <2>2. f = [i \in 1..(Len(s) + Len(t)) |-> f[i]]
    BY <1>5, <2>1
  <2>3. Len(s) + Len(t) \in Nat
    BY <1>4
  <2> QED  BY <2>1, <2>2, <2>3, MadeSequence
<1>7. ASSUME NEW i \in 1..Len(s)  PROVE (s \o t)[i] = s[i]
  BY <1>3, <1>4
<1>8. ASSUME NEW i \in 1..Len(t)  PROVE (s \o t)[Len(s) + i] = t[i]
  <2>1. Len(s) + i \in 1..Len(s) + Len(t) /\ ~(Len(s) + i <= Len(s)) /\ (Len(s) + i) - Len(s) = i
    BY <1>4
  <2> QED  BY <1>3, <2>1
<1> QED  BY <1>3, <1>6, <1>7, <1>8

(* The queries of a try block, one by one.                                   *)
LEMMA GuardedSequence ==
  ASSUME NEW s, IsSequence(s)
  PROVE  /\ IsSequence(Guarded(s))
         /\ Len(Guarded(s)) = Len(s)
         /\ \A i \in 1..Len(s) : Guarded(s)[i] = [s[i] EXCEPT !.guarded = TRUE]
<1>1. PICK n \in Nat : n = Len(s) /\ DOMAIN s = 1..n
  BY DEF IsSequence
<1>2. Guarded(s) = [i \in 1..n |-> [s[i] EXCEPT !.guarded = TRUE]]
  BY <1>1 DEF Guarded
<1> QED  BY <1>1, <1>2, MadeSequence

(* Query q is one of a try block, of this kind and on this cell.             *)
GuardedBy(q, op, cell) == q.op = op /\ q.cell = cell /\ q.guarded = TRUE

(* What Guarded makes of a query.                                           *)
LEMMA GuardedQuery ==
  ASSUME NEW op, NEW cell, NEW queried,
         NEW q, q = [Query(op, cell, queried) EXCEPT !.guarded = TRUE]
  PROVE  GuardedBy(q, op, cell)
BY DEF GuardedBy, Query

(* Short sequences.                                                          *)
LEMMA Literals ==
  ASSUME NEW a, NEW b, NEW c, NEW d
  PROVE  /\ IsSequence(<<>>) /\ IsSequence(<<a>>) /\ IsSequence(<<a, b>>)
         /\ IsSequence(<<a, b, c>>) /\ IsSequence(<<a, b, c, d>>)
<1>1. IsSequence(<<>>)
  BY DEF IsSequence
<1>2. IsSequence(<<a>>)
  BY DEF IsSequence
<1>3. IsSequence(<<a, b>>)
  BY DEF IsSequence
<1>4. IsSequence(<<a, b, c>>)
  BY DEF IsSequence
<1>5. IsSequence(<<a, b, c, d>>)
  BY DEF IsSequence
<1> QED  BY <1>1, <1>2, <1>3, <1>4, <1>5

(* updateRolePermissions() has the form that ReplacesInTransaction describes *)
(* whichever permissions are asked for, none included: BEGIN, the DELETE,    *)
(* the INSERT and COMMIT, of which only the INSERT may be missing.           *)
THEOREM RolePermissionsInTransaction ==
  ASSUME NEW asked
  PROVE  LET p == updateRolePermissions(asked)
         IN  /\ IsSequence(p)
             /\ \A i \in DOMAIN p : p[i].guarded \in BOOLEAN
             /\ \E b, e \in DOMAIN p : ReplacesInTransaction(p, b, e, "rolePermissions")
<1> DEFINE k == "rolePermissions"
           before == <<Present("role", {"live"}), Read("none"), Read(k), Begin>>
           asking == IF asked = {} THEN <<>> ELSE <<Insert(k, asked)>>
           after == <<Read(k), Commit, Log>>
           written == <<Clear(k)>> \o asking
           replaced == written \o after
           p == before \o Guarded(replaced)
<1>1. /\ IsSequence(before) /\ Len(before) = 4
      /\ IsSequence(<<Clear(k)>>) /\ Len(<<Clear(k)>>) = 1
      /\ IsSequence(after) /\ Len(after) = 3
  BY Literals
<1>2. PICK n \in {0, 1} : /\ IsSequence(asking) /\ Len(asking) = n
                         /\ \A i \in 1..n : asking[i] = Insert(k, asked)
  <2>1. CASE asked = {}
    <3>1. asking = <<>> /\ IsSequence(<<>>) /\ Len(<<>>) = 0
      BY <2>1, Literals
    <3> WITNESS 0 \in {0, 1}
    <3> QED  BY <3>1
  <2>2. CASE asked # {}
    <3>1. asking = <<Insert(k, asked)>> /\ IsSequence(<<Insert(k, asked)>>)
      BY <2>2, Literals
    <3>2. Len(<<Insert(k, asked)>>) = 1 /\ <<Insert(k, asked)>>[1] = Insert(k, asked)
      OBVIOUS
    <3> WITNESS 1 \in {0, 1}
    <3> QED  BY <3>1, <3>2
  <2> QED  BY <2>1, <2>2
<1>3. /\ IsSequence(written) /\ Len(written) = 1 + n
      /\ written[1] = Clear(k)
      /\ \A i \in 1..n : written[1 + i] = Insert(k, asked)
  <2> HIDE DEF asking
  <2>1. <<Clear(k)>>[1] = Clear(k)
    OBVIOUS
  <2> QED  BY <1>1, <1>2, <2>1, Concatenated
<1>4. /\ IsSequence(replaced) /\ Len(replaced) = 4 + n
      /\ replaced[1] = Clear(k)
      /\ \A i \in 1..n : replaced[1 + i] = Insert(k, asked)
      /\ replaced[2 + n] = Read(k) /\ replaced[3 + n] = Commit /\ replaced[4 + n] = Log
  <2>1. PICK w : /\ w = written /\ IsSequence(w) /\ Len(w) = 1 + n
                 /\ w[1] = Clear(k)
                 /\ \A i \in 1..n : w[1 + i] = Insert(k, asked)
    BY <1>3
  <2>2. PICK a : /\ a = after /\ IsSequence(a) /\ Len(a) = 3
                 /\ a[1] = Read(k) /\ a[2] = Commit /\ a[3] = Log
    BY <1>1
  <2>3. replaced = w \o a
    BY <2>1, <2>2
  <2> HIDE DEF replaced
  <2>4. /\ IsSequence(replaced) /\ Len(replaced) = Len(w) + Len(a)
        /\ \A i \in 1..Len(w) : replaced[i] = w[i]
        /\ \A i \in 1..Len(a) : replaced[Len(w) + i] = a[i]
    BY <2>1, <2>2, <2>3, Concatenated
  <2>5. /\ replaced[(1 + n) + 1] = Read(k)
        /\ replaced[(1 + n) + 2] = Commit
        /\ replaced[(1 + n) + 3] = Log
    BY <2>1, <2>2, <2>4
  <2>6. replaced[1] = Clear(k) /\ \A i \in 1..n : replaced[1 + i] = Insert(k, asked)
    BY <2>1, <2>4
  <2> QED  BY <2>1, <2>2, <2>4, <2>5, <2>6
<1>5. /\ IsSequence(p) /\ Len(p) = 8 + n
      /\ \A i \in 1..4 : p[i] = before[i]
      /\ \A i \in 1..(4 + n) : p[4 + i] = [replaced[i] EXCEPT !.guarded = TRUE]
  <2>1. PICK r : r = replaced
    OBVIOUS
  <2>2. /\ IsSequence(Guarded(r)) /\ Len(Guarded(r)) = 4 + n
        /\ \A i \in 1..(4 + n) : Guarded(r)[i] = [r[i] EXCEPT !.guarded = TRUE]
    BY <1>4, <2>1, GuardedSequence
  <2>3. PICK g : /\ g = Guarded(r)
                 /\ IsSequence(g) /\ Len(g) = 4 + n
    BY <2>2
  <2>4. PICK f : f = before /\ IsSequence(f) /\ Len(f) = 4
    BY <1>1
  <2>5. p = f \o g
    BY <2>1, <2>3, <2>4
  <2> HIDE DEF p
  <2>6. /\ IsSequence(p) /\ Len(p) = Len(f) + Len(g)
        /\ \A i \in 1..Len(f) : p[i] = f[i]
        /\ \A i \in 1..Len(g) : p[Len(f) + i] = g[i]
    <3>1. IsSequence(f) /\ IsSequence(g)
      BY <2>3, <2>4
    <3> QED  BY <2>5, <3>1, Concatenated
  <2>7. /\ IsSequence(p) /\ Len(p) = 8 + n
        /\ \A i \in 1..4 : p[i] = f[i]
        /\ \A i \in 1..(4 + n) : p[4 + i] = g[i]
    BY <2>3, <2>4, <2>6
  <2>8. ASSUME NEW i \in 1..(4 + n)  PROVE p[4 + i] = [replaced[i] EXCEPT !.guarded = TRUE]
    BY <2>1, <2>2, <2>3, <2>7, Zenon
  <2> QED  BY <2>4, <2>7, <2>8
<1>6. /\ p[1] = Present("role", {"live"}) /\ p[2] = Read("none") /\ p[3] = Read(k) /\ p[4] = Begin
  BY <1>5
<1>7. /\ GuardedBy(p[5], "clear", k)
      /\ \A i \in 1..n : GuardedBy(p[5 + i], "insert", k)
      /\ GuardedBy(p[6 + n], "read", k)
      /\ GuardedBy(p[7 + n], "commit", "none")
      /\ GuardedBy(p[8 + n], "log", "none")
  <2> HIDE DEF replaced, p
  <2>1. GuardedBy(p[5], "clear", k)
    <3>1. p[4 + 1] = [Clear(k) EXCEPT !.guarded = TRUE]
      BY <1>4, <1>5
    <3> QED  BY <3>1, GuardedQuery DEF Clear
  <2>2. ASSUME NEW i \in 1..n  PROVE GuardedBy(p[5 + i], "insert", k)
    <3>1. p[4 + (1 + i)] = [Insert(k, asked) EXCEPT !.guarded = TRUE]
      BY <1>4, <1>5
    <3>2. p[5 + i] = p[4 + (1 + i)]
      OBVIOUS
    <3> QED  BY <3>1, <3>2, GuardedQuery DEF Insert
  <2>3. GuardedBy(p[6 + n], "read", k)
    <3>1. p[4 + (2 + n)] = [Read(k) EXCEPT !.guarded = TRUE]
      BY <1>4, <1>5
    <3> QED  BY <3>1, GuardedQuery DEF Read
  <2>4. GuardedBy(p[7 + n], "commit", "none")
    <3>1. p[4 + (3 + n)] = [Commit EXCEPT !.guarded = TRUE]
      BY <1>4, <1>5
    <3> QED  BY <3>1, GuardedQuery DEF Commit
  <2>5. GuardedBy(p[8 + n], "log", "none")
    <3>1. p[4 + (4 + n)] = [Log EXCEPT !.guarded = TRUE]
      BY <1>4, <1>5
    <3> QED  BY <3>1, GuardedQuery DEF Log
  <2> QED  BY <2>1, <2>2, <2>3, <2>4, <2>5
<1>8. DOMAIN p = 1..(8 + n)
  <2> HIDE DEF p
  <2> QED  BY <1>5 DEF IsSequence
<1> HIDE DEF p
<1>9. \A i \in DOMAIN p : p[i].guarded \in BOOLEAN
  <2>1. \A i \in 1..4 : p[i].guarded = FALSE
    BY <1>6 DEF Present, Read, Begin, Query
  <2>2. \A i \in 5..(8 + n) : p[i].guarded = TRUE
    BY <1>7 DEF GuardedBy
  <2>3. ASSUME NEW i \in DOMAIN p  PROVE p[i].guarded \in BOOLEAN
    <3>1. i \in 1..4 \/ i \in 5..(8 + n)
      BY <1>8
    <3>2. p[i].guarded = FALSE \/ p[i].guarded = TRUE
      BY <2>1, <2>2, <3>1
    <3> QED  BY <3>2
  <2> QED  BY <2>3
<1>10. ReplacesInTransaction(p, 4, 7 + n, k)
  BY <1>6, <1>7, <1>8 DEF ReplacesInTransaction, GuardedBy, Present, Read, Begin, Query
<1>11. 4 \in DOMAIN p /\ 7 + n \in DOMAIN p
  BY <1>8
<1>12. p = updateRolePermissions(asked)
  BY DEF p, updateRolePermissions
<1> QED  BY <1>5, <1>9, <1>10, <1>11, <1>12

(* updateUserPermissionOverrides(), within updateUserPermissions(), has that *)
(* form for any lists of grants and revokes, one INSERT for each of them.    *)
THEOREM UserPermissionsInTransaction ==
  ASSUME NEW Permissions, NEW granted \in Seq(Permissions), NEW revoked \in Seq(Permissions)
  PROVE  LET p == updateUserPermissions(granted, revoked)
         IN  /\ IsSequence(p)
             /\ \A i \in DOMAIN p : p[i].guarded \in BOOLEAN
             /\ \E b, e \in DOMAIN p : ReplacesInTransaction(p, b, e, "userPermissions")
<1> DEFINE k == "userPermissions"
<1>1. PICK m \in Nat, n \in Nat : m = Len(granted) /\ n = Len(revoked)
  BY LenProperties
<1>2. PICK grants : grants = [i \in DOMAIN granted |-> Insert(k, {<<granted[i], "grant">>})]
  OBVIOUS
<1>3. PICK revokes : revokes = [i \in DOMAIN revoked |-> Insert(k, {<<revoked[i], "revoke">>})]
  OBVIOUS
<1>4. /\ IsSequence(grants) /\ Len(grants) = m
      /\ \A i \in 1..m : grants[i] = Insert(k, {<<granted[i], "grant">>})
  <2>1. DOMAIN granted = 1..m
    BY <1>1, LenProperties
  <2>2. grants = [i \in 1..m |-> Insert(k, {<<granted[i], "grant">>})]
    BY <1>2, <2>1
  <2>3. grants = [i \in 1..m |-> grants[i]]
    BY <2>2
  <2> QED  BY <2>2, <2>3, MadeSequence
<1>5. /\ IsSequence(revokes) /\ Len(revokes) = n
      /\ \A i \in 1..n : revokes[i] = Insert(k, {<<revoked[i], "revoke">>})
  <2>1. DOMAIN revoked = 1..n
    BY <1>1, LenProperties
  <2>2. revokes = [i \in 1..n |-> Insert(k, {<<revoked[i], "revoke">>})]
    BY <1>3, <2>1
  <2>3. revokes = [i \in 1..n |-> revokes[i]]
    BY <2>2
  <2> QED  BY <2>2, <2>3, MadeSequence
<1>6. PICK start : start = <<Begin, Clear(k)>>
  OBVIOUS
<1>7. IsSequence(start) /\ Len(start) = 2 /\ start[1] = Begin /\ start[2] = Clear(k)
  BY <1>6, Literals
<1>8. PICK end : end = <<Commit>>
  OBVIOUS
<1>9. IsSequence(end) /\ Len(end) = 1 /\ end[1] = Commit
  BY <1>8, Literals
<1>10. PICK before : before = <<Present("user1", Accounts), Read("none"), Read(k)>>
  OBVIOUS
<1>11. /\ IsSequence(before) /\ Len(before) = 3
       /\ before[1] = Present("user1", Accounts) /\ before[2] = Read("none") /\ before[3] = Read(k)
  BY <1>10, Literals
<1>12. PICK after : after = <<Read(k), Log>>
  OBVIOUS
<1>13. IsSequence(after) /\ Len(after) = 2 /\ after[1] = Read(k) /\ after[2] = Log
  BY <1>12, Literals
<1>14. PICK w : w = start \o grants
  OBVIOUS
<1>15. /\ IsSequence(w) /\ Len(w) = 2 + m
       /\ w[1] = Begin /\ w[2] = Clear(k)
       /\ \A i \in 1..m : w[2 + i] = grants[i]
  <2>1. /\ IsSequence(w) /\ Len(w) = Len(start) + Len(grants)
        /\ \A i \in 1..Len(start) : w[i] = start[i]
        /\ \A i \in 1..Len(grants) : w[Len(start) + i] = grants[i]
    <3>1. IsSequence(start) /\ IsSequence(grants)
      BY <1>4, <1>7
    <3> QED  BY <1>14, <3>1, Concatenated
  <2>2. Len(start) = 2 /\ Len(grants) = m
    BY <1>4, <1>7
  <2>3. w[1] = start[1] /\ w[2] = start[2]
    BY <2>1, <2>2
  <2> QED  BY <1>7, <2>1, <2>2, <2>3
<1>16. PICK x : x = w \o revokes
  OBVIOUS
<1>17. /\ IsSequence(x) /\ Len(x) = 2 + m + n
       /\ x[1] = Begin /\ x[2] = Clear(k)
       /\ \A i \in 1..m : x[2 + i] = grants[i]
       /\ \A i \in 1..n : x[2 + m + i] = revokes[i]
  <2>1. /\ IsSequence(x) /\ Len(x) = Len(w) + Len(revokes)
        /\ \A i \in 1..Len(w) : x[i] = w[i]
        /\ \A i \in 1..Len(revokes) : x[Len(w) + i] = revokes[i]
    <3>1. IsSequence(w) /\ IsSequence(revokes)
      BY <1>5, <1>15
    <3> QED  BY <1>16, <3>1, Concatenated
  <2>2. Len(w) = 2 + m /\ Len(revokes) = n
    BY <1>5, <1>15
  <2>3. ASSUME NEW i \in 1..m  PROVE x[2 + i] = grants[i]
    <3>1. 2 + i \in 1..(2 + m)
      OBVIOUS
    <3>2. x[2 + i] = w[2 + i]
      BY <2>1, <2>2, <3>1
    <3> QED  BY <1>15, <3>2
  <2>4. x[1] = w[1] /\ x[2] = w[2]
    BY <2>1, <2>2
  <2> QED  BY <1>15, <2>1, <2>2, <2>3, <2>4
<1>18. PICK y : y = x \o end
  OBVIOUS
<1>19. /\ IsSequence(y) /\ Len(y) = 3 + m + n
       /\ y[1] = Begin /\ y[2] = Clear(k)
       /\ \A i \in 1..m : y[2 + i] = grants[i]
       /\ \A i \in 1..n : y[2 + m + i] = revokes[i]
       /\ y[3 + m + n] = Commit
  <2>1. /\ IsSequence(y) /\ Len(y) = Len(x) + Len(end)
        /\ \A i \in 1..Len(x) : y[i] = x[i]
        /\ \A i \in 1..Len(end) : y[Len(x) + i] = end[i]
    <3>1. IsSequence(x) /\ IsSequence(end)
      BY <1>9, <1>17
    <3> QED  BY <1>18, <3>1, Concatenated
  <2>2. Len(x) = 2 + m + n /\ Len(end) = 1
    BY <1>9, <1>17
  <2>3. ASSUME NEW i \in 1..m  PROVE y[2 + i] = grants[i]
    <3>1. 2 + i \in 1..(2 + m + n)
      OBVIOUS
    <3>2. y[2 + i] = x[2 + i]
      BY <2>1, <2>2, <3>1
    <3> QED  BY <1>17, <3>2
  <2>4. ASSUME NEW i \in 1..n  PROVE y[2 + m + i] = revokes[i]
    <3>1. 2 + m + i \in 1..(2 + m + n)
      OBVIOUS
    <3>2. y[2 + m + i] = x[2 + m + i]
      BY <2>1, <2>2, <3>1
    <3> QED  BY <1>17, <3>2
  <2>5. y[1] = x[1] /\ y[2] = x[2]
    BY <2>1, <2>2
  <2>6. y[3 + m + n] = end[1]
    <3>1. y[(2 + m + n) + 1] = end[1]
      BY <2>1, <2>2
    <3>2. (2 + m + n) + 1 = 3 + m + n
      OBVIOUS
    <3> QED  BY <3>1, <3>2
  <2>7. (2 + m + n) + 1 = 3 + m + n
    OBVIOUS
  <2> QED  BY <1>9, <1>17, <2>1, <2>2, <2>3, <2>4, <2>5, <2>6, <2>7
<1>20. PICK g : g = Guarded(y)
  OBVIOUS
<1>21. IsSequence(g) /\ Len(g) = 3 + m + n
  BY <1>19, <1>20, GuardedSequence
<1>22. /\ GuardedBy(g[1], "begin", "none") /\ GuardedBy(g[2], "clear", k)
       /\ \A i \in 1..m : GuardedBy(g[2 + i], "insert", k)
       /\ \A i \in 1..n : GuardedBy(g[2 + m + i], "insert", k)
       /\ GuardedBy(g[3 + m + n], "commit", "none")
  <2>1. ASSUME NEW i \in 1..(3 + m + n), NEW op, NEW cell, NEW queried, y[i] = Query(op, cell, queried)
        PROVE  GuardedBy(g[i], op, cell)
    <3>1. Guarded(y)[i] = [y[i] EXCEPT !.guarded = TRUE]
      BY <1>19, GuardedSequence, Zenon
    <3>2. g[i] = [Query(op, cell, queried) EXCEPT !.guarded = TRUE]
      BY <1>20, <2>1, <3>1, Zenon
    <3> QED  BY <3>2, GuardedQuery
  <2>2. 1 \in 1..(3 + m + n) /\ 2 \in 1..(3 + m + n) /\ 3 + m + n \in 1..(3 + m + n)
    OBVIOUS
  <2>3. GuardedBy(g[1], "begin", "none") /\ GuardedBy(g[2], "clear", k) /\ GuardedBy(g[3 + m + n], "commit", "none")
    BY <1>19, <2>1, <2>2, Zenon DEF Begin, Clear, Commit
  <2>4. ASSUME NEW i \in 1..m  PROVE GuardedBy(g[2 + i], "insert", k)
    <3>1. 2 + i \in 1..(3 + m + n)
      OBVIOUS
    <3>2. y[2 + i] = Query("insert", k, {<<granted[i], "grant">>})
      BY <1>4, <1>19, Zenon DEF Insert
    <3> QED  BY <2>1, <3>1, <3>2, Zenon
  <2>5. ASSUME NEW i \in 1..n  PROVE GuardedBy(g[2 + m + i], "insert", k)
    <3>1. 2 + m + i \in 1..(3 + m + n)
      OBVIOUS
    <3>2. y[2 + m + i] = Query("insert", k, {<<revoked[i], "revoke">>})
      BY <1>5, <1>19, Zenon DEF Insert
    <3> QED  BY <2>1, <3>1, <3>2, Zenon
  <2> QED  BY <2>3, <2>4, <2>5
<1>23. PICK h : h = before \o g
  OBVIOUS
<1>24. /\ IsSequence(h) /\ Len(h) = 6 + m + n
       /\ h[1] = Present("user1", Accounts) /\ h[2] = Read("none") /\ h[3] = Read(k)
       /\ \A i \in 1..(3 + m + n) : h[3 + i] = g[i]
  <2>1. /\ IsSequence(h) /\ Len(h) = Len(before) + Len(g)
        /\ \A i \in 1..Len(before) : h[i] = before[i]
        /\ \A i \in 1..Len(g) : h[Len(before) + i] = g[i]
    <3>1. IsSequence(before) /\ IsSequence(g)
      BY <1>11, <1>21
    <3> QED  BY <1>23, <3>1, Concatenated
  <2>2. Len(before) = 3 /\ Len(g) = 3 + m + n
    BY <1>11, <1>21
  <2>3. h[1] = before[1] /\ h[2] = before[2] /\ h[3] = before[3]
    BY <2>1, <2>2
  <2>4. 3 + (3 + m + n) = 6 + m + n
    OBVIOUS
  <2> QED  BY <1>11, <2>1, <2>2, <2>3, <2>4
<1>25. PICK p : p = h \o after
  OBVIOUS
<1>26. /\ IsSequence(p) /\ Len(p) = 8 + m + n
       /\ p[1] = Present("user1", Accounts) /\ p[2] = Read("none") /\ p[3] = Read(k)
       /\ \A i \in 1..(3 + m + n) : p[3 + i] = g[i]
       /\ p[7 + m + n] = Read(k) /\ p[8 + m + n] = Log
  <2>1. /\ IsSequence(p) /\ Len(p) = Len(h) + Len(after)
        /\ \A i \in 1..Len(h) : p[i] = h[i]
        /\ \A i \in 1..Len(after) : p[Len(h) + i] = after[i]
    <3>1. IsSequence(h) /\ IsSequence(after)
      BY <1>13, <1>24
    <3> QED  BY <1>25, <3>1, Concatenated
  <2>2. Len(h) = 6 + m + n /\ Len(after) = 2
    BY <1>13, <1>24
  <2>3. p[1] = h[1] /\ p[2] = h[2] /\ p[3] = h[3]
    BY <2>1, <2>2
  <2>4. p[(6 + m + n) + 1] = after[1] /\ p[(6 + m + n) + 2] = after[2]
    BY <2>1, <2>2
  <2>5. /\ (6 + m + n) + 1 = 7 + m + n
        /\ (6 + m + n) + 2 = 8 + m + n
    OBVIOUS
  <2>6. p[7 + m + n] = Read(k) /\ p[8 + m + n] = Log
    BY <1>13, <2>4, <2>5
  <2>7. ASSUME NEW i \in 1..(3 + m + n)  PROVE p[3 + i] = g[i]
    <3>1. 3 + i \in 1..(6 + m + n)
      OBVIOUS
    <3>2. p[3 + i] = h[3 + i]
      BY <2>1, <2>2, <3>1
    <3> QED  BY <1>24, <3>2
  <2> QED  BY <1>24, <2>1, <2>2, <2>3, <2>5, <2>6, <2>7
<1>27. DOMAIN p = 1..(8 + m + n)
  BY <1>26 DEF IsSequence
<1>28. p[1].op = "present" /\ p[2].op = "read" /\ p[3].op = "read" /\ \A i \in 1..3 : p[i].guarded = FALSE
  BY <1>26 DEF Present, Read, Query
<1>29. /\ GuardedBy(p[4], "begin", "none") /\ GuardedBy(p[5], "clear", k)
       /\ \A i \in 6..(5 + m + n) : GuardedBy(p[i], "insert", k)
       /\ GuardedBy(p[6 + m + n], "commit", "none")
  <2>1. /\ 1 \in 1..(3 + m + n) /\ 2 \in 1..(3 + m + n) /\ 3 + m + n \in 1..(3 + m + n)
        /\ 3 + (3 + m + n) = 6 + m + n
        /\ 3 + 1 = 4 /\ 3 + 2 = 5
    OBVIOUS
  <2>2. p[4] = g[1] /\ p[5] = g[2] /\ p[6 + m + n] = g[3 + m + n]
    <3>1. p[3 + 1] = g[1] /\ p[3 + 2] = g[2] /\ p[3 + (3 + m + n)] = g[3 + m + n]
      BY <1>26, <2>1, Zenon
    <3> QED  BY <2>1, <3>1
  <2>3. ASSUME NEW i \in 6..(5 + m + n)  PROVE GuardedBy(p[i], "insert", k)
    <3>1. PICK j \in 1..(3 + m + n) : i = 3 + j /\ j > 2 /\ j < 3 + m + n
      <4>1. i - 3 \in 1..(3 + m + n) /\ i = 3 + (i - 3) /\ i - 3 > 2 /\ i - 3 < 3 + m + n
        OBVIOUS
      <4> QED  BY <4>1
    <3>2. p[i] = g[j]
      BY <1>26, <3>1
    <3>3. CASE j - 2 \in 1..m
      <4>1. j = 2 + (j - 2)
        OBVIOUS
      <4> QED  BY <1>22, <3>2, <3>3, <4>1
    <3>4. CASE j - 2 - m \in 1..n
      <4>1. j = 2 + m + (j - 2 - m)
        OBVIOUS
      <4> QED  BY <1>22, <3>2, <3>4, <4>1
    <3>5. j - 2 \in 1..m \/ j - 2 - m \in 1..n
      BY <3>1
    <3> QED  BY <3>3, <3>4, <3>5
  <2> QED  BY <1>22, <2>2, <2>3
<1>30. /\ p[7 + m + n].op = "read" /\ p[7 + m + n].guarded = FALSE
       /\ p[8 + m + n].op = "log" /\ p[8 + m + n].guarded = FALSE
  BY <1>26 DEF Read, Log, Query
<1>31. ASSUME NEW i \in DOMAIN p
       PROVE  \/ i \in {1, 2, 3} \/ i = 4 \/ i = 5
              \/ i \in 6..(5 + m + n)
              \/ i = 6 + m + n \/ i = 7 + m + n \/ i = 8 + m + n
  BY <1>27
<1>32. ASSUME NEW i \in DOMAIN p  PROVE p[i].guarded \in BOOLEAN
  <2>1. p[i].guarded = FALSE \/ p[i].guarded = TRUE
    BY <1>28, <1>29, <1>30, <1>31 DEF GuardedBy
  <2> QED  BY <2>1
<1>33. ReplacesInTransaction(p, 4, 6 + m + n, k)
  <2>1. ASSUME NEW i \in DOMAIN p
        PROVE  /\ i < 4 => p[i].op \in {"read", "present", "absent"} /\ ~p[i].guarded
               /\ 4 < i /\ i <= 6 + m + n => p[i].guarded
               /\ 4 + 1 < i /\ i < 6 + m + n =>
                    p[i].op = "read" \/ (p[i].op = "insert" /\ p[i].cell = k)
               /\ 6 + m + n < i => p[i].op \in {"read", "log"}
    BY <1>28, <1>29, <1>30, <1>31 DEF GuardedBy
  <2> QED  BY <1>29, <2>1 DEF ReplacesInTransaction, GuardedBy
<1>34. 4 \in DOMAIN p /\ 6 + m + n \in DOMAIN p
  BY <1>27
<1>35. p = updateUserPermissions(granted, revoked)
  BY <1>2, <1>3, <1>6, <1>8, <1>10, <1>12, <1>14, <1>16, <1>18, <1>20, <1>23, <1>25
  DEF updateUserPermissions, updateUserPermissionOverrides
<1> QED  BY <1>26, <1>32, <1>33, <1>34, <1>35

-----------------------------------------------------------------------------
(* What holds whichever requests run together *)

Steps == Running \union {"success", "refused", "error", "dead"}

Asking(r) == request[r].step = "asking"

RequestInv ==
    /\ program \in Mixes
    /\ DOMAIN request = Requests
    /\ \A r \in Requests :
          /\ request[r] \in [step : Steps, next : Nat \ {0}, on : Connections \union {None},
                             seen : {request[r].seen}, failing : BOOLEAN]
          /\ program[r] = <<>> => request[r].step = "success"
          /\ request[r].step \in Running /\ ~request[r].failing => request[r].next \in DOMAIN program[r]
          /\ request[r].step = "success" => request[r].next > Len(program[r])

(* A connection is free once, or answers the query of one request.           *)
FreeInv ==
    /\ free \in Seq(Connections) /\ IsInjective(free)
    /\ \A r \in Requests : Asking(r) => request[r].on \in Connections \ Range(free)
    /\ \A q, r \in Requests : Asking(q) /\ Asking(r) /\ q # r => request[q].on # request[r].on

DataInv ==
    /\ DOMAIN pending = Connections
    /\ open \subseteq Connections
    /\ DOMAIN rows = Cells
    /\ faults \in Seq({"query", "connection", "free", "crash"})

PoolInv == RequestInv /\ FreeInv /\ DataInv

LEMMA ProgramType ==
  ASSUME program \in Mixes, NEW r \in Requests
  PROVE  /\ Len(program[r]) \in Nat
         /\ DOMAIN program[r] = 1..Len(program[r])
         /\ program[r] # <<>> => 1 \in DOMAIN program[r]
         /\ \A i \in DOMAIN program[r] : program[r][i].guarded \in BOOLEAN
<1>1. PICK p : p = program[r]
  OBVIOUS
<1>2. /\ Len(p) \in Nat
      /\ p = [i \in 1..Len(p) |-> p[i]]
      /\ \A i \in DOMAIN p : p[i].guarded \in BOOLEAN
  BY <1>1, ProgramsAssumption
<1>3. DOMAIN p = 1..Len(p)
  BY <1>2
<1>4. Len(p) = 0 => p = <<>>
  <2>1. SUFFICES ASSUME Len(p) = 0  PROVE p = <<>>
    OBVIOUS
  <2>2. p = [i \in 1..0 |-> p[i]]
    BY <1>2, <2>1
  <2>3. <<>> = [i \in 1..0 |-> p[i]]
    OBVIOUS
  <2> QED  BY <2>2, <2>3
<1>5. p # <<>> => 1 \in 1..Len(p)
  BY <1>2, <1>4
<1> QED  BY <1>1, <1>2, <1>3, <1>5

(* What becomes of the request that was answered.                            *)
LEMMA GoesOn ==
  ASSUME RequestInv, NEW r \in Requests, NEW n \in Nat, NEW seen, GoOn(r, n, seen)
  PROVE  /\ DOMAIN request' = Requests
         /\ \A q \in Requests \ {r} : request'[q] = request[q]
         /\ request'[r] = [step |-> IF request[r].next + n > Len(program[r]) THEN "success" ELSE "waiting",
                            next |-> request[r].next + n, on |-> None, seen |-> seen,
                            failing |-> request[r].failing]
         /\ free' = Append(free, request[r].on)
BY DEF RequestInv, GoOn, Release

LEMMA Ends ==
  ASSUME RequestInv, NEW r \in Requests, NEW outcome, End(r, outcome)
  PROVE  /\ DOMAIN request' = Requests
         /\ \A q \in Requests \ {r} : request'[q] = request[q]
         /\ request'[r] = [step |-> outcome, next |-> request[r].next, on |-> None,
                            seen |-> request[r].seen, failing |-> request[r].failing]
         /\ free' = Append(free, request[r].on)
BY DEF RequestInv, End, Release

LEMMA Throws ==
  ASSUME RequestInv, NEW r \in Requests, Throw(r)
  PROVE  /\ DOMAIN request' = Requests
         /\ \A q \in Requests \ {r} : request'[q] = request[q]
         /\ request'[r] = [step |-> IF Current(r).guarded THEN "waiting" ELSE "error",
                            next |-> request[r].next, on |-> None, seen |-> request[r].seen,
                            failing |-> Current(r).guarded]
         /\ free' = Append(free, request[r].on)
BY DEF RequestInv, Throw, Release

(* The query a request is at.                                                *)
LEMMA CurrentType ==
  ASSUME RequestInv, NEW r \in Requests, request[r].step \in Running
  PROVE  /\ Current(r).guarded \in BOOLEAN
         /\ request[r].failing => Current(r).op = "rollback" /\ ~Current(r).guarded
         /\ ~request[r].failing => /\ request[r].next \in 1..Len(program[r])
                                   /\ Current(r) = program[r][request[r].next]
<1>1. CASE request[r].failing
  <2>1. Current(r) = [op |-> "rollback", cell |-> "none", rows |-> {}, guarded |-> FALSE]
    BY <1>1 DEF Current, Rollback, Query
  <2> QED  BY <1>1, <2>1
<1>2. CASE ~request[r].failing
  <2>1. request[r].next \in DOMAIN program[r]
    BY <1>2 DEF RequestInv
  <2>2. Current(r) = program[r][request[r].next]
    BY <1>2 DEF Current
  <2> QED  BY <1>2, <2>1, <2>2, ProgramType DEF RequestInv
<1> QED  BY <1>1, <1>2

(* An answer, or an error, lets one request go on or end.                    *)
Outcome(r) ==
    \/ \E n \in {1, 3} : \E seen : GoOn(r, n, seen)
    \/ End(r, "error") \/ End(r, "refused")
    \/ Throw(r)

LEMMA AnswerOutcome ==
  ASSUME NEW r \in Requests, Answer(r) \/ QueryFails(r) \/ ConnectionLost(r)
  PROVE  Asking(r) /\ program' = program /\ Outcome(r)
<1>1. Asking(r) /\ program' = program
  BY DEF Answer, QueryFails, ConnectionLost, Asking
<1> SUFFICES Outcome(r)
  BY <1>1
<1>2. CASE Answer(r)
  <2>1. CASE BeginAnswer(r) \/ CommitAnswer(r) \/ LogAnswer(r) \/ WriteAnswer(r)
    <3>1. PICK seen : seen = request[r].seen
      OBVIOUS
    <3>2. GoOn(r, 1, seen)
      BY <2>1, <3>1 DEF BeginAnswer, CommitAnswer, LogAnswer, WriteAnswer, GoOn
    <3> QED  BY <3>2 DEF Outcome
  <2>2. CASE RollbackAnswer(r)
    BY <2>2 DEF RollbackAnswer, Outcome
  <2>3. CASE ReadAnswer(r)
    <3>1. PICK n : n = IF Current(r).op = "skipIf" /\ Current(r).cell \in Cells
                           /\ Sees(request[r].on, Current(r).cell) \intersect Current(r).rows # {}
                         THEN 3 ELSE 1
      OBVIOUS
    <3>2. PICK seen : seen = IF Current(r).cell \in Cells THEN Sees(request[r].on, Current(r).cell) ELSE {}
      OBVIOUS
    <3>3. End(r, "refused") \/ GoOn(r, n, seen)
      BY <2>3, <3>1, <3>2 DEF ReadAnswer, GoOn
    <3> QED  BY <3>1, <3>3 DEF Outcome
  <2>4. CASE WriteRejected(r)
    BY <2>4 DEF WriteRejected, Outcome
  <2> QED  BY <1>2, <2>1, <2>2, <2>3, <2>4 DEF Answer
<1>3. CASE QueryFails(r)
  BY <1>3 DEF QueryFails, Outcome
<1>4. CASE ConnectionLost(r)
  <2>1. PICK seen : seen = request[r].seen
    OBVIOUS
  <2>2. End(r, "error") \/ GoOn(r, 1, seen) \/ Throw(r)
    BY <1>4, <2>1 DEF ConnectionLost, GoOn
  <2> QED  BY <2>2 DEF Outcome
<1> QED  BY <1>2, <1>3, <1>4

LEMMA OutcomeType ==
  ASSUME RequestInv, NEW r \in Requests, Asking(r), program' = program, Outcome(r)
  PROVE  /\ RequestInv'
         /\ \A q \in Requests \ {r} : request'[q] = request[q]
         /\ request'[r].step # "asking"
         /\ free' = Append(free, request[r].on)
<1> DEFINE Type(q) == [step : Steps, next : Nat \ {0}, on : Connections \union {None},
                       seen : {request[q].seen}, failing : BOOLEAN]
<1> DEFINE Typed(q) ==
             /\ request[q] \in Type(q)
             /\ program[q] = <<>> => request[q].step = "success"
             /\ request[q].step \in Running /\ ~request[q].failing => request[q].next \in DOMAIN program[q]
             /\ request[q].step = "success" => request[q].next > Len(program[q])
<1> DEFINE Answered ==
             /\ DOMAIN request' = Requests
             /\ \A q \in Requests \ {r} : request'[q] = request[q]
             /\ request'[r].step # "asking"
             /\ free' = Append(free, request[r].on)
             /\ Typed(r)'
<1>1. /\ Len(program[r]) \in Nat /\ DOMAIN program[r] = 1..Len(program[r])
      /\ program[r] # <<>>
  BY ProgramType DEF RequestInv, Asking
<1>2. request[r] \in Type(r) /\ request[r].next \in Nat \ {0}
  BY DEF RequestInv
<1>0. {"waiting", "success", "error", "refused"} \subseteq Steps
  BY DEF Steps, Running
<1>3. Answered
  <2>1. ASSUME NEW n \in {1, 3}, NEW seen, GoOn(r, n, seen)  PROVE Answered
    <3>1. n \in Nat /\ request[r].next + n \in Nat \ {0}
      BY <1>2
    <3>2. /\ DOMAIN request' = Requests
          /\ \A q \in Requests \ {r} : request'[q] = request[q]
          /\ free' = Append(free, request[r].on)
      BY <2>1, <3>1, GoesOn
    <3>3. PICK step \in {"waiting", "success"} :
             /\ step = IF request[r].next + n > Len(program[r]) THEN "success" ELSE "waiting"
             /\ request'[r] = [step |-> step, next |-> request[r].next + n, on |-> None, seen |-> seen,
                               failing |-> request[r].failing]
      BY <2>1, <3>1, GoesOn
    <3>4. request'[r] \in Type(r)'
      BY <1>2, <1>0, <3>1, <3>3
    <3>5. /\ request'[r].step = "waiting" => request'[r].next \in 1..Len(program[r])
          /\ request'[r].step = "success" => request'[r].next > Len(program[r])
      BY <1>1, <3>1, <3>3
    <3>6. request'[r].step \in {"waiting", "success"}
      BY <3>3
    <3> HIDE DEF Type
    <3> QED  BY <1>1, <3>2, <3>4, <3>5, <3>6 DEF Running
  <2>2. ASSUME NEW outcome \in {"error", "refused"}, End(r, outcome)  PROVE Answered
    <3>1. /\ DOMAIN request' = Requests
          /\ \A q \in Requests \ {r} : request'[q] = request[q]
          /\ request'[r] = [step |-> outcome, next |-> request[r].next, on |-> None,
                            seen |-> request[r].seen, failing |-> request[r].failing]
          /\ free' = Append(free, request[r].on)
      BY <2>2, Ends
    <3>2. request'[r] \in Type(r)' /\ request'[r].step = outcome
      BY <1>2, <1>0, <3>1
    <3> HIDE DEF Type
    <3> QED  BY <1>1, <3>1, <3>2 DEF Running
  <2>3. CASE Throw(r)
    <3>1. Current(r).guarded \in BOOLEAN
      BY CurrentType DEF Asking, Running
    <3>2. /\ DOMAIN request' = Requests
          /\ \A q \in Requests \ {r} : request'[q] = request[q]
          /\ free' = Append(free, request[r].on)
      BY <2>3, Throws
    <3>3. PICK step \in {"waiting", "error"}, guarded \in BOOLEAN :
             /\ step = "waiting" => guarded
             /\ request'[r] = [step |-> step, next |-> request[r].next, on |-> None,
                               seen |-> request[r].seen, failing |-> guarded]
      BY <2>3, <3>1, Throws
    <3>4. request'[r] \in Type(r)'
      BY <1>2, <1>0, <3>3
    <3>5. request'[r].step \in {"waiting", "error"} /\ (request'[r].step = "waiting" => request'[r].failing)
      BY <3>3
    <3> HIDE DEF Type
    <3> QED  BY <1>1, <3>2, <3>4, <3>5 DEF Running
  <2> HIDE DEF Answered
  <2> QED  BY <2>1, <2>2, <2>3 DEF Outcome
<1>4. \A q \in Requests \ {r} : Typed(q)'
  BY <1>3 DEF RequestInv
<1>5. \A q \in Requests : Typed(q)'
  BY <1>3, <1>4
<1> QED  BY <1>3, <1>5 DEF RequestInv

(* A connection that comes back is on top of the stack.                      *)
LEMMA Released ==
  ASSUME FreeInv, NEW r \in Requests, Asking(r),
         \A q \in Requests \ {r} : request'[q] = request[q],
         request'[r].step # "asking",
         free' = Append(free, request[r].on)
  PROVE  /\ FreeInv'
         /\ free' # <<>>
         /\ Last(free') = request[r].on
<1> DEFINE c == request[r].on
<1>1. /\ free \in Seq(Connections) /\ IsInjective(free)
      /\ c \in Connections \ Range(free)
  BY DEF FreeInv
<1>2. /\ free' \in Seq(Connections)
      /\ free' # <<>>
      /\ Last(free') = c
      /\ IsInjective(free')
  BY <1>1, Pushed
<1>3. ASSUME NEW d \in Range(free')  PROVE d \in Range(free) \union {c}
  <2>1. /\ DOMAIN free = 1..Len(free) /\ Len(free) \in Nat
        /\ DOMAIN free' = 1..Len(free')
    BY <1>1, <1>2, LenProperties
  <2>2. /\ Len(free') = Len(free) + 1
        /\ \A i \in 1..Len(free) : free'[i] = free[i]
        /\ free'[Len(free) + 1] = c
    BY <1>1, AppendProperties
  <2> QED  BY <1>3, <2>1, <2>2 DEF Range
<1>4. ASSUME NEW q \in Requests, Asking(q)'
      PROVE  /\ q # r
             /\ request'[q] = request[q] /\ Asking(q)
             /\ request[q].on \in Connections \ Range(free')
  BY <1>1, <1>3, <1>4 DEF Asking, FreeInv
<1> QED  BY <1>2, <1>4 DEF FreeInv

LEMMA Taken ==
  ASSUME RequestInv, FreeInv, NEW r \in Requests, Ask(r)
  PROVE  /\ FreeInv'
         /\ RequestInv'
         /\ Last(free) \in Connections
         /\ \A q \in Requests \ {r} : request'[q] = request[q]
         /\ request'[r] = [step |-> "asking", next |-> request[r].next, on |-> Last(free),
                           seen |-> request[r].seen, failing |-> request[r].failing]
<1> DEFINE c == Last(free)
<1>1. /\ free \in Seq(Connections) /\ IsInjective(free) /\ free # <<>>
      /\ free' = Front(free)
  BY DEF FreeInv, Ask
<1>2. /\ free' \in Seq(Connections)
      /\ c \in Connections
      /\ IsInjective(free')
      /\ c \notin Range(free')
  BY <1>1, Popped
<1>3. /\ DOMAIN request' = Requests
      /\ \A q \in Requests \ {r} : request'[q] = request[q]
      /\ request[r].step = "waiting"
      /\ program' = program
  BY DEF Ask, RequestInv
<1>4. request'[r] = [step |-> "asking", next |-> request[r].next, on |-> c,
                     seen |-> request[r].seen, failing |-> request[r].failing]
  BY DEF Ask, RequestInv
<1>5. ASSUME NEW d \in Range(free')  PROVE d \in Range(free)
  <2>1. /\ DOMAIN free = 1..Len(free) /\ Len(free) \in Nat \ {0}
        /\ DOMAIN free' = 1..(Len(free) - 1)
        /\ \A i \in 1..(Len(free) - 1) : free'[i] = free[i]
    BY <1>1, EmptySeq, LenProperties, SubSeqProperties DEF Front
  <2> QED  BY <1>5, <2>1 DEF Range
<1>6. c \in Range(free)
  <2>1. DOMAIN free = 1..Len(free) /\ Len(free) \in Nat \ {0}
    BY <1>1, EmptySeq, LenProperties
  <2> QED  BY <2>1 DEF Range, Last
<1>7. request'[r].step = "asking" /\ request'[r].on = c
  BY <1>4
<1>8. FreeInv'
  <2>1. ASSUME NEW q \in Requests, q # r, Asking(q)'
        PROVE  /\ request'[q] = request[q] /\ Asking(q)
               /\ request[q].on \in Connections \ Range(free')
               /\ request[q].on # c
    BY <1>3, <1>5, <1>6, <2>1 DEF Asking, FreeInv
  <2> QED  BY <1>2, <1>7, <2>1 DEF FreeInv, Asking
<1>9. RequestInv'
  <2> DEFINE Type(q) == [step : Steps, next : Nat \ {0}, on : Connections \union {None},
                         seen : {request[q].seen}, failing : BOOLEAN]
  <2> DEFINE Typed(q) ==
               /\ request[q] \in Type(q)
               /\ program[q] = <<>> => request[q].step = "success"
               /\ request[q].step \in Running /\ ~request[q].failing => request[q].next \in DOMAIN program[q]
               /\ request[q].step = "success" => request[q].next > Len(program[q])
  <2>1. \A q \in Requests \ {r} : Typed(q)'
    BY <1>3 DEF RequestInv
  <2>2. Typed(r)'
    <3>1. request[r] \in Type(r) /\ "asking" \in Steps
      BY DEF RequestInv, Steps, Running
    <3>2. request'[r] \in Type(r)'
      BY <1>2, <1>4, <3>1
    <3>3. /\ program[r] # <<>>
          /\ ~request[r].failing => request[r].next \in DOMAIN program[r]
      BY <1>3 DEF RequestInv, Running
    <3>4. request'[r].next = request[r].next /\ request'[r].failing = request[r].failing
      BY <1>4
    <3> HIDE DEF Type
    <3> QED  BY <1>3, <1>7, <3>2, <3>3, <3>4
  <2>3. \A q \in Requests : Typed(q)'
    BY <2>1, <2>2
  <2> QED  BY <1>3, <2>3 DEF RequestInv
<1> QED  BY <1>2, <1>3, <1>4, <1>8, <1>9

LEMMA PoolInit == Init => PoolInv
<1> SUFFICES ASSUME Init  PROVE PoolInv
  OBVIOUS
<1>1. RequestInv
  <2>1. program \in Mixes /\ DOMAIN request = Requests
    BY DEF Init
  <2>2. ASSUME NEW r \in Requests
        PROVE  /\ request[r] \in [step : Steps, next : Nat \ {0}, on : Connections \union {None},
                                  seen : {request[r].seen}, failing : BOOLEAN]
               /\ program[r] = <<>> => request[r].step = "success"
               /\ request[r].step \in Running => request[r].next \in DOMAIN program[r]
               /\ request[r].step = "success" => request[r].next > Len(program[r])
    <3>1. PICK step \in {"success", "waiting"} :
             /\ step = IF program[r] = <<>> THEN "success" ELSE "waiting"
             /\ request[r] = [step |-> step, next |-> 1, on |-> None, seen |-> {}, failing |-> FALSE]
      BY DEF Init
    <3>2. step \in Steps
      BY DEF Steps, Running
    <3>3. program[r] # <<>> => 1 \in DOMAIN program[r]
      BY <2>1, ProgramType
    <3>4. Len(<<>>) = 0
      BY EmptySeq
    <3> QED  BY <3>1, <3>2, <3>3, <3>4 DEF Running
  <2> QED  BY <2>1, <2>2 DEF RequestInv
<1>2. FreeInv
  <2>1. \A r \in Requests : ~Asking(r)
    BY DEF Init, Asking
  <2> QED  BY <2>1, Stacked DEF Init, FreeInv
<1>3. DataInv
  BY EmptySeq DEF Init, DataInv, Cells
<1> QED  BY <1>1, <1>2, <1>3 DEF PoolInv

LEMMA FaultType ==
  ASSUME faults \in Seq({"query", "connection", "free", "crash"}),
         NEW kind \in {"query", "connection", "free", "crash"}, Fault(kind)
  PROVE  /\ faults' \in Seq({"query", "connection", "free", "crash"})
         /\ Range(faults) \union {kind} \subseteq Range(faults')
<1>1. /\ faults' = Append(faults, kind)
      /\ DOMAIN faults = 1..Len(faults) /\ Len(faults) \in Nat
  BY LenProperties DEF Fault
<1>2. /\ faults' \in Seq({"query", "connection", "free", "crash"})
      /\ Len(faults') = Len(faults) + 1
      /\ \A i \in 1..Len(faults) : faults'[i] = faults[i]
      /\ faults'[Len(faults) + 1] = kind
  BY <1>1, AppendProperties
<1>3. DOMAIN faults' = 1..(Len(faults) + 1)
  BY <1>2, LenProperties
<1> QED  BY <1>1, <1>2, <1>3 DEF Range

LEMMA AnswerData ==
  ASSUME PoolInv, NEW r \in Requests, Answer(r) \/ QueryFails(r) \/ ConnectionLost(r)
  PROVE  DataInv'
<1>1. request[r].on \in Connections
  BY AnswerOutcome DEF PoolInv, FreeInv
<1>2. DataInv
  BY DEF PoolInv
<1>3. CASE Answer(r)
  <2>1. faults' = faults
    BY <1>3 DEF Answer
  <2>2. CASE BeginAnswer(r) \/ CommitAnswer(r)
    BY <1>1, <1>2, <2>1, <2>2 DEF BeginAnswer, CommitAnswer, CommitOn, CloseTransaction, DataInv
  <2>3. CASE RollbackAnswer(r)
    BY <1>1, <1>2, <2>1, <2>3 DEF RollbackAnswer, CloseTransaction, DataInv
  <2>4. CASE ReadAnswer(r) \/ LogAnswer(r) \/ WriteRejected(r)
    BY <1>2, <2>1, <2>4 DEF ReadAnswer, LogAnswer, WriteRejected, DataInv
  <2>5. CASE WriteAnswer(r)
    <3>1. DOMAIN pending' = DOMAIN pending /\ DOMAIN rows' = DOMAIN rows /\ open' = open
      BY <2>5 DEF WriteAnswer
    <3> QED  BY <1>2, <2>1, <3>1 DEF DataInv
  <2> QED  BY <1>3, <2>2, <2>3, <2>4, <2>5 DEF Answer
<1>4. CASE QueryFails(r)
  BY <1>2, <1>4, FaultType DEF QueryFails, DataInv
<1>5. CASE ConnectionLost(r)
  <2>1. faults' \in Seq({"query", "connection", "free", "crash"})
    BY <1>2, <1>5, FaultType DEF ConnectionLost, DataInv
  <2>2. DOMAIN rows' = Cells
    BY <1>2, <1>5 DEF ConnectionLost, CommitOn, DataInv
  <2>3. DOMAIN pending' = Connections /\ open' \subseteq Connections
    BY <1>2, <1>5 DEF ConnectionLost, CloseTransaction, DataInv
  <2> QED  BY <2>1, <2>2, <2>3 DEF DataInv
<1> QED  BY <1>3, <1>4, <1>5

(* The process dies: the pool starts afresh, and what ran is dead.           *)
LEMMA Crashed ==
  ASSUME PoolInv, ProcessCrash
  PROVE  /\ RequestInv' /\ FreeInv' /\ DataInv'
         /\ \A r \in Requests :
               /\ request'[r].step = IF request[r].step \in Running THEN "dead" ELSE request[r].step
               /\ request'[r].next = request[r].next
<1>1. /\ program' = program
      /\ request' = [r \in Requests |->
                      [request[r] EXCEPT !.step = IF @ \in Running THEN "dead" ELSE @, !.on = None]]
      /\ DOMAIN request' = Requests
  BY DEF ProcessCrash
<1>2. ASSUME NEW r \in Requests
      PROVE  /\ request'[r] \in [step : Steps, next : Nat \ {0}, on : Connections \union {None},
                                 seen : {request'[r].seen}, failing : BOOLEAN]
             /\ request'[r].next = request[r].next
             /\ request'[r].step = IF request[r].step \in Running THEN "dead" ELSE request[r].step
             /\ request'[r].step \notin Running
  <2>1. /\ request[r] \in [step : Steps, next : Nat \ {0}, on : Connections \union {None},
                           seen : {request[r].seen}, failing : BOOLEAN]
        /\ request[r].step \in Steps
    BY DEF PoolInv, RequestInv
  <2>2. PICK step \in Steps :
          /\ step = IF request[r].step \in Running THEN "dead" ELSE request[r].step
          /\ request'[r] = [step |-> step, next |-> request[r].next, on |-> None,
                            seen |-> request[r].seen, failing |-> request[r].failing]
    <3>1. "dead" \in Steps
      BY DEF Steps
    <3> QED  BY <1>1, <2>1, <3>1
  <2>3. step \notin Running
    BY <2>2 DEF Running
  <2> QED  BY <2>1, <2>2, <2>3
<1>3. RequestInv'
  <2>1. ASSUME NEW r \in Requests
        PROVE  /\ program[r] = <<>> => request'[r].step = "success"
               /\ request'[r].step = "success" => request'[r].next > Len(program[r])
    <3>1. /\ program[r] = <<>> => request[r].step = "success"
          /\ request[r].step = "success" => request[r].next > Len(program[r])
      BY DEF PoolInv, RequestInv
    <3> QED  BY <1>2, <3>1 DEF Running
  <2>2. program' \in Mixes
    BY <1>1 DEF PoolInv, RequestInv
  <2> QED  BY <1>1, <1>2, <2>1, <2>2 DEF RequestInv
<1>4. FreeInv'
  <2>1. \A r \in Requests : request'[r].step # "asking"
    BY <1>2 DEF Running
  <2>2. free' = SetToSeq(Connections)
    BY DEF ProcessCrash
  <2> QED  BY <2>1, <2>2, Stacked DEF FreeInv, Asking
<1>5. DataInv'
  BY FaultType DEF ProcessCrash, PoolInv, DataInv
<1> QED  BY <1>2, <1>3, <1>4, <1>5

LEMMA PoolStep == PoolInv /\ [Next]_vars => PoolInv'
<1> SUFFICES ASSUME PoolInv, [Next]_vars  PROVE PoolInv'
  OBVIOUS
<1> USE DEF PoolInv
<1>1. ASSUME NEW r \in Requests, Ask(r)  PROVE PoolInv'
  <2>1. DataInv'
    BY <1>1 DEF Ask, DataInv
  <2> QED  BY <1>1, <2>1, Taken
<1>2. ASSUME NEW r \in Requests, Answer(r) \/ QueryFails(r) \/ ConnectionLost(r)  PROVE PoolInv'
  <2>1. Asking(r) /\ program' = program /\ Outcome(r)
    BY <1>2, AnswerOutcome
  <2>2. /\ RequestInv'
        /\ \A q \in Requests \ {r} : request'[q] = request[q]
        /\ request'[r].step # "asking"
        /\ free' = Append(free, request[r].on)
    BY <2>1, OutcomeType
  <2>3. FreeInv'
    BY <2>1, <2>2, Released
  <2> QED  BY <1>2, <2>2, <2>3, AnswerData
<1>3. CASE FreeConnectionLost
  <2>1. /\ open' \subseteq open /\ DOMAIN pending' = DOMAIN pending
        /\ UNCHANGED <<program, request, free, rows>>
    BY <1>3 DEF FreeConnectionLost, CloseTransaction
  <2>2. faults' \in Seq({"query", "connection", "free", "crash"})
    BY <1>3, FaultType DEF FreeConnectionLost, DataInv
  <2> QED  BY <2>1, <2>2 DEF RequestInv, FreeInv, DataInv, Asking
<1>4. CASE IdleTimeout
  <2>1. /\ open' \subseteq open /\ DOMAIN pending' = Connections
        /\ UNCHANGED <<program, request, free, rows, faults>>
    BY <1>4 DEF IdleTimeout
  <2> QED  BY <2>1 DEF RequestInv, FreeInv, DataInv, Asking
<1>5. CASE ProcessCrash
  BY <1>5, Crashed
<1>6. CASE UNCHANGED vars
  BY <1>6 DEF vars, RequestInv, FreeInv, DataInv, Asking
<1> QED  BY <1>1, <1>2, <1>3, <1>4, <1>5, <1>6 DEF Next

(* The pool gives a connection to one query at a time, whichever requests    *)
(* run, fail or lose connections: it is free once, or answers the query of   *)
(* one request. A request that is over with success has asked its queries.   *)
THEOREM OneConnectionOneQuery == Spec => []PoolInv
BY PoolInit, PoolStep, PTL DEF Spec

-----------------------------------------------------------------------------
(* A set of permissions is replaced as a whole *)

(* The stack gives a request that is alone the same connection every time.   *)
OnTop(r, t) == IF Asking(r) THEN request[r].on = t ELSE free # <<>> /\ Last(free) = t

(* The rows that the INSERTs before query i add to cell k.                   *)
Inserted(p, k, i) ==
    UNION {p[j].rows : j \in {m \in DOMAIN p : m < i /\ p[m].op = "insert" /\ p[m].cell = k}}

Untouched(c) == c \notin open /\ pending[c] = <<>>

(* From BEGIN, query b, to COMMIT, query e, the transaction is open on t and *)
(* has pending what has been inserted so far.                                *)
Progress(r, b, e, k, t) ==
    LET n == request[r].next IN
    /\ n <= b => Untouched(t) /\ rows[k] = Initial[k]
    /\ n = b + 1 => pending[t] = <<>>
    /\ b < n /\ n <= e => t \in open /\ rows[k] = Initial[k]
    /\ b + 1 < n /\ n <= e => DOMAIN pending[t] = {k} /\ pending[t][k] = Inserted(program[r], k, n)
    /\ e < n => Untouched(t) /\ rows[k] = AskedFor(r, k)

ReplacedAt(r, b, e, k, t) ==
    /\ \A c \in Connections \ {t} : Untouched(c)
    /\ rows[k] \in {Initial[k], AskedFor(r, k)}
    /\ request[r].step \in Running /\ ~request[r].failing => Progress(r, b, e, k, t)
    /\ request[r].step \notin Running => open = {}
    /\ request[r].step = "success" => rows[k] = AskedFor(r, k)
    /\ request[r].step = "refused" => rows[k] = Initial[k]

TransactionInv ==
    \A r \in Requests : Alone(r) /\ "free" \notin Range(faults) =>
       \A b, e \in DOMAIN program[r] : \A k \in Cells :
          ReplacesInTransaction(program[r], b, e, k) =>
             \E t \in Connections : OnTop(r, t) /\ ReplacedAt(r, b, e, k, t)

(* A query of such a request is under way.                                   *)
Replacing(r, b, e, k, t) ==
    /\ PoolInv
    /\ b \in DOMAIN program[r] /\ e \in DOMAIN program[r]
    /\ ReplacesInTransaction(program[r], b, e, k)
    /\ Asking(r) /\ request[r].on = t
    /\ ReplacedAt(r, b, e, k, t)

LEMMA Positions ==
  ASSUME NEW r \in Requests, NEW b, NEW e, NEW k \in Cells, NEW t \in Connections,
         Replacing(r, b, e, k, t), ~request[r].failing
  PROVE  /\ Len(program[r]) \in Nat /\ DOMAIN program[r] = 1..Len(program[r])
         /\ request[r].next \in 1..Len(program[r])
         /\ b \in 1..Len(program[r]) /\ e \in 1..Len(program[r]) /\ b + 1 < e
         /\ b + 1 \in 1..Len(program[r])
         /\ Current(r) = program[r][request[r].next]
         /\ Progress(r, b, e, k, t)
         /\ rows[k] \in {Initial[k], AskedFor(r, k)}
         /\ \A c \in Connections \ {t} : Untouched(c)
<1>1. RequestInv /\ request[r].step \in Running
  BY DEF Replacing, PoolInv, Asking, Running
<1>2. /\ Len(program[r]) \in Nat /\ DOMAIN program[r] = 1..Len(program[r])
      /\ request[r].next \in 1..Len(program[r])
      /\ Current(r) = program[r][request[r].next]
  BY <1>1, ProgramType, CurrentType DEF RequestInv
<1>3. b \in 1..Len(program[r]) /\ e \in 1..Len(program[r]) /\ b + 1 < e
  BY <1>2 DEF Replacing, ReplacesInTransaction
<1>4. b + 1 \in 1..Len(program[r])
  BY <1>2, <1>3
<1>5. /\ Progress(r, b, e, k, t)
      /\ rows[k] \in {Initial[k], AskedFor(r, k)}
      /\ \A c \in Connections \ {t} : Untouched(c)
  BY <1>1 DEF Replacing, ReplacedAt
<1> QED  BY <1>2, <1>3, <1>4, <1>5

(* What is inserted, query by query.                                         *)
LEMMA InsertedNext ==
  ASSUME NEW p, NEW k, NEW n \in Nat, DOMAIN p = 1..n, NEW i \in 1..n, NEW j, j = i + 1,
         p[i].op = "insert", p[i].cell = k
  PROVE  Inserted(p, k, j) = Inserted(p, k, i) \union p[i].rows
<1> DEFINE Of(h) == {m \in DOMAIN p : m < h /\ p[m].op = "insert" /\ p[m].cell = k}
<1>1. Of(j) = Of(i) \union {i}
  OBVIOUS
<1> HIDE DEF Of
<1>2. UNION {p[h].rows : h \in Of(i) \union {i}} = (UNION {p[h].rows : h \in Of(i)}) \union p[i].rows
  OBVIOUS
<1>3. UNION {p[h].rows : h \in Of(j)} = (UNION {p[h].rows : h \in Of(i)}) \union p[i].rows
  BY <1>1, <1>2
<1> QED  BY <1>3 DEF Inserted, Of

LEMMA InsertedStays ==
  ASSUME NEW p, NEW k, NEW n \in Nat, DOMAIN p = 1..n, NEW i \in 1..n, NEW j, j = i + 1,
         p[i].op # "insert"
  PROVE  Inserted(p, k, j) = Inserted(p, k, i)
<1>1. {m \in DOMAIN p : m < j /\ p[m].op = "insert" /\ p[m].cell = k}
        = {m \in DOMAIN p : m < i /\ p[m].op = "insert" /\ p[m].cell = k}
  OBVIOUS
<1> QED  BY <1>1 DEF Inserted

LEMMA InsertedEnds ==
  ASSUME NEW r \in Requests, NEW n \in Nat, DOMAIN program[r] = 1..n,
         NEW b \in 1..n, NEW e \in 1..n, NEW k,
         ReplacesInTransaction(program[r], b, e, k)
  PROVE  /\ Inserted(program[r], k, b + 2) = {}
         /\ Inserted(program[r], k, e) = AskedFor(r, k)
<1> DEFINE Of(j) == {m \in DOMAIN program[r] : m < j /\ program[r][m].op = "insert" /\ program[r][m].cell = k}
<1>1. Of(b + 2) = {}
  BY DEF ReplacesInTransaction
<1>2. Of(e) = {j \in DOMAIN program[r] : program[r][j].op = "insert" /\ program[r][j].cell = k}
  BY DEF ReplacesInTransaction
<1> HIDE DEF Of
<1>3. UNION {program[r][j].rows : j \in Of(b + 2)} = {}
  BY <1>1
<1>4. UNION {program[r][j].rows : j \in Of(e)} = AskedFor(r, k)
  BY <1>2 DEF AskedFor
<1> QED  BY <1>3, <1>4 DEF Inserted, Of

(* A query that fails by itself: nothing is lost but the request.            *)
LEMMA ThrowKeeps ==
  ASSUME NEW r \in Requests, NEW b, NEW e, NEW k \in Cells, NEW t \in Connections,
         Replacing(r, b, e, k, t), ~request[r].failing, request[r].next # b,
         Throw(r), UNCHANGED <<program, pending, open, rows>>
  PROVE  ReplacedAt(r, b, e, k, t)'
<1>1. /\ request[r].next \in Nat /\ b \in Nat /\ e \in Nat
      /\ Current(r) = program[r][request[r].next]
      /\ request[r].next \in DOMAIN program[r]
      /\ Progress(r, b, e, k, t)
      /\ rows[k] \in {Initial[k], AskedFor(r, k)}
      /\ \A c \in Connections \ {t} : Untouched(c)
      /\ b + 1 < e
  <2>1. /\ Len(program[r]) \in Nat /\ DOMAIN program[r] = 1..Len(program[r])
        /\ request[r].next \in 1..Len(program[r])
        /\ b \in 1..Len(program[r]) /\ e \in 1..Len(program[r]) /\ b + 1 < e
        /\ Current(r) = program[r][request[r].next]
    BY Positions
  <2>2. /\ Progress(r, b, e, k, t)
        /\ rows[k] \in {Initial[k], AskedFor(r, k)}
        /\ \A c \in Connections \ {t} : Untouched(c)
    BY Positions
  <2> QED  BY <2>1, <2>2
<1>2. Current(r).guarded \in BOOLEAN
  BY <1>1, ProgramType DEF Replacing, PoolInv, RequestInv
<1>3. PICK step \in {"waiting", "error"} :
        /\ step = IF Current(r).guarded THEN "waiting" ELSE "error"
        /\ request'[r].step = step
        /\ request'[r].failing = Current(r).guarded
  <2>1. request'[r] = [step |-> IF Current(r).guarded THEN "waiting" ELSE "error",
                       next |-> request[r].next, on |-> None, seen |-> request[r].seen,
                       failing |-> Current(r).guarded]
    BY Throws DEF Replacing, PoolInv
  <2> QED  BY <2>1
<1>4. step = "error" => open = {}
  <2>1. step = "error" => request[r].next < b \/ e < request[r].next
    BY <1>1, <1>3 DEF Replacing, ReplacesInTransaction
  <2>2. step = "error" => t \notin open
    BY <1>1, <2>1 DEF Progress, Untouched
  <2>3. open \subseteq Connections
    BY DEF Replacing, PoolInv, DataInv
  <2> QED  BY <1>1, <2>2, <2>3 DEF Untouched
<1>5. AskedFor(r, k)' = AskedFor(r, k)
  BY DEF AskedFor
<1> QED  BY <1>1, <1>2, <1>3, <1>4, <1>5 DEF ReplacedAt, Untouched, Running

LEMMA OneOn ==
  ASSUME RequestInv, NEW r \in Requests, NEW seen, GoOn(r, 1, seen)
  PROVE  /\ request'[r].next = request[r].next + 1
         /\ request'[r].failing = request[r].failing
         /\ request'[r].step = IF request[r].next + 1 > Len(program[r]) THEN "success" ELSE "waiting"
<1>1. request'[r] = [step |-> IF request[r].next + 1 > Len(program[r]) THEN "success" ELSE "waiting",
                     next |-> request[r].next + 1, on |-> None, seen |-> seen,
                     failing |-> request[r].failing]
  BY GoesOn
<1> QED  BY <1>1

(* What a step on by one query comes down to.                                *)
LEMMA OneOnKeeps ==
  ASSUME NEW r \in Requests, NEW b, NEW e, NEW k \in Cells, NEW t \in Connections,
         Replacing(r, b, e, k, t), ~request[r].failing, program' = program,
         NEW seen, GoOn(r, 1, seen),
         \A c \in Connections \ {t} : Untouched(c)',
         open' \subseteq Connections,
         rows'[k] \in {Initial[k], AskedFor(r, k)},
         request[r].next >= e => t \notin open' /\ rows'[k] = AskedFor(r, k),
         Progress(r, b, e, k, t)'
  PROVE  ReplacedAt(r, b, e, k, t)'
<1>1. /\ Len(program[r]) \in Nat /\ request[r].next \in 1..Len(program[r])
      /\ e \in 1..Len(program[r])
  BY Positions
<1>2. /\ request'[r].step \in {"success", "waiting"}
      /\ request'[r].step = "success" => request[r].next >= e
  <2>1. request'[r].step = IF request[r].next + 1 > Len(program[r]) THEN "success" ELSE "waiting"
    BY OneOn DEF Replacing, PoolInv
  <2> QED  BY <1>1, <2>1
<1>3. request'[r].step = "success" => open' = {} /\ rows'[k] = AskedFor(r, k)
  BY <1>2 DEF Untouched
<1>4. AskedFor(r, k)' = AskedFor(r, k)
  BY DEF AskedFor
<1> QED  BY <1>2, <1>3, <1>4 DEF ReplacedAt, Running

LEMMA ReadKeeps ==
  ASSUME NEW r \in Requests, NEW b, NEW e, NEW k \in Cells, NEW t \in Connections,
         Replacing(r, b, e, k, t), ~request[r].failing,
         Current(r).op \in {"read", "present", "absent", "log"},
         NEW seen, GoOn(r, 1, seen), UNCHANGED <<program, pending, open, rows>>
  PROVE  ReplacedAt(r, b, e, k, t)'
<1>1. PICK n, p : n = request[r].next /\ p = program[r]
  OBVIOUS
<1>2. /\ Len(p) \in Nat /\ DOMAIN p = 1..Len(p)
      /\ n \in 1..Len(p)
      /\ b \in 1..Len(p) /\ e \in 1..Len(p) /\ b + 1 < e
      /\ Current(r) = p[n]
  BY <1>1, Positions
<1>3. /\ Progress(r, b, e, k, t)
      /\ rows[k] \in {Initial[k], AskedFor(r, k)}
      /\ \A c \in Connections \ {t} : Untouched(c)
  BY Positions
<1>4. n # b /\ n # b + 1 /\ n # e /\ p[n].op # "insert"
  BY <1>1, <1>2 DEF Replacing, ReplacesInTransaction
<1>5. request'[r].next = n + 1 /\ program'[r] = p
  BY <1>1, OneOn DEF Replacing, PoolInv
<1>6. Inserted(p, k, n + 1) = Inserted(p, k, n)
  <2>1. PICK l \in Nat : DOMAIN p = 1..l /\ n \in 1..l
    BY <1>2
  <2>2. p[n].op # "insert"
    BY <1>4
  <2> QED  BY <2>1, <2>2, InsertedStays
<1>7. Progress(r, b, e, k, t)'
  <2>1. /\ n + 1 <= b => n <= b
        /\ n + 1 # b + 1
        /\ b < n + 1 /\ n + 1 <= e => b + 1 < n /\ b < n /\ n <= e
        /\ b + 1 < n + 1 => b < n + 1
        /\ e < n + 1 => e < n
    BY <1>2, <1>4
  <2>2. AskedFor(r, k)' = AskedFor(r, k)
    BY DEF AskedFor
  <2>3. Untouched(t)' = Untouched(t)
    BY DEF Untouched
  <2>4. Inserted(program'[r], k, request'[r].next) = Inserted(p, k, n)
    BY <1>5, <1>6
  <2>5. /\ n <= b => Untouched(t) /\ rows[k] = Initial[k]
        /\ b < n /\ n <= e => t \in open /\ rows[k] = Initial[k]
        /\ b + 1 < n /\ n <= e => DOMAIN pending[t] = {k} /\ pending[t][k] = Inserted(p, k, n)
        /\ e < n => Untouched(t) /\ rows[k] = AskedFor(r, k)
    BY <1>1, <1>3 DEF Progress
  <2>6. /\ n + 1 <= b => Untouched(t)' /\ rows'[k] = Initial[k]
        /\ n + 1 = b + 1 => pending'[t] = <<>>
        /\ b < n + 1 /\ n + 1 <= e => t \in open' /\ rows'[k] = Initial[k]
        /\ b + 1 < n + 1 /\ n + 1 <= e => DOMAIN pending'[t] = {k} /\ pending'[t][k] = Inserted(p, k, n)
        /\ e < n + 1 => Untouched(t)' /\ rows'[k] = AskedFor(r, k)'
    BY <2>1, <2>2, <2>3, <2>5
  <2> QED  BY <1>5, <2>4, <2>6 DEF Progress
<1>8. request[r].next >= e => t \notin open' /\ rows'[k] = AskedFor(r, k)
  BY <1>1, <1>2, <1>3, <1>4 DEF Progress, Untouched
<1>9. /\ \A c \in Connections \ {t} : Untouched(c)'
      /\ open' \subseteq Connections
  BY <1>3 DEF Untouched, Replacing, PoolInv, DataInv
<1> QED  BY <1>3, <1>7, <1>8, <1>9, OneOnKeeps

(* START TRANSACTION on a connection that has none open.                     *)
LEMMA BeginKeeps ==
  ASSUME NEW r \in Requests, NEW b, NEW e, NEW k \in Cells, NEW t \in Connections,
         Replacing(r, b, e, k, t), ~request[r].failing, Current(r).op = "begin",
         BeginAnswer(r), program' = program
  PROVE  ReplacedAt(r, b, e, k, t)'
<1>1. PICK n, p, seen : n = request[r].next /\ p = program[r] /\ seen = request[r].seen
  OBVIOUS
<1>2. /\ Len(p) \in Nat /\ DOMAIN p = 1..Len(p)
      /\ n \in 1..Len(p)
      /\ b \in 1..Len(p) /\ e \in 1..Len(p) /\ b + 1 < e
      /\ Current(r) = p[n]
  BY <1>1, Positions
<1>3. /\ Progress(r, b, e, k, t)
      /\ rows[k] \in {Initial[k], AskedFor(r, k)}
      /\ \A c \in Connections \ {t} : Untouched(c)
  BY Positions
<1>4. n = b
  <2>1. p[b + 1].op # "begin" /\ p[e].op # "begin" /\ b + 1 \in 1..Len(p)
    BY <1>1, <1>2 DEF Replacing, ReplacesInTransaction
  <2>2. n < b => p[n].op # "begin"
    BY <1>1, <1>2 DEF Replacing, ReplacesInTransaction
  <2>3. b + 1 < n /\ n < e => p[n].op # "begin"
    BY <1>1, <1>2 DEF Replacing, ReplacesInTransaction
  <2>4. e < n => p[n].op # "begin"
    BY <1>1, <1>2 DEF Replacing, ReplacesInTransaction
  <2> QED  BY <1>2, <2>1, <2>2, <2>3, <2>4
<1>5. request[r].on = t /\ t \notin open /\ pending[t] = <<>> /\ rows[k] = Initial[k]
  BY <1>1, <1>2, <1>3, <1>4 DEF Progress, Untouched, Replacing
<1>6. GoOn(r, 1, seen)
  BY <1>1 DEF BeginAnswer, GoOn
<1>7. request'[r].next = n + 1 /\ program'[r] = p
  BY <1>1, <1>6, OneOn DEF Replacing, PoolInv
<1>8. /\ DOMAIN pending = Connections
      /\ pending' = [pending EXCEPT ![t] = <<>>]
      /\ open' = open \union {t}
      /\ rows' = [kk \in Cells |-> Sees(t, kk)]
  BY <1>5 DEF BeginAnswer, CommitOn, Replacing, PoolInv, DataInv
<1>9. rows'[k] = Initial[k]
  BY <1>5, <1>8 DEF Sees
<1>10. \A c \in Connections \ {t} : Untouched(c)'
  BY <1>3, <1>8 DEF Untouched
<1>11. Progress(r, b, e, k, t)'
  <2>1. pending'[t] = <<>> /\ t \in open'
    BY <1>8
  <2>2. n + 1 = b + 1 /\ ~(n + 1 <= b) /\ ~(b + 1 < n + 1) /\ ~(e < n + 1)
    BY <1>2, <1>4
  <2> QED  BY <1>7, <1>9, <2>1, <2>2 DEF Progress
<1>12. open' \subseteq Connections /\ ~(request[r].next >= e)
  BY <1>1, <1>2, <1>4, <1>8 DEF Replacing, PoolInv, DataInv
<1> QED  BY <1>6, <1>9, <1>10, <1>11, <1>12, OneOnKeeps

(* The DELETE and the INSERTs stay pending.                                  *)
LEMMA WriteKeeps ==
  ASSUME NEW r \in Requests, NEW b, NEW e, NEW k \in Cells, NEW t \in Connections,
         Replacing(r, b, e, k, t), ~request[r].failing, Current(r).op \in Writes,
         WriteAnswer(r), program' = program
  PROVE  ReplacedAt(r, b, e, k, t)'
<1>1. PICK n, p, seen : n = request[r].next /\ p = program[r] /\ seen = request[r].seen
  OBVIOUS
<1>2. /\ Len(p) \in Nat /\ DOMAIN p = 1..Len(p)
      /\ n \in 1..Len(p)
      /\ b \in 1..Len(p) /\ e \in 1..Len(p) /\ b + 1 < e
      /\ Current(r) = p[n]
  BY <1>1, Positions
<1>3. /\ Progress(r, b, e, k, t)
      /\ rows[k] \in {Initial[k], AskedFor(r, k)}
      /\ \A c \in Connections \ {t} : Untouched(c)
  BY Positions
<1>4. /\ b < n /\ n < e
      /\ p[n].cell = k
      /\ n = b + 1 => p[n].op = "clear"
      /\ n # b + 1 => p[n].op = "insert"
  <2>1. p[b].op = "begin" /\ p[e].op = "commit" /\ p[b + 1].op = "clear" /\ p[b + 1].cell = k
    BY <1>1 DEF Replacing, ReplacesInTransaction
  <2>2. /\ n < b => p[n].op \in {"read", "present", "absent"}
        /\ b + 1 < n /\ n < e => p[n].op = "read" \/ (p[n].op = "insert" /\ p[n].cell = k)
        /\ e < n => p[n].op \in {"read", "log"}
    BY <1>1, <1>2 DEF Replacing, ReplacesInTransaction
  <2> QED  BY <1>2, <2>1, <2>2 DEF Writes
<1>5. /\ request[r].on = t /\ t \in open /\ rows[k] = Initial[k]
      /\ n = b + 1 => pending[t] = <<>>
      /\ n # b + 1 => DOMAIN pending[t] = {k} /\ pending[t][k] = Inserted(p, k, n)
  <2>1. n <= e /\ (n # b + 1 => b + 1 < n)
    BY <1>2, <1>4
  <2> QED  BY <1>1, <1>3, <1>4, <2>1 DEF Progress, Replacing
<1>6. GoOn(r, 1, seen)
  BY <1>1 DEF WriteAnswer, GoOn
<1>7. request'[r].next = n + 1 /\ program'[r] = p
  BY <1>1, <1>6, OneOn DEF Replacing, PoolInv
<1>8. PICK after :
        /\ after = Written(r, p[n], Sees(t, k))
        /\ pending' = [pending EXCEPT ![t] = [kk \in DOMAIN pending[t] \union {k} |->
                                                IF kk = k THEN after ELSE pending[t][kk]]]
        /\ rows' = rows /\ open' = open
  <2>1. PICK after : after = Written(r, p[n], Sees(t, k))
    OBVIOUS
  <2> QED  BY <1>2, <1>4, <1>5, <2>1 DEF WriteAnswer
<1>9. after = Inserted(p, k, n + 1)
  <2>1. CASE n = b + 1
    <3>1. after = {}
      BY <1>4, <1>8, <2>1 DEF Written
    <3>2. Inserted(p, k, b + 2) = {}
      BY <1>1, <1>2, InsertedEnds DEF Replacing
    <3>3. b + 2 = n + 1
      BY <1>2, <2>1
    <3> QED  BY <3>1, <3>2, <3>3
  <2>2. CASE n # b + 1
    <3>1. Sees(t, k) = Inserted(p, k, n)
      BY <1>5, <2>2 DEF Sees
    <3>2. after = Inserted(p, k, n) \union p[n].rows
      BY <1>4, <1>8, <2>2, <3>1 DEF Written
    <3>3. PICK l \in Nat : DOMAIN p = 1..l /\ n \in 1..l
      BY <1>2
    <3>4. p[n].op = "insert" /\ p[n].cell = k
      BY <1>4, <2>2
    <3>5. Inserted(p, k, n + 1) = Inserted(p, k, n) \union p[n].rows
      BY <3>3, <3>4, InsertedNext
    <3> QED  BY <3>2, <3>5
  <2> QED  BY <2>1, <2>2
<1>10. /\ DOMAIN pending = Connections
       /\ pending'[t] = [kk \in {k} |-> after]
  <2>1. DOMAIN pending = Connections
    BY DEF Replacing, PoolInv, DataInv
  <2>2. DOMAIN pending[t] \union {k} = {k}
    BY <1>5
  <2> QED  BY <1>8, <2>1, <2>2
<1>11. Progress(r, b, e, k, t)'
  <2>1. DOMAIN pending'[t] = {k} /\ pending'[t][k] = Inserted(p, k, n + 1)
    BY <1>9, <1>10
  <2>2. ~(n + 1 <= b) /\ n + 1 # b + 1 /\ ~(e < n + 1)
    BY <1>2, <1>4
  <2>3. Inserted(program'[r], k, request'[r].next) = Inserted(p, k, n + 1)
    BY <1>7
  <2> QED  BY <1>5, <1>7, <1>8, <2>1, <2>2, <2>3 DEF Progress
<1>12. \A c \in Connections \ {t} : Untouched(c)'
  BY <1>3, <1>8, <1>10 DEF Untouched
<1>13. open' \subseteq Connections /\ ~(request[r].next >= e)
  BY <1>1, <1>2, <1>4, <1>8 DEF Replacing, PoolInv, DataInv
<1> QED  BY <1>3, <1>6, <1>8, <1>11, <1>12, <1>13, OneOnKeeps

(* COMMIT writes what was asked for.                                         *)
LEMMA AtCommit ==
  ASSUME NEW r \in Requests, NEW b, NEW e, NEW k \in Cells, NEW t \in Connections,
         Replacing(r, b, e, k, t), ~request[r].failing, Current(r).op = "commit"
  PROVE  /\ request[r].next = e
         /\ rows[k] = Initial[k]
         /\ Sees(t, k) = AskedFor(r, k)
         /\ \A c \in Connections \ {t} : Untouched(c)
<1>1. PICK n, p : n = request[r].next /\ p = program[r]
  OBVIOUS
<1>2. /\ Len(p) \in Nat /\ DOMAIN p = 1..Len(p)
      /\ n \in 1..Len(p)
      /\ b \in 1..Len(p) /\ e \in 1..Len(p) /\ b + 1 < e
      /\ Current(r) = p[n]
  BY <1>1, Positions
<1>3. /\ Progress(r, b, e, k, t)
      /\ \A c \in Connections \ {t} : Untouched(c)
  BY Positions
<1>4. n = e
  <2>1. p[b].op = "begin" /\ p[b + 1].op = "clear"
    BY <1>1 DEF Replacing, ReplacesInTransaction
  <2>2. /\ n < b => p[n].op \in {"read", "present", "absent"}
        /\ b + 1 < n /\ n < e => p[n].op = "read" \/ p[n].op = "insert"
        /\ e < n => p[n].op \in {"read", "log"}
    BY <1>1, <1>2 DEF Replacing, ReplacesInTransaction
  <2> QED  BY <1>2, <2>1, <2>2
<1>5. DOMAIN pending[t] = {k} /\ pending[t][k] = Inserted(p, k, e) /\ rows[k] = Initial[k]
  BY <1>1, <1>2, <1>3, <1>4 DEF Progress
<1>6. Inserted(p, k, e) = AskedFor(r, k)
  BY <1>1, <1>2, InsertedEnds DEF Replacing
<1> QED  BY <1>1, <1>3, <1>4, <1>5, <1>6 DEF Sees

LEMMA CommitKeeps ==
  ASSUME NEW r \in Requests, NEW b, NEW e, NEW k \in Cells, NEW t \in Connections,
         Replacing(r, b, e, k, t), ~request[r].failing, Current(r).op = "commit",
         CommitAnswer(r), program' = program
  PROVE  ReplacedAt(r, b, e, k, t)'
<1>1. PICK seen : seen = request[r].seen
  OBVIOUS
<1>2. GoOn(r, 1, seen)
  BY <1>1 DEF CommitAnswer, GoOn
<1>3. request'[r].next = e + 1
  BY <1>2, AtCommit, OneOn DEF Replacing, PoolInv
<1>4. /\ DOMAIN pending = Connections /\ open \subseteq Connections
      /\ pending' = [pending EXCEPT ![t] = <<>>]
      /\ open' = open \ {t}
      /\ rows' = [kk \in Cells |-> Sees(t, kk)]
  BY DEF CommitAnswer, CommitOn, CloseTransaction, Replacing, PoolInv, DataInv
<1>5. rows'[k] = AskedFor(r, k) /\ AskedFor(r, k)' = AskedFor(r, k)
  <2>1. rows'[k] = Sees(t, k)
    BY <1>4
  <2>2. Sees(t, k) = AskedFor(r, k)
    BY AtCommit
  <2>3. AskedFor(r, k)' = AskedFor(r, k)
    BY DEF AskedFor
  <2> QED  BY <2>1, <2>2, <2>3
<1>6. \A c \in Connections : Untouched(c)'
  BY <1>4, AtCommit DEF Untouched
<1>7. Progress(r, b, e, k, t)'
  <2>1. /\ Len(program[r]) \in Nat
        /\ b \in 1..Len(program[r]) /\ e \in 1..Len(program[r]) /\ b + 1 < e
    BY Positions
  <2>2. ~(e + 1 <= b) /\ e + 1 # b + 1 /\ ~(e + 1 <= e)
    BY <2>1
  <2> QED  BY <1>3, <1>5, <1>6, <2>2 DEF Progress
<1> QED  BY <1>2, <1>4, <1>5, <1>6, <1>7, OneOnKeeps DEF Untouched

(* After it has failed, all that is left is the ROLLBACK.                    *)
LEMMA RollbackKeeps ==
  ASSUME NEW r \in Requests, NEW b, NEW e, NEW k \in Cells, NEW t \in Connections,
         Replacing(r, b, e, k, t), request[r].failing,
         CloseTransaction(t), End(r, "error"), program' = program, rows' = rows
  PROVE  ReplacedAt(r, b, e, k, t)'
<1>1. /\ DOMAIN pending = Connections /\ open \subseteq Connections
      /\ pending' = [pending EXCEPT ![t] = <<>>]
      /\ open' = open \ {t}
  BY DEF CloseTransaction, Replacing, PoolInv, DataInv
<1>2. /\ \A c \in Connections \ {t} : Untouched(c)
      /\ rows[k] \in {Initial[k], AskedFor(r, k)}
  BY DEF Replacing, ReplacedAt
<1>3. open' = {} /\ \A c \in Connections : Untouched(c)'
  BY <1>1, <1>2 DEF Untouched
<1>4. request'[r].step = "error"
  <2>1. request'[r] = [step |-> "error", next |-> request[r].next, on |-> None,
                       seen |-> request[r].seen, failing |-> request[r].failing]
    BY Ends DEF Replacing, PoolInv
  <2> QED  BY <2>1
<1>5. AskedFor(r, k)' = AskedFor(r, k)
  BY DEF AskedFor
<1> QED  BY <1>2, <1>3, <1>4, <1>5 DEF ReplacedAt, Running

LEMMA RefusedKeeps ==
  ASSUME NEW r \in Requests, NEW b, NEW e, NEW k \in Cells, NEW t \in Connections,
         Replacing(r, b, e, k, t), ~request[r].failing,
         Current(r).op \in {"present", "absent"},
         End(r, "refused"), UNCHANGED <<program, pending, open, rows>>
  PROVE  ReplacedAt(r, b, e, k, t)'
<1>1. PICK n, p : n = request[r].next /\ p = program[r]
  OBVIOUS
<1>2. /\ Len(p) \in Nat /\ DOMAIN p = 1..Len(p)
      /\ n \in 1..Len(p)
      /\ b \in 1..Len(p) /\ e \in 1..Len(p) /\ b + 1 < e
      /\ Current(r) = p[n]
  BY <1>1, Positions
<1>3. n < b
  <2>1. p[b].op = "begin" /\ p[b + 1].op = "clear" /\ p[e].op = "commit"
    BY <1>1 DEF Replacing, ReplacesInTransaction
  <2>2. /\ b + 1 < n /\ n < e => p[n].op = "read" \/ p[n].op = "insert"
        /\ e < n => p[n].op \in {"read", "log"}
    BY <1>1, <1>2 DEF Replacing, ReplacesInTransaction
  <2> QED  BY <1>2, <2>1, <2>2
<1>4. /\ Progress(r, b, e, k, t)
      /\ \A c \in Connections \ {t} : Untouched(c)
  BY Positions
<1>5. Untouched(t) /\ rows[k] = Initial[k]
  BY <1>1, <1>2, <1>3, <1>4 DEF Progress
<1>6. open = {}
  BY <1>4, <1>5 DEF Untouched, Replacing, PoolInv, DataInv
<1>7. request'[r].step = "refused"
  <2>1. request'[r] = [step |-> "refused", next |-> request[r].next, on |-> None,
                       seen |-> request[r].seen, failing |-> request[r].failing]
    BY Ends DEF Replacing, PoolInv
  <2> QED  BY <2>1
<1> QED  BY <1>4, <1>5, <1>6, <1>7 DEF ReplacedAt, Running, Untouched

(* The connection goes, and the transaction with it.                         *)
LEMMA LossKeeps ==
  ASSUME NEW r \in Requests, NEW b, NEW e, NEW k \in Cells, NEW t \in Connections,
         Replacing(r, b, e, k, t), ConnectionLost(r)
  PROVE  ReplacedAt(r, b, e, k, t)'
<1>1. RequestInv /\ request[r].step \in Running
  BY DEF Replacing, PoolInv, Asking, Running
<1>2. /\ DOMAIN pending = Connections /\ open \subseteq Connections
      /\ pending' = [pending EXCEPT ![t] = <<>>]
      /\ open' = open \ {t}
      /\ program' = program
  BY DEF ConnectionLost, CloseTransaction, Replacing, PoolInv, DataInv
<1>3. /\ \A c \in Connections \ {t} : Untouched(c)
      /\ rows[k] \in {Initial[k], AskedFor(r, k)}
  BY DEF Replacing, ReplacedAt
<1>4. open' = {} /\ \A c \in Connections : Untouched(c)'
  BY <1>2, <1>3 DEF Untouched
<1>5. AskedFor(r, k)' = AskedFor(r, k)
  BY <1>2 DEF AskedFor
<1>6. CASE request[r].failing
  <2>1. Current(r).op = "rollback"
    BY <1>1, <1>6, CurrentType
  <2>2. CloseTransaction(t) /\ End(r, "error") /\ rows' = rows
    BY <2>1 DEF ConnectionLost, Replacing
  <2> QED  BY <1>2, <1>6, <2>2, RollbackKeeps
<1>7. CASE ~request[r].failing
  <2>1. PICK n, p, seen : n = request[r].next /\ p = program[r] /\ seen = request[r].seen
    OBVIOUS
  <2>2. /\ Len(p) \in Nat /\ DOMAIN p = 1..Len(p)
        /\ n \in 1..Len(p)
        /\ b \in 1..Len(p) /\ e \in 1..Len(p) /\ b + 1 < e
        /\ Current(r) = p[n]
    BY <1>7, <2>1, Positions
  <2>3. /\ n = b => p[n].op = "begin"
        /\ n = b + 1 => p[n].op = "clear"
        /\ n = e => p[n].op = "commit"
        /\ n < b => p[n].op \in {"read", "present", "absent"}
        /\ b + 1 < n /\ n < e => p[n].op = "read" \/ p[n].op = "insert"
        /\ e < n => p[n].op \in {"read", "log"}
    BY <2>1, <2>2 DEF Replacing, ReplacesInTransaction
  <2>4. CASE Current(r).op = "log"
    <3>1. e < n
      BY <2>2, <2>3, <2>4
    <3>2. /\ GoOn(r, 1, seen) /\ rows' = rows
      BY <2>1, <2>4 DEF ConnectionLost, GoOn
    <3>3. Progress(r, b, e, k, t)
      BY <1>7, Positions
    <3>4. rows[k] = AskedFor(r, k)
      BY <2>1, <2>2, <3>1, <3>3 DEF Progress
    <3>5. request'[r].next = n + 1
      BY <1>1, <2>1, <3>2, OneOn
    <3>6. Progress(r, b, e, k, t)'
      <4>1. ~(n + 1 <= b) /\ n + 1 # b + 1 /\ ~(n + 1 <= e)
        BY <2>2, <3>1
      <4> QED  BY <1>4, <1>5, <3>2, <3>4, <3>5, <4>1 DEF Progress
    <3> QED  BY <1>2, <1>3, <1>4, <1>7, <3>2, <3>4, <3>6, OneOnKeeps
  <2>5. CASE Current(r).op # "log"
    <3>1. Current(r).op # "rollback"
      BY <2>2, <2>3
    <3>2. Throw(r)
      BY <2>5, <3>1 DEF ConnectionLost
    <3>3. rows' = rows \/ (Current(r).op = "commit" /\ CommitOn(t))
      BY DEF ConnectionLost, Replacing
    <3>4. rows'[k] \in {Initial[k], AskedFor(r, k)}
      <4>1. CASE rows' = rows
        BY <1>3, <4>1
      <4>2. CASE Current(r).op = "commit" /\ CommitOn(t)
        <5>1. rows'[k] = Sees(t, k)
          BY <4>2 DEF CommitOn
        <5>2. Sees(t, k) = AskedFor(r, k)
          BY <1>7, <4>2, AtCommit
        <5> QED  BY <5>1, <5>2
      <4> QED  BY <3>3, <4>1, <4>2
    <3>5. PICK step \in {"waiting", "error"} :
            /\ step = "waiting" => Current(r).guarded
            /\ request'[r].step = step
            /\ request'[r].failing = Current(r).guarded
      <4>1. request'[r] = [step |-> IF Current(r).guarded THEN "waiting" ELSE "error",
                           next |-> request[r].next, on |-> None, seen |-> request[r].seen,
                           failing |-> Current(r).guarded]
        BY <1>1, <3>2, Throws
      <4> QED  BY <4>1
    <3> QED  BY <1>4, <1>5, <3>4, <3>5 DEF ReplacedAt, Running
  <2> QED  BY <2>4, <2>5
<1> QED  BY <1>6, <1>7

LEMMA AnswerKeeps ==
  ASSUME NEW r \in Requests, NEW b, NEW e, NEW k \in Cells, NEW t \in Connections,
         Replacing(r, b, e, k, t), Answer(r) \/ QueryFails(r) \/ ConnectionLost(r)
  PROVE  ReplacedAt(r, b, e, k, t)'
<1>1. RequestInv /\ request[r].step \in Running /\ request[r].on = t
  BY DEF Replacing, PoolInv, Asking, Running
<1>2. PICK n, p : n = request[r].next /\ p = program[r]
  OBVIOUS
<1>3. ~request[r].failing =>
        /\ Current(r).op # "rollback"
        /\ n = b => Current(r).op = "begin"
        /\ Current(r).op # "skipIf"
  <2>1. SUFFICES ASSUME ~request[r].failing
                 PROVE  /\ Current(r).op # "rollback"
                        /\ n = b => Current(r).op = "begin"
                        /\ Current(r).op # "skipIf"
    OBVIOUS
  <2>2. /\ Len(p) \in Nat /\ DOMAIN p = 1..Len(p)
        /\ n \in 1..Len(p)
        /\ b \in 1..Len(p) /\ e \in 1..Len(p) /\ b + 1 < e
        /\ Current(r) = p[n]
    BY <1>2, <2>1, Positions
  <2>3. /\ n = b => p[n].op = "begin"
        /\ n = b + 1 => p[n].op = "clear"
        /\ n = e => p[n].op = "commit"
        /\ n < b => p[n].op \in {"read", "present", "absent"}
        /\ b + 1 < n /\ n < e => p[n].op = "read" \/ p[n].op = "insert"
        /\ e < n => p[n].op \in {"read", "log"}
    BY <1>2, <2>2 DEF Replacing, ReplacesInTransaction
  <2> QED  BY <2>2, <2>3
<1>4. request[r].failing => Current(r).op = "rollback"
  BY <1>1, CurrentType
<1>5. CASE Answer(r)
  <2>1. program' = program
    BY <1>5 DEF Answer
  <2>2. CASE Current(r).op = "begin" /\ BeginAnswer(r)
    BY <1>4, <2>1, <2>2, BeginKeeps
  <2>3. CASE Current(r).op = "commit" /\ CommitAnswer(r)
    BY <1>4, <2>1, <2>3, CommitKeeps
  <2>4. CASE Current(r).op = "rollback" /\ RollbackAnswer(r)
    <3>1. CloseTransaction(t) /\ End(r, "error") /\ rows' = rows
      BY <1>1, <2>4 DEF RollbackAnswer
    <3> QED  BY <1>3, <2>1, <2>4, <3>1, RollbackKeeps
  <2>5. CASE Current(r).op \in {"read", "present", "absent", "skipIf"} /\ ReadAnswer(r)
    <3>1. ~request[r].failing /\ Current(r).op \in {"read", "present", "absent"}
      BY <1>3, <1>4, <2>5
    <3>2. PICK seen : seen = IF Current(r).cell \in Cells THEN Sees(request[r].on, Current(r).cell) ELSE {}
      OBVIOUS
    <3>3. UNCHANGED <<pending, open, rows>>
      BY <2>5 DEF ReadAnswer
    <3>4. GoOn(r, 1, seen) \/ (Current(r).op \in {"present", "absent"} /\ End(r, "refused"))
      BY <2>5, <3>1, <3>2 DEF ReadAnswer, GoOn
    <3>5. CASE GoOn(r, 1, seen)
      BY <2>1, <3>1, <3>3, <3>5, ReadKeeps
    <3>6. CASE Current(r).op \in {"present", "absent"} /\ End(r, "refused")
      BY <2>1, <3>1, <3>3, <3>6, RefusedKeeps
    <3> QED  BY <3>4, <3>5, <3>6
  <2>6. CASE Current(r).op \in Writes /\ WriteAnswer(r)
    <3>1. ~request[r].failing
      BY <1>4, <2>6 DEF Writes
    <3> QED  BY <2>1, <2>6, <3>1, WriteKeeps
  <2>7. CASE Current(r).op = "log" /\ LogAnswer(r)
    <3>1. PICK seen : seen = request[r].seen
      OBVIOUS
    <3>2. GoOn(r, 1, seen) /\ UNCHANGED <<pending, open, rows>>
      BY <2>7, <3>1 DEF LogAnswer, GoOn
    <3> QED  BY <1>4, <2>1, <2>7, <3>2, ReadKeeps
  <2>8. CASE WriteRejected(r)
    <3>1. /\ Current(r).op \in Writes
          /\ Throw(r) /\ UNCHANGED <<pending, open, rows>>
      BY <2>8 DEF WriteRejected
    <3>2. ~request[r].failing /\ n # b
      BY <1>3, <1>4, <3>1 DEF Writes
    <3> QED  BY <1>2, <2>1, <3>1, <3>2, ThrowKeeps
  <2> QED  BY <1>5, <2>2, <2>3, <2>4, <2>5, <2>6, <2>7, <2>8 DEF Answer
<1>6. CASE QueryFails(r)
  <2>1. /\ Throw(r) /\ UNCHANGED <<program, pending, open, rows>>
        /\ Current(r).op \notin {"begin", "rollback"}
    BY <1>6 DEF QueryFails
  <2> QED  BY <1>2, <1>3, <1>4, <2>1, ThrowKeeps
<1>7. CASE ConnectionLost(r)
  BY <1>7, LossKeeps
<1> QED  BY <1>5, <1>6, <1>7

LEMMA TransactionInit == Init => TransactionInv
<1> SUFFICES ASSUME Init,
                    NEW r \in Requests, NEW b \in DOMAIN program[r], NEW e \in DOMAIN program[r],
                    NEW k \in Cells, ReplacesInTransaction(program[r], b, e, k)
             PROVE  \E t \in Connections : OnTop(r, t) /\ ReplacedAt(r, b, e, k, t)
  BY DEF TransactionInv
<1>1. program \in Mixes /\ free = SetToSeq(Connections)
  BY DEF Init
<1>2. Last(free) \in Connections /\ free # <<>>
  BY <1>1, Stacked, Popped
<1>3. program[r] # <<>> /\ 1 <= b /\ ~(1 = b + 1) /\ ~(b + 1 < 1) /\ ~(b < 1) /\ ~(e < 1)
  <2>1. DOMAIN program[r] = 1..Len(program[r]) /\ Len(program[r]) \in Nat
    BY <1>1, ProgramType
  <2>2. program[r] # <<>>
    <3>1. ASSUME program[r] = <<>>  PROVE FALSE
      <4>1. Len(program[r]) = 0
        BY <3>1, EmptySeq
      <4> QED  BY <2>1, <4>1
    <3> QED  BY <3>1
  <2> QED  BY <2>1, <2>2
<1>4. request[r].step = "waiting" /\ request[r].next = 1 /\ ~request[r].failing
  BY <1>3 DEF Init
<1>5. \A c \in Connections : Untouched(c)
  BY DEF Init, Untouched
<1>6. rows[k] = Initial[k]
  BY DEF Init
<1>7. Progress(r, b, e, k, Last(free))
  BY <1>2, <1>3, <1>4, <1>5, <1>6 DEF Progress
<1>8. ReplacedAt(r, b, e, k, Last(free))
  BY <1>4, <1>5, <1>6, <1>7 DEF ReplacedAt, Running
<1>9. PICK t \in Connections : t = Last(free)
  BY <1>2
<1>10. OnTop(r, t) /\ ReplacedAt(r, b, e, k, t)
  BY <1>2, <1>4, <1>8, <1>9 DEF OnTop, Asking
<1> QED  BY <1>10

LEMMA TransactionStep == PoolInv /\ PoolInv' /\ TransactionInv /\ [Next]_vars => TransactionInv'
<1> SUFFICES ASSUME PoolInv, PoolInv', TransactionInv, [Next]_vars,
                    NEW r \in Requests, Alone(r)', "free" \notin Range(faults)',
                    NEW b \in DOMAIN program'[r], NEW e \in DOMAIN program'[r],
                    NEW k \in Cells, ReplacesInTransaction(program'[r], b, e, k)
             PROVE  \E t \in Connections : OnTop(r, t)' /\ ReplacedAt(r, b, e, k, t)'
  BY DEF TransactionInv
<1>1. program' = program
  BY DEF Next, Ask, Answer, QueryFails, ConnectionLost, FreeConnectionLost, IdleTimeout, ProcessCrash, vars
<1>2. /\ faults \in Seq({"query", "connection", "free", "crash"})
      /\ DataInv /\ FreeInv /\ RequestInv
  BY DEF PoolInv, DataInv
<1>3. Range(faults) \subseteq Range(faults')
  <2>1. faults' = faults \/ \E kind \in {"query", "connection", "free", "crash"} : Fault(kind)
    BY DEF Next, Ask, Answer, QueryFails, ConnectionLost, FreeConnectionLost, IdleTimeout, ProcessCrash, vars
  <2> QED  BY <1>2, <2>1, FaultType
<1>4. PICK t \in Connections : OnTop(r, t) /\ ReplacedAt(r, b, e, k, t)
  BY <1>1, <1>3 DEF TransactionInv, Alone, Range
<1>5. /\ \A c \in Connections \ {t} : Untouched(c)
      /\ open \subseteq Connections
      /\ request[r].step \notin Running => open = {}
  BY <1>2, <1>4 DEF ReplacedAt, DataInv
<1>6. AskedFor(r, k)' = AskedFor(r, k)
  BY <1>1 DEF AskedFor
<1>7. ASSUME NEW q \in Requests, request[q].step \in Running  PROVE q = r
  BY <1>1, <1>2, <1>7 DEF Alone, RequestInv, Running
<1>8. ASSUME NEW q \in Requests, Ask(q)
      PROVE  \E u \in Connections : OnTop(r, u)' /\ ReplacedAt(r, b, e, k, u)'
  <2>1. q = r /\ request[r].step = "waiting"
    BY <1>7, <1>8 DEF Ask, Running
  <2>2. Last(free) = t
    BY <1>4, <2>1 DEF OnTop, Asking
  <2>3. /\ request'[r].step = "asking" /\ request'[r].on = t
        /\ request'[r].next = request[r].next /\ request'[r].failing = request[r].failing
    <3>1. request'[r] = [step |-> "asking", next |-> request[r].next, on |-> Last(free),
                         seen |-> request[r].seen, failing |-> request[r].failing]
      BY <1>2, <1>8, <2>1, Taken
    <3> QED  BY <2>2, <3>1
  <2>4. UNCHANGED <<pending, open, rows>>
    BY <1>8 DEF Ask
  <2>5. Progress(r, b, e, k, t)' = Progress(r, b, e, k, t)
    BY <1>1, <1>6, <2>3, <2>4 DEF Progress, Untouched
  <2>6. ReplacedAt(r, b, e, k, t)'
    BY <1>4, <1>6, <2>1, <2>3, <2>4, <2>5 DEF ReplacedAt, Untouched, Running
  <2> QED  BY <2>3, <2>6 DEF OnTop, Asking
<1>9. ASSUME NEW q \in Requests, Answer(q) \/ QueryFails(q) \/ ConnectionLost(q)
      PROVE  \E u \in Connections : OnTop(r, u)' /\ ReplacedAt(r, b, e, k, u)'
  <2>1. q = r /\ Asking(r) /\ Outcome(r)
    BY <1>7, <1>9, AnswerOutcome DEF Asking, Running
  <2>2. request[r].on = t
    BY <1>4, <2>1 DEF OnTop
  <2>3. Replacing(r, b, e, k, t)
    BY <1>1, <1>4, <2>1, <2>2 DEF Replacing
  <2>4. ReplacedAt(r, b, e, k, t)'
    BY <1>9, <2>1, <2>3, AnswerKeeps
  <2>5. request'[r].step # "asking" /\ free' # <<>> /\ Last(free') = t
    <3>1. /\ \A p \in Requests \ {r} : request'[p] = request[p]
          /\ request'[r].step # "asking"
          /\ free' = Append(free, request[r].on)
      BY <1>1, <1>2, <2>1, OutcomeType
    <3> QED  BY <1>2, <2>1, <2>2, <3>1, Released
  <2> QED  BY <2>4, <2>5 DEF OnTop, Asking
<1>10. CASE FreeConnectionLost
  BY <1>2, <1>10, FaultType DEF FreeConnectionLost
<1>11. CASE IdleTimeout
  <2>1. PICK i \in DOMAIN free : {free[j] : j \in 1..i} \intersect open # {}
    BY <1>11 DEF IdleTimeout
  <2>2. PICK j \in 1..i : free[j] \in open
    BY <2>1
  <2>3. free[j] \in Range(free)
    <3>1. DOMAIN free = 1..Len(free) /\ Len(free) \in Nat
      BY <1>2, LenProperties DEF FreeInv
    <3> QED  BY <2>1, <2>2, <3>1 DEF Range
  <2>4. Asking(r)
    BY <1>5, <1>11, <2>2 DEF IdleTimeout, Running, Asking
  <2>5. t \notin Range(free)
    BY <1>2, <1>4, <2>4 DEF OnTop, FreeInv
  <2> QED  BY <1>5, <2>2, <2>3, <2>5 DEF Untouched
<1>12. CASE ProcessCrash
  <2>1. free' = SetToSeq(Connections) /\ rows' = rows
    BY <1>12 DEF ProcessCrash
  <2>2. PICK u \in Connections : free' # <<>> /\ Last(free') = u
    BY <2>1, Stacked, Popped
  <2>3. open' = {} /\ \A c \in Connections : Untouched(c)'
    BY <1>12 DEF ProcessCrash, Untouched
  <2>4. request'[r].step = IF request[r].step \in Running THEN "dead" ELSE request[r].step
    BY <1>12, Crashed
  <2>5. ReplacedAt(r, b, e, k, u)'
    BY <1>4, <1>6, <2>1, <2>3, <2>4 DEF ReplacedAt, Running
  <2> QED  BY <2>2, <2>4, <2>5 DEF OnTop, Asking, Running
<1>13. CASE UNCHANGED vars
  <2>1. UNCHANGED <<request, free, pending, open, rows>>
    BY <1>13 DEF vars
  <2>2. Progress(r, b, e, k, t)' = Progress(r, b, e, k, t)
    BY <1>1, <1>6, <2>1 DEF Progress, Untouched
  <2> QED  BY <1>4, <1>6, <2>1, <2>2 DEF OnTop, Asking, ReplacedAt, Untouched
<1> QED  BY <1>8, <1>9, <1>10, <1>11, <1>12, <1>13 DEF Next

(* The two replaced sets of permissions, for any roles, users, permissions   *)
(* asked for and queries around the transaction, and any number of faults    *)
(* one after the other: alone, updateRolePermissions() and                   *)
(* updateUserPermissionOverrides() replace the set as a whole or not at all. *)
THEOREM ReplacedAsAWhole == Spec => []AloneReplacesWhole
<1>1. PoolInv /\ TransactionInv => AloneReplacesWhole
  <2> SUFFICES ASSUME PoolInv, TransactionInv,
                      NEW r \in Requests, Alone(r), HasTransaction(r), "free" \notin Range(faults)
               PROVE  /\ \A kk \in Touching(r, {"clear"}) :
                           /\ rows[kk] \in {Initial[kk], AskedFor(r, kk)}
                           /\ request[r].step = "success" => rows[kk] = AskedFor(r, kk)
                           /\ request[r].step = "refused" => rows[kk] = Initial[kk]
                      /\ Over(r) => open = {}
    BY DEF AloneReplacesWhole
  <2>1. program \in Mixes
    BY DEF PoolInv, RequestInv
  <2>2. PICK b \in DOMAIN program[r], e \in DOMAIN program[r], k \in Cells :
          ReplacesInTransaction(program[r], b, e, k)
    BY <2>1, TransactionsAssumption DEF HasTransaction
  <2>3. PICK t \in Connections : ReplacedAt(r, b, e, k, t)
    BY <2>2 DEF TransactionInv
  <2>4. ASSUME NEW kk \in Touching(r, {"clear"})  PROVE kk = k
    <3>1. PICK i \in DOMAIN program[r] : program[r][i].op = "clear" /\ program[r][i].cell = kk
      BY <2>4 DEF Touching
    <3>2. b \in Nat /\ e \in Nat /\ i \in Nat
      BY <2>1, ProgramType
    <3>3. i = b + 1
      BY <2>2, <3>1, <3>2 DEF ReplacesInTransaction
    <3> QED  BY <2>2, <3>1, <3>3 DEF ReplacesInTransaction
  <2> QED  BY <2>3, <2>4 DEF ReplacedAt, Over
<1> QED  BY <1>1, PoolInit, PoolStep, TransactionInit, TransactionStep, PTL DEF Spec

-----------------------------------------------------------------------------
(* One gets the name *)

NoTransaction == \A r \in Requests : ~HasTransaction(r)

(* Request r has been answered a query of this kind that touches cell k.     *)
Past(r, op, k) ==
    \E i \in DOMAIN program[r] :
       i < request[r].next /\ program[r][i].op = op /\ program[r][i].cell = k

HasCreated(r, k) == Creates(r, k) /\ Past(r, "insertUnique", k)

HasRenamed(r, k) == Past(r, "rename", k)

Unique(k) == \E r \in Requests : k \in Touching(r, {"insertUnique"})

(* No row of cell k that a rename would find to be its own.                  *)
NotRenamed(k, now) ==
    \A q \in Requests : \A i \in DOMAIN program[q] :
       program[q][i].op = "rename" /\ program[q][i].cell = k => now \ program[q][i].rows # {}

Outside == open = {} /\ \A c \in Connections : pending[c] = <<>>

(* The row under a name stays, and where it has been created it is not the   *)
(* renamed one: no rename takes the name then.                               *)
NameAt(k) ==
    /\ \A r \in Requests :
          /\ HasCreated(r, k) => NotRenamed(k, rows[k])
          /\ HasCreated(r, k) \/ (HasRenamed(r, k) /\ Unique(k)) => rows[k] # {}
    /\ \A q, r \in Requests : q # r /\ HasCreated(q, k) => ~HasCreated(r, k) /\ ~HasRenamed(r, k)

NamesInv == NoTransaction => Outside /\ \A k \in Cells : NameAt(k)

(* Without a transaction every query is committed at once.                   *)
LEMMA OutsideStep ==
  ASSUME PoolInv, Outside, NoTransaction, [Next]_vars
  PROVE  Outside' /\ NoTransaction' /\ program' = program
<1>1. program' = program
  BY DEF Next, Ask, Answer, QueryFails, ConnectionLost, FreeConnectionLost, IdleTimeout, ProcessCrash, vars
<1>2. NoTransaction'
  BY <1>1 DEF NoTransaction, HasTransaction
<1> SUFFICES Outside'
  BY <1>1, <1>2
<1>3. DOMAIN pending = Connections
  BY DEF PoolInv, DataInv
<1>4. ASSUME NEW c \in Connections, CloseTransaction(c)  PROVE Outside'
  BY <1>3, <1>4 DEF Outside, CloseTransaction
<1>5. ASSUME NEW r \in Requests, Ask(r)  PROVE Outside'
  BY <1>5 DEF Ask, Outside
<1>6. ASSUME NEW r \in Requests, Answer(r) \/ QueryFails(r) \/ ConnectionLost(r)  PROVE Outside'
  <2>1. request[r].on \in Connections /\ RequestInv /\ request[r].step \in Running
    BY <1>6, AnswerOutcome DEF PoolInv, FreeInv, Asking, Running
  <2>2. PICK c \in Connections : c = request[r].on
    BY <2>1
  <2>3. Current(r).op # "begin"
    <3>1. ~request[r].failing => Current(r) = program[r][request[r].next] /\ request[r].next \in DOMAIN program[r]
      BY <2>1, CurrentType DEF RequestInv
    <3>2. request[r].failing => Current(r).op = "rollback"
      BY <2>1, CurrentType
    <3> QED  BY <3>1, <3>2 DEF NoTransaction, HasTransaction
  <2>4. CASE CommitAnswer(r) \/ RollbackAnswer(r) \/ ConnectionLost(r)
    <3>1. CloseTransaction(c)
      BY <2>2, <2>4 DEF CommitAnswer, RollbackAnswer, ConnectionLost
    <3> QED  BY <1>4, <3>1
  <2>5. CASE ReadAnswer(r) \/ LogAnswer(r) \/ WriteRejected(r) \/ QueryFails(r)
    BY <2>5 DEF ReadAnswer, LogAnswer, WriteRejected, QueryFails, Outside
  <2>6. CASE WriteAnswer(r)
    <3>1. request[r].on \notin open
      BY DEF Outside
    <3> QED  BY <2>6, <3>1 DEF WriteAnswer, Outside
  <2> QED  BY <1>6, <2>3, <2>4, <2>5, <2>6 DEF Answer
<1>7. CASE FreeConnectionLost
  <2>1. PICK c \in Range(free) : CloseTransaction(c)
    BY <1>7 DEF FreeConnectionLost
  <2>2. c \in Connections
    <3>1. /\ free \in Seq(Connections)
          /\ DOMAIN free = 1..Len(free)
      BY LenProperties DEF PoolInv, FreeInv
    <3> QED  BY <2>1, <3>1, ElementOfSeq DEF Range
  <2> QED  BY <1>4, <2>1, <2>2
<1>8. CASE IdleTimeout
  BY <1>8 DEF IdleTimeout, Outside
<1>9. CASE ProcessCrash
  BY <1>9 DEF ProcessCrash, Outside
<1>10. CASE UNCHANGED vars
  BY <1>10 DEF vars, Outside
<1> QED  BY <1>5, <1>6, <1>7, <1>8, <1>9, <1>10 DEF Next

(* What is new in what a request has passed lies between where it was and    *)
(* where it is.                                                              *)
LEMMA Further ==
  ASSUME PoolInv, program' = program, NEW r \in Requests, NEW k, NEW n \in Nat, n = request[r].next
  PROVE  /\ HasCreated(r, k)' => \/ HasCreated(r, k)
                                 \/ Creates(r, k) /\ \E i \in DOMAIN program[r] :
                                       /\ n <= i /\ i < request'[r].next
                                       /\ program[r][i].op = "insertUnique" /\ program[r][i].cell = k
         /\ HasRenamed(r, k)' => \/ HasRenamed(r, k)
                                 \/ \E i \in DOMAIN program[r] :
                                       /\ n <= i /\ i < request'[r].next
                                       /\ program[r][i].op = "rename" /\ program[r][i].cell = k
<1>1. PICK p, m : p = program[r] /\ m = request'[r].next
  OBVIOUS
<1>2. Len(p) \in Nat /\ DOMAIN p = 1..Len(p)
  BY <1>1, ProgramType DEF PoolInv, RequestInv
<1>3. program'[r] = p /\ Creates(r, k)' = Creates(r, k)
  BY <1>1 DEF Creates, Touching
<1>4. ASSUME NEW op, Past(r, op, k)'
      PROVE  Past(r, op, k) \/ \E i \in DOMAIN p : n <= i /\ i < m /\ p[i].op = op /\ p[i].cell = k
  <2>1. PICK i \in DOMAIN p : i < m /\ p[i].op = op /\ p[i].cell = k
    BY <1>1, <1>3, <1>4 DEF Past
  <2>2. i < n \/ n <= i
    BY <1>2
  <2> QED  BY <1>1, <2>1, <2>2 DEF Past
<1> QED  BY <1>1, <1>3, <1>4 DEF HasCreated, HasRenamed

(* Nothing is created or renamed by queries that are left out, or that only  *)
(* read or log.                                                              *)
LEMMA NothingNew ==
  ASSUME PoolInv, program' = program, NEW r \in Requests, request[r].step \in Running,
         NEW k, NEW n \in 1..3, request'[r].next = request[r].next + n,
         ~request[r].failing, Current(r).op \notin {"insertUnique", "rename"} \/ Current(r).cell # k,
         n # 1 => Current(r).op = "skipIf"
  PROVE  /\ HasCreated(r, k)' => HasCreated(r, k)
         /\ HasRenamed(r, k)' => HasRenamed(r, k)
<1>1. PICK p, m : p = program[r] /\ m = request[r].next
  OBVIOUS
<1>2. /\ Len(p) \in Nat /\ DOMAIN p = 1..Len(p)
      /\ m \in 1..Len(p) /\ Current(r) = p[m]
  BY <1>1, ProgramType, CurrentType DEF PoolInv, RequestInv
<1>3. ASSUME NEW i \in DOMAIN p, m <= i, i < m + n
      PROVE  i = m \/ (i \in {m + 1, m + 2} /\ p[m].op = "skipIf")
  BY <1>2, <1>3
<1>4. ASSUME NEW i \in DOMAIN p, i \in {m + 1, m + 2}, p[m].op = "skipIf"
      PROVE  p[i].op = "log" \/ (p[i].op = "insertUnique" /\ p[i].cell = p[m].cell)
  <2>1. /\ program \in Mixes
        /\ m \in DOMAIN p /\ i \in DOMAIN p \intersect {m + 1, m + 2}
    BY <1>2, <1>4 DEF PoolInv, RequestInv
  <2> QED  BY <1>1, <1>4, <2>1, NamesAssumption
<1>5. ASSUME NEW i \in DOMAIN p, m <= i, i < m + n, p[i].cell = k, p[i].op = "insertUnique"
      PROVE  ~Creates(r, k)
  <2>1. i \in {m + 1, m + 2} /\ p[m].op = "skipIf" /\ p[m].cell = k
    BY <1>2, <1>3, <1>4, <1>5
  <2> QED  BY <1>1, <1>2, <2>1 DEF Creates, Touching
<1>6. ASSUME NEW i \in DOMAIN p, m <= i, i < m + n, p[i].cell = k
      PROVE  p[i].op # "rename"
  BY <1>2, <1>3, <1>4, <1>6
<1>7. m \in Nat /\ request'[r].next = m + n
  BY <1>1, <1>2
<1> QED  BY <1>1, <1>5, <1>6, <1>7, Further

(* A cell whose rows stay, and for which nobody does anything new.           *)
LEMMA NameStays ==
  ASSUME NEW k, NameAt(k), program' = program, rows'[k] = rows[k],
         \A q \in Requests : /\ HasCreated(q, k)' => HasCreated(q, k)
                             /\ HasRenamed(q, k)' => HasRenamed(q, k)
  PROVE  NameAt(k)'
<1>1. Unique(k)' = Unique(k)
  BY DEF Unique, Touching
<1>2. NotRenamed(k, rows[k])' = NotRenamed(k, rows[k])
  BY DEF NotRenamed
<1> QED  BY <1>1, <1>2 DEF NameAt

LEMMA OthersStay ==
  ASSUME program' = program, NEW q \in Requests, request'[q].next = request[q].next, NEW k
  PROVE  HasCreated(q, k)' = HasCreated(q, k) /\ HasRenamed(q, k)' = HasRenamed(q, k)
BY DEF HasCreated, HasRenamed, Creates, Touching, Past

(* A write at cell k, of the query s that request r is at.                   *)
Writing(r, k, s, after) ==
    /\ NoTransaction /\ NameAt(k) /\ program' = program
    /\ \E i \in DOMAIN program[r] : program[r][i] = s
    /\ s.cell = k
    /\ ~Duplicate(s, rows[k])
    /\ after = Written(r, s, rows[k])
    /\ rows'[k] = after
    /\ \A q \in Requests \ {r} : /\ HasCreated(q, k)' = HasCreated(q, k)
                                 /\ HasRenamed(q, k)' = HasRenamed(q, k)
    /\ HasCreated(r, k)' => HasCreated(r, k) \/ s.op = "insertUnique"
    /\ HasRenamed(r, k)' => HasRenamed(r, k) \/ s.op = "rename"

(* What the handlers have in common, for the queries that touch one cell.    *)
LEMMA OneCell ==
  ASSUME program \in Mixes,
         NEW q \in Requests, NEW i \in DOMAIN program[q],
         NEW r \in Requests, NEW j \in DOMAIN program[r],
         NEW s, s = program[q][i], NEW t, t = program[r][j], s.cell = t.cell
  PROVE  /\ t.op = "insertUnique" =>
               /\ s.op # "clear"
               /\ s.op \in {"insertUnique", "rename", "set"} => s.rows # {}
         /\ t.op = "rename" =>
               /\ s.op # "negate"
               /\ s.op \in {"insertUnique", "set"} => s.rows \intersect t.rows = {}
BY NamesAssumption

(* Under a name that somebody creates.                                       *)
LEMMA UniqueCell ==
  ASSUME program \in Mixes, NEW r \in Requests, NEW k, NEW s, Unique(k),
         \E i \in DOMAIN program[r] : program[r][i] = s, s.cell = k
  PROVE  /\ s.op # "clear"
         /\ s.op \in {"insertUnique", "rename", "set"} => s.rows # {}
<1>1. PICK q \in Requests : \E j \in DOMAIN program[q] :
        program[q][j].op = "insertUnique" /\ program[q][j].cell = k
  BY DEF Unique, Touching
<1>2. PICK j \in DOMAIN program[q] : program[q][j].op = "insertUnique" /\ program[q][j].cell = k
  BY <1>1
<1>3. PICK t : t = program[q][j]
  OBVIOUS
<1> QED  BY <1>2, <1>3, OneCell

LEMMA OtherThanRenamed ==
  ASSUME program \in Mixes, NEW r \in Requests, NEW k, NEW s,
         \E i \in DOMAIN program[r] : program[r][i] = s, s.cell = k,
         s.op \in {"insertUnique", "set"}, s.rows # {}
  PROVE  NotRenamed(k, s.rows)
<1> SUFFICES ASSUME NEW q \in Requests, NEW i \in DOMAIN program[q],
                    program[q][i].op = "rename", program[q][i].cell = k
             PROVE  s.rows \ program[q][i].rows # {}
  BY DEF NotRenamed
<1>1. PICK t : t = program[q][i]
  OBVIOUS
<1>2. s.rows \intersect t.rows = {}
  BY <1>1, OneCell
<1> QED  BY <1>1, <1>2

LEMMA WriteKeepsName ==
  ASSUME program \in Mixes, NEW r \in Requests, NEW k, NEW s, NEW after,
         Writing(r, k, s, after), s.op \in Writes
  PROVE  NameAt(k)'
<1>1. /\ Unique(k)' = Unique(k)
      /\ \A q \in Requests : HasCreated(q, k) => Unique(k)
      /\ \A q \in Requests : HasCreated(q, k)' => Unique(k)
  BY DEF Writing, Unique, HasCreated, Creates, Touching
<1>2. NotRenamed(k, after)' = NotRenamed(k, after)
  BY DEF Writing, NotRenamed
<1>3. PICK i \in DOMAIN program[r] : program[r][i] = s
  BY DEF Writing
<1>4. /\ s.cell = k /\ rows'[k] = after
      /\ after = Written(r, s, rows[k]) /\ ~Duplicate(s, rows[k])
  BY DEF Writing
<1>5. CASE s.op = "insertUnique"
  <2>1. rows[k] = {} /\ after = s.rows
    BY <1>4, <1>5 DEF Duplicate, Written
  <2>2. Unique(k)
    BY <1>3, <1>4, <1>5 DEF Unique, Touching
  <2>3. \A q \in Requests : ~HasCreated(q, k) /\ ~HasRenamed(q, k)
    BY <2>1, <2>2 DEF Writing, NameAt
  <2>4. /\ \A q \in Requests \ {r} : ~HasCreated(q, k)' /\ ~HasRenamed(q, k)'
        /\ ~HasRenamed(r, k)'
    BY <1>5, <2>3 DEF Writing
  <2>5. s.rows # {}
    BY <1>3, <1>4, <1>5, <2>2, UniqueCell
  <2>6. NotRenamed(k, s.rows)
    BY <1>3, <1>4, <1>5, <2>5, OtherThanRenamed
  <2>7. NotRenamed(k, rows[k])' /\ rows'[k] # {}
    BY <1>2, <1>4, <2>1, <2>5, <2>6 DEF NotRenamed
  <2> QED  BY <2>4, <2>7 DEF NameAt
<1>6. CASE s.op = "rename"
  <2>1. rows[k] \ s.rows = {} /\ after = s.rows
    BY <1>4, <1>6 DEF Duplicate, Written
  <2>2. ~NotRenamed(k, rows[k])
    BY <1>3, <1>4, <1>6, <2>1 DEF NotRenamed
  <2>3. \A q \in Requests : ~HasCreated(q, k)
    BY <2>2 DEF Writing, NameAt
  <2>4. \A q \in Requests : ~HasCreated(q, k)'
    BY <1>6, <2>3 DEF Writing
  <2>5. Unique(k) => s.rows # {}
    BY <1>3, <1>4, <1>6, UniqueCell
  <2> QED  BY <1>1, <1>4, <2>1, <2>4, <2>5 DEF NameAt
<1>7. CASE s.op \notin {"insertUnique", "rename"}
  <2>1. \A q \in Requests : /\ HasCreated(q, k)' => HasCreated(q, k)
                            /\ HasRenamed(q, k)' => HasRenamed(q, k)
    BY <1>7 DEF Writing
  <2>2. Unique(k) => (rows[k] # {} => after # {})
    <3>1. SUFFICES ASSUME Unique(k), rows[k] # {}  PROVE after # {}
      OBVIOUS
    <3>2. s.op # "clear" /\ (s.op = "set" => s.rows # {})
      BY <1>3, <1>4, <3>1, UniqueCell
    <3> QED  BY <1>4, <1>7, <3>1, <3>2 DEF Written, Opposite, Writes
  <2>3. Unique(k) /\ NotRenamed(k, rows[k]) => NotRenamed(k, after)
    <3>1. SUFFICES ASSUME Unique(k), NotRenamed(k, rows[k])  PROVE NotRenamed(k, after)
      OBVIOUS
    <3>2. s.op # "clear" /\ (s.op = "set" => s.rows # {})
      BY <1>3, <1>4, <3>1, UniqueCell
    <3>3. CASE s.op = "set"
      BY <1>3, <1>4, <3>2, <3>3, OtherThanRenamed DEF Written
    <3>4. CASE s.op = "negate"
      <4>1. ASSUME NEW q \in Requests, NEW j \in DOMAIN program[q], program[q][j].cell = k
            PROVE  program[q][j].op # "rename"
        <5>1. PICK t : t = program[q][j]
          OBVIOUS
        <5> QED  BY <1>3, <1>4, <3>4, <4>1, <5>1, OneCell
      <4> QED  BY <4>1 DEF NotRenamed
    <3>5. CASE s.op \in {"insert", "save"}
      <4>1. rows[k] \subseteq after
        BY <1>4, <3>5 DEF Written
      <4> QED  BY <3>1, <4>1 DEF NotRenamed
    <3> QED  BY <1>7, <3>2, <3>3, <3>4, <3>5 DEF Writes
  <2>4. NotRenamed(k, rows[k])' = NotRenamed(k, after)
    BY <1>2, <1>4 DEF NotRenamed
  <2>5. NameAt(k)
    BY DEF Writing
  <2> QED  BY <1>1, <1>4, <2>1, <2>2, <2>3, <2>4, <2>5 DEF NameAt
<1> QED  BY <1>5, <1>6, <1>7

LEMMA NextStays ==
  ASSUME RequestInv, NEW r \in Requests, End(r, "error") \/ End(r, "refused") \/ Throw(r)
  PROVE  /\ request'[r].next = request[r].next
         /\ \A q \in Requests \ {r} : request'[q] = request[q]
<1>1. ASSUME NEW outcome, End(r, outcome)
      PROVE  /\ request'[r].next = request[r].next
             /\ \A q \in Requests \ {r} : request'[q] = request[q]
  <2>1. request'[r] = [step |-> outcome, next |-> request[r].next, on |-> None,
                       seen |-> request[r].seen, failing |-> request[r].failing]
    BY <1>1, Ends
  <2>2. \A q \in Requests \ {r} : request'[q] = request[q]
    BY <1>1, Ends
  <2> QED  BY <2>1, <2>2
<1>2. CASE Throw(r)
  <2>1. request'[r] = [step |-> IF Current(r).guarded THEN "waiting" ELSE "error",
                       next |-> request[r].next, on |-> None, seen |-> request[r].seen,
                       failing |-> Current(r).guarded]
    BY <1>2, Throws
  <2>2. \A q \in Requests \ {r} : request'[q] = request[q]
    BY <1>2, Throws
  <2> QED  BY <2>1, <2>2
<1> QED  BY <1>1, <1>2

LEMMA NextAdds ==
  ASSUME RequestInv, NEW r \in Requests, NEW n \in Nat, NEW seen, GoOn(r, n, seen)
  PROVE  /\ request'[r].next = request[r].next + n
         /\ \A q \in Requests \ {r} : request'[q] = request[q]
<1>1. request'[r] = [step |-> IF request[r].next + n > Len(program[r]) THEN "success" ELSE "waiting",
                     next |-> request[r].next + n, on |-> None, seen |-> seen,
                     failing |-> request[r].failing]
  BY GoesOn
<1>2. \A q \in Requests \ {r} : request'[q] = request[q]
  BY GoesOn
<1> QED  BY <1>1, <1>2

(* Any answer but that of a write, for one cell.                             *)
LEMMA AnswerKeepsName ==
  ASSUME PoolInv, NEW r \in Requests, request[r].step \in Running, program' = program,
         NEW k \in Cells, NameAt(k), rows'[k] = rows[k],
         \/ End(r, "error") \/ End(r, "refused") \/ Throw(r)
         \/ \E n \in {1, 3} : \E seen :
               /\ GoOn(r, n, seen)
               /\ ~request[r].failing
               /\ Current(r).op \notin {"insertUnique", "rename"} \/ Current(r).cell # k
               /\ n # 1 => Current(r).op = "skipIf"
  PROVE  NameAt(k)'
<1>1. RequestInv
  BY DEF PoolInv
<1>2. CASE End(r, "error") \/ End(r, "refused") \/ Throw(r)
  <2>1. \A q \in Requests : request'[q].next = request[q].next
    BY <1>1, <1>2, NextStays
  <2> QED  BY <2>1, OthersStay, NameStays
<1>3. ASSUME NEW n \in {1, 3}, NEW seen, GoOn(r, n, seen), ~request[r].failing,
             Current(r).op \notin {"insertUnique", "rename"} \/ Current(r).cell # k,
             n # 1 => Current(r).op = "skipIf"
      PROVE  NameAt(k)'
  <2>1. n \in 1..3 /\ n \in Nat
    OBVIOUS
  <2>2. /\ request'[r].next = request[r].next + n
        /\ \A q \in Requests \ {r} : request'[q] = request[q]
    BY <1>1, <1>3, <2>1, NextAdds
  <2>3. /\ HasCreated(r, k)' => HasCreated(r, k)
        /\ HasRenamed(r, k)' => HasRenamed(r, k)
    BY <1>3, <2>1, <2>2, NothingNew
  <2>4. \A q \in Requests \ {r} : HasCreated(q, k)' = HasCreated(q, k) /\ HasRenamed(q, k)' = HasRenamed(q, k)
    BY <2>2, OthersStay
  <2> QED  BY <2>3, <2>4, NameStays
<1> QED  BY <1>2, <1>3

LEMMA WriteAnswerKeepsName ==
  ASSUME PoolInv, Outside, NoTransaction, NEW r \in Requests, request[r].step \in Running,
         program' = program, Current(r).op \in Writes, WriteAnswer(r), Asking(r), NEW k \in Cells, NameAt(k)
  PROVE  NameAt(k)'
<1>1. RequestInv /\ DOMAIN rows = Cells
  BY DEF PoolInv, DataInv
<1>0. request[r].on \in Connections
  BY DEF PoolInv, FreeInv
<1>2. ~request[r].failing
  BY <1>1, CurrentType DEF Writes
<1>3. PICK s, n, seen : s = Current(r) /\ n = request[r].next /\ seen = request[r].seen
  OBVIOUS
<1>4. /\ n \in DOMAIN program[r] /\ s = program[r][n]
  BY <1>1, <1>2, <1>3, CurrentType, ProgramType DEF RequestInv
<1>5. GoOn(r, 1, seen)
  BY <1>3 DEF WriteAnswer, GoOn
<1>6. CASE s.cell # k
  <2>1. rows'[k] = rows[k]
    BY <1>1, <1>3, <1>6 DEF WriteAnswer
  <2>2. s.op # "skipIf"
    BY <1>3 DEF Writes
  <2> QED  BY <1>2, <1>3, <1>5, <1>6, <2>1, AnswerKeepsName
<1>7. CASE s.cell = k /\ s.op \in Writes
  <2>1. request[r].on \notin open
    BY DEF Outside
  <2>2. PICK c : c = request[r].on
    OBVIOUS
  <2>3. Sees(c, k) = rows[k]
    <3>1. pending[c] = <<>>
      BY <2>2, <1>0 DEF Outside
    <3> QED  BY <3>1 DEF Sees
  <2>4. PICK after : after = Written(r, s, rows[k])
    OBVIOUS
  <2>5. rows'[k] = after /\ ~Duplicate(s, rows[k])
    BY <1>1, <1>3, <1>7, <2>1, <2>2, <2>3, <2>4 DEF WriteAnswer
  <2>6. /\ request'[r].next = n + 1
        /\ \A q \in Requests \ {r} : request'[q] = request[q]
    BY <1>1, <1>3, <1>5, NextAdds
  <2>7. \A q \in Requests \ {r} : HasCreated(q, k)' = HasCreated(q, k) /\ HasRenamed(q, k)' = HasRenamed(q, k)
    BY <2>6, OthersStay
  <2>8. /\ HasCreated(r, k)' => HasCreated(r, k) \/ s.op = "insertUnique"
        /\ HasRenamed(r, k)' => HasRenamed(r, k) \/ s.op = "rename"
    <3>1. Len(program[r]) \in Nat /\ DOMAIN program[r] = 1..Len(program[r])
      BY <1>1, ProgramType DEF RequestInv
    <3>2. n \in Nat /\ \A i \in DOMAIN program[r] : n <= i /\ i < n + 1 => i = n
      BY <1>4, <3>1
    <3> QED  BY <1>3, <1>4, <2>6, <3>2, Further
  <2>9. Writing(r, k, s, after)
    BY <1>4, <1>7, <2>4, <2>5, <2>7, <2>8 DEF Writing
  <2>10. program \in Mixes
    BY <1>1 DEF RequestInv
  <2> QED  BY <1>7, <2>9, <2>10, WriteKeepsName
<1> QED  BY <1>3, <1>6, <1>7

LEMMA NamesInit == Init => NamesInv
<1> SUFFICES ASSUME Init  PROVE Outside /\ \A k \in Cells : NameAt(k)
  BY DEF NamesInv
<1>1. Outside
  BY DEF Init, Outside
<1>2. ASSUME NEW r \in Requests, NEW op, NEW k  PROVE ~Past(r, op, k)
  <2>1. request[r].next = 1 /\ program \in Mixes
    BY DEF Init
  <2>2. \A i \in DOMAIN program[r] : ~(i < 1)
    BY <2>1, ProgramType
  <2> QED  BY <2>1, <2>2 DEF Past
<1> QED  BY <1>1, <1>2 DEF NameAt, HasCreated, HasRenamed

LEMMA NamesStep == PoolInv /\ NamesInv /\ [Next]_vars => NamesInv'
<1> SUFFICES ASSUME PoolInv, NamesInv, [Next]_vars, NoTransaction'
             PROVE  Outside' /\ \A k \in Cells : NameAt(k)'
  BY DEF NamesInv
<1>1. program' = program
  BY DEF Next, Ask, Answer, QueryFails, ConnectionLost, FreeConnectionLost, IdleTimeout, ProcessCrash, vars
<1>2. NoTransaction
  BY <1>1 DEF NoTransaction, HasTransaction
<1>3. Outside /\ \A k \in Cells : NameAt(k)
  BY <1>2 DEF NamesInv
<1>4. Outside'
  BY <1>2, <1>3, OutsideStep
<1> SUFFICES ASSUME NEW k \in Cells  PROVE NameAt(k)'
  BY <1>4
<1>5. RequestInv /\ DOMAIN request = Requests /\ NameAt(k)
  BY <1>3 DEF PoolInv, RequestInv
<1>6. ASSUME NEW c \in Connections, CommitOn(c)  PROVE rows'[k] = rows[k]
  <2>1. rows'[k] = Sees(c, k)
    BY <1>6 DEF CommitOn
  <2>2. pending[c] = <<>>
    BY <1>3 DEF Outside
  <2> QED  BY <2>1, <2>2 DEF Sees
<1>7. ASSUME UNCHANGED rows, \A q \in Requests : request'[q].next = request[q].next  PROVE NameAt(k)'
  BY <1>1, <1>5, <1>7, OthersStay, NameStays
<1>8. ASSUME NEW r \in Requests, Ask(r)  PROVE NameAt(k)'
  <2>1. /\ \A q \in Requests \ {r} : request'[q] = request[q]
        /\ request'[r].next = request[r].next
    <3>1. request'[r] = [step |-> "asking", next |-> request[r].next, on |-> Last(free),
                         seen |-> request[r].seen, failing |-> request[r].failing]
      BY <1>8, Taken DEF PoolInv
    <3>2. \A q \in Requests \ {r} : request'[q] = request[q]
      BY <1>8, Taken DEF PoolInv
    <3> QED  BY <3>1, <3>2
  <2>2. rows' = rows
    BY <1>8 DEF Ask
  <2> QED  BY <1>7, <2>1, <2>2
<1>9. ASSUME NEW r \in Requests, Answer(r) \/ QueryFails(r) \/ ConnectionLost(r)  PROVE NameAt(k)'
  <2>1. request[r].on \in Connections /\ request[r].step \in Running
    BY <1>9, AnswerOutcome DEF PoolInv, FreeInv, Asking, Running
  <2>2. PICK c \in Connections : c = request[r].on
    BY <2>1
  <2>3. PICK seen : seen = request[r].seen
    OBVIOUS
  <2>4. /\ request[r].failing => Current(r).op = "rollback"
        /\ Current(r).op # "begin"
    <3>1. ~request[r].failing => Current(r) = program[r][request[r].next] /\ request[r].next \in DOMAIN program[r]
      BY <1>5, <2>1, CurrentType DEF RequestInv
    <3>2. request[r].failing => Current(r).op = "rollback"
      BY <1>5, <2>1, CurrentType
    <3> QED  BY <1>2, <3>1, <3>2 DEF NoTransaction, HasTransaction
  <2>5. CASE Current(r).op = "commit" /\ CommitAnswer(r)
    <3>1. rows'[k] = rows[k]
      BY <1>6, <2>2, <2>5 DEF CommitAnswer
    <3>2. GoOn(r, 1, seen)
      BY <2>3, <2>5 DEF CommitAnswer, GoOn
    <3>3. ~request[r].failing /\ Current(r).op \notin {"insertUnique", "rename"}
      BY <2>4, <2>5
    <3> QED  BY <1>1, <1>5, <2>1, <3>1, <3>2, <3>3, AnswerKeepsName
  <2>6. CASE RollbackAnswer(r)
    BY <1>1, <1>5, <2>1, <2>6, AnswerKeepsName DEF RollbackAnswer
  <2>7. CASE Current(r).op \in {"read", "present", "absent", "skipIf"} /\ ReadAnswer(r)
    <3>1. PICK n \in {1, 3} : n = IF Current(r).op = "skipIf" /\ Current(r).cell \in Cells
                           /\ Sees(request[r].on, Current(r).cell) \intersect Current(r).rows # {}
                         THEN 3 ELSE 1
      OBVIOUS
    <3>2. PICK kept : kept = IF Current(r).cell \in Cells THEN Sees(request[r].on, Current(r).cell) ELSE {}
      OBVIOUS
    <3>3. rows' = rows
      BY <2>7 DEF ReadAnswer
    <3>4. End(r, "refused") \/ GoOn(r, n, kept)
      BY <2>7, <3>1, <3>2 DEF ReadAnswer, GoOn
    <3>5. /\ ~request[r].failing /\ Current(r).op \notin {"insertUnique", "rename"}
          /\ n # 1 => Current(r).op = "skipIf"
      BY <2>4, <2>7, <3>1
    <3> QED  BY <1>1, <1>5, <2>1, <3>3, <3>4, <3>5, AnswerKeepsName
  <2>8. CASE Current(r).op \in Writes /\ WriteAnswer(r)
    BY <1>1, <1>2, <1>3, <1>9, <2>1, <2>8, AnswerOutcome, WriteAnswerKeepsName
  <2>9. CASE Current(r).op = "log" /\ LogAnswer(r)
    <3>1. GoOn(r, 1, seen) /\ rows' = rows
      BY <2>3, <2>9 DEF LogAnswer, GoOn
    <3>2. ~request[r].failing /\ Current(r).op \notin {"insertUnique", "rename"}
      BY <2>4, <2>9
    <3> QED  BY <1>1, <1>5, <2>1, <3>1, <3>2, AnswerKeepsName
  <2>10. CASE WriteRejected(r)
    BY <1>1, <1>5, <2>1, <2>10, AnswerKeepsName DEF WriteRejected
  <2>11. CASE QueryFails(r)
    BY <1>1, <1>5, <2>1, <2>11, AnswerKeepsName DEF QueryFails
  <2>12. CASE ConnectionLost(r)
    <3>1. rows'[k] = rows[k]
      BY <1>6, <2>2, <2>12 DEF ConnectionLost
    <3>2. \/ End(r, "error") \/ Throw(r)
          \/ Current(r).op = "log" /\ GoOn(r, 1, seen)
      BY <2>3, <2>12 DEF ConnectionLost, GoOn
    <3>3. Current(r).op = "log" => ~request[r].failing /\ Current(r).op \notin {"insertUnique", "rename"}
      BY <2>4
    <3> QED  BY <1>1, <1>5, <2>1, <3>1, <3>2, <3>3, AnswerKeepsName
  <2> QED  BY <1>9, <2>4, <2>5, <2>6, <2>7, <2>8, <2>9, <2>10, <2>11, <2>12 DEF Answer
<1>10. CASE FreeConnectionLost \/ IdleTimeout \/ UNCHANGED vars
  <2>1. UNCHANGED <<request, rows>>
    BY <1>10 DEF FreeConnectionLost, IdleTimeout, vars
  <2> QED  BY <1>7, <2>1
<1>11. CASE ProcessCrash
  <2>1. rows' = rows
    BY <1>11 DEF ProcessCrash
  <2>2. \A q \in Requests : request'[q].next = request[q].next
    BY <1>11, Crashed
  <2> QED  BY <1>7, <2>1, <2>2
<1> QED  BY <1>8, <1>9, <1>10, <1>11 DEF Next

(* Of any number of handlers that give one name to several records at the    *)
(* same time, a creating one succeeds only if no other creating or renaming  *)
(* one does: the look and the write may be two queries, since the unique     *)
(* index, which does not look at deleted_at, decides.                        *)
THEOREM NamesAreUnique == Spec => []OneGetsTheName
<1>1. PoolInv /\ NamesInv => OneGetsTheName
  <2> SUFFICES ASSUME PoolInv, NamesInv, NoTransaction,
                      NEW q \in Requests, NEW r \in Requests, NEW k \in Cells,
                      q # r, Creates(q, k), Creates(r, k) \/ Renames(r, k),
                      request[q].step = "success", request[r].step = "success"
               PROVE  FALSE
    BY DEF OneGetsTheName, NoTransaction
  <2>1. ASSUME NEW p \in Requests, request[p].step = "success", NEW op, k \in Touching(p, {op})
        PROVE  Past(p, op, k)
    <3>1. PICK i \in DOMAIN program[p] : program[p][i].op = op /\ program[p][i].cell = k
      BY <2>1 DEF Touching
    <3>2. /\ Len(program[p]) \in Nat /\ DOMAIN program[p] = 1..Len(program[p])
          /\ request[p].next > Len(program[p]) /\ request[p].next \in Nat
      BY <2>1, ProgramType DEF PoolInv, RequestInv
    <3> QED  BY <3>1, <3>2 DEF Past
  <2>2. HasCreated(q, k)
    BY <2>1 DEF Creates, HasCreated
  <2>3. HasCreated(r, k) \/ HasRenamed(r, k)
    BY <2>1 DEF Creates, Renames, HasCreated, HasRenamed
  <2> QED  BY <2>2, <2>3 DEF NamesInv, NameAt
<1> QED  BY <1>1, PoolInit, PoolStep, NamesInit, NamesStep, PTL DEF Spec
=============================================================================
