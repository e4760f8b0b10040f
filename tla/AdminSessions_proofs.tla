------------------------- MODULE AdminSessions_proofs -------------------------
(* Theorems about AdminSessions, for any requests, sessions, codes,          *)
(* permissions and grantings, and any number of changes and failed queries.  *)
EXTENDS AdminSessions, FiniteSetTheorems, TLAPS

-----------------------------------------------------------------------------
(* The inductive invariant *)

Session == [user : BOOLEAN, pending : Codes \union {None},
            permissions : SUBSET Permissions, flash : BOOLEAN]

Kinds == {"none", "login", "codePage", "verify", "page", "openPage", "keepAlive", "logout"}

Steps == {"over", "refill", "handler", "user", "role", "overrides", "regenerate",
          "active", "inactive", "permission", "destroying", "end"}

Results == {"none", "error", "codeSent", "redirected", "codeAsked", "loggedIn", "served", "alive"}

RequestRecord ==
    [kind : Kinds, step : Steps, sid : Sessions \union {None}, session : Session,
     stored : Session \union {None}, code : Codes \union {None}, base : SUBSET Permissions,
     result : Results, gone : BOOLEAN, wasActive : BOOLEAN, queryFailed : BOOLEAN,
     held : SUBSET Permissions, unrevoked : SUBSET Permissions]

TypeOK ==
    /\ account \in {"active", "inactive", "deleted"}
    /\ granted \in Grantings
    /\ rows \in [Sessions -> Session \union {None}]
    /\ request \in [Requests -> RequestRecord]
    /\ cookie \in Sessions \union {None}
    /\ expired \subseteq Codes
    /\ bypass \in BOOLEAN
    /\ counts \in [requests : 0..MaxRequests, changes : 0..MaxChanges, faults : 0..MaxFaults]
    /\ sent \in [Codes -> Sessions \union {None}]
    /\ logins \in [Codes -> SUBSET Sessions]
    /\ overlapped \subseteq Sessions
    /\ deleting \in [Sessions -> Nat]
    /\ ended \subseteq Sessions
    /\ undeleted \subseteq Sessions

(* A request that runs has a session, and a verdict only at its end; one     *)
(* that waits for destroy() has no copy of its session.                      *)
ShapeOf(r) ==
    /\ r.step # "over" => r.sid \in Sessions
    /\ r.step = "destroying" => r.gone
    /\ r.step # "end" => r.result = "none"

(* What a request has seen of the account and of its permissions.            *)
WitnessOf(r) ==
    r.step # "over" =>
       /\ account = "active" => r.wasActive
       /\ granted.role \union granted.grants \subseteq r.held
       /\ Permissions \ granted.revokes \subseteq r.unrevoked

(* It is past the look at the account only if that was active, or without    *)
(* its session.                                                              *)
ActivityOf(r) ==
    /\ r.step \in {"role", "overrides", "regenerate"} => r.wasActive
    /\ r.step = "permission" /\ ~r.queryFailed => r.wasActive \/ r.gone
    /\ r.result \in {"loggedIn", "served"} /\ ~r.queryFailed =>
          r.wasActive \/ (r.kind = "openPage" /\ r.gone)

(* Permissions on their way into a session.                                  *)
PermissionsOf(r) ==
    /\ r.step = "overrides" => r.base \subseteq r.held
    /\ r.step = "regenerate" => r.base \subseteq r.held \intersect r.unrevoked
    /\ r.result = "loggedIn" => r.session.permissions \subseteq r.held \intersect r.unrevoked

(* Past the check of its code, a request has that code in its session.       *)
CodeOf(r) ==
    r.kind = "verify" /\ r.step \in {"user", "role", "overrides", "regenerate"} =>
       r.code \in Codes /\ r.session.pending = r.code

RequestOK(r) == ShapeOf(r) /\ WitnessOf(r) /\ ActivityOf(r) /\ PermissionsOf(r) /\ CodeOf(r)

RequestsInv == \A q \in Requests : RequestOK(request[q])

(* Two requests of one session are noted as overlapping.                     *)
OverlapInv ==
    \A p, q \in Requests :
       p # q /\ Running(p) /\ Running(q) /\ request[p].sid = request[q].sid =>
          request[p].sid \in overlapped

(* No request has a copy of the session that it could write back.            *)
NobodyWrites(s) == \A q \in Requests : Running(q) /\ request[q].sid = s => request[q].gone

(* While a session is deleted nobody can write it, and afterwards it has     *)
(* neither a row nor anybody who could write one.                            *)
EndedInv ==
    \A s \in Sessions \ overlapped :
       /\ deleting[s] > 0 => NobodyWrites(s)
       /\ s \in ended \ undeleted => ~Live(s) /\ NobodyWrites(s)

(* Somewhere, code c can still be used: in a row or in a request's copy.     *)
PendingInRow(c, s) == Live(s) /\ rows[s].pending = c

PendingInRequest(c, q) == Running(q) /\ request[q].session.pending = c

(* A code is pending only in the session it was issued to, and, unless       *)
(* requests of that session overlapped, no longer once it opened a session.  *)
CodesInv ==
    \A c \in Codes :
       /\ \A s \in Sessions : PendingInRow(c, s) => sent[c] = s
       /\ \A q \in Requests : PendingInRequest(c, q) => sent[c] = request[q].sid
       /\ sent[c] = None => logins[c] = {}
       /\ sent[c] \notin overlapped =>
             \/ logins[c] = {}
             \/ /\ \E s \in Sessions : logins[c] = {s}
                /\ \A s \in Sessions : ~PendingInRow(c, s)
                /\ \A q \in Requests : ~PendingInRequest(c, q)

Inv == TypeOK /\ RequestsInv /\ OverlapInv /\ EndedInv /\ CodesInv

-----------------------------------------------------------------------------
(* What the steps do to a request *)

(* A request keeps who it is and what it has seen.                           *)
Alike(r, old) ==
    /\ r \in RequestRecord
    /\ r.kind = old.kind /\ r.sid = old.sid /\ r.code = old.code /\ r.base = old.base
    /\ r.queryFailed = old.queryFailed /\ r.gone = old.gone
    /\ r.wasActive = old.wasActive /\ r.held = old.held /\ r.unrevoked = old.unrevoked

(* Going on to a step changes nothing else.                                  *)
LEMMA StepOf ==
  ASSUME NEW r \in RequestRecord, NEW step \in Steps
  PROVE  /\ Alike([r EXCEPT !.step = step], r)
         /\ [r EXCEPT !.step = step].step = step
         /\ [r EXCEPT !.step = step].result = r.result
         /\ [r EXCEPT !.step = step].session = r.session
BY DEF RequestRecord, Alike

LEMMA ResultOf ==
  ASSUME TypeOK, NEW q \in Requests, NEW result \in Results
  PROVE  /\ Alike(Result(q, result), request[q])
         /\ Result(q, result).result = result
         /\ Result(q, result).session = request[q].session
<1>1. request[q] \in RequestRecord
  BY DEF TypeOK
<1> QED  BY <1>1 DEF RequestRecord, Alike, Result

LEMMA MessageOf ==
  ASSUME TypeOK, NEW q \in Requests, NEW result \in Results
  PROVE  /\ Alike(WithMessage(q, result), request[q])
         /\ WithMessage(q, result).result = result
         /\ WithMessage(q, result).session = [request[q].session EXCEPT !.flash = TRUE]
         /\ WithMessage(q, result).session \in Session
         /\ WithMessage(q, result).session.pending = request[q].session.pending
         /\ WithMessage(q, result).session.permissions = request[q].session.permissions
<1>1. request[q] \in RequestRecord /\ request[q].session \in Session
  BY DEF TypeOK, RequestRecord
<1> DEFINE copy == [request[q].session EXCEPT !.flash = TRUE]
<1>2. /\ copy \in Session
      /\ copy.pending = request[q].session.pending
      /\ copy.permissions = request[q].session.permissions
  BY <1>1 DEF Session
<1>3. WithMessage(q, result) = [request[q] EXCEPT !.result = result, !.session = copy]
  BY <1>1 DEF WithMessage, RequestRecord
<1> HIDE DEF copy
<1>4. /\ Alike(WithMessage(q, result), request[q])
      /\ WithMessage(q, result).result = result
      /\ WithMessage(q, result).session = copy
  BY <1>1, <1>2, <1>3 DEF RequestRecord, Alike
<1> QED  BY <1>2, <1>4 DEF copy

LEMMA PendingDropped ==
  ASSUME NEW r \in RequestRecord
  PROVE  /\ Alike(WithoutPending(r), r)
         /\ WithoutPending(r).result = r.result
         /\ WithoutPending(r).session.pending = None
<1> DEFINE copy == [r.session EXCEPT !.pending = None]
<1>1. r.session \in Session
  BY DEF RequestRecord
<1>2. copy \in Session /\ copy.pending = None
  BY <1>1 DEF Session
<1>3. WithoutPending(r) = [r EXCEPT !.session = copy]
  BY DEF WithoutPending, RequestRecord
<1> HIDE DEF copy
<1> QED  BY <1>2, <1>3 DEF RequestRecord, Alike

-----------------------------------------------------------------------------
(* A request goes on *)

(* What a handler's step leaves in the slot of a request that goes on.       *)
Continues(q, r) ==
    /\ r \in RequestRecord
    /\ r.step # "over"
    /\ r.sid = request[q].sid
    /\ request[q].gone => r.gone
    /\ RequestOK(r)

(* The pending code stays, is dropped, or is one just issued.                *)
PendingMoves(q, r) ==
    \/ sent' = sent /\ r.session.pending \in {request[q].session.pending, None}
    \/ \E c \in Codes : /\ sent[c] = None
                        /\ sent' = [sent EXCEPT ![c] = request[q].sid]
                        /\ r.session.pending = c

(* The session of the request may be destroyed.                              *)
Deletes(q, r) ==
    \/ UNCHANGED deleting
    \/ r.gone /\ deleting' = [deleting EXCEPT ![request[q].sid] = @ + 1]

GoesOn(q) ==
    /\ Running(q)
    /\ \E r : /\ Continues(q, r) /\ PendingMoves(q, r) /\ Deletes(q, r)
              /\ request' = [request EXCEPT ![q] = r]
    /\ UNCHANGED <<database, rows, cookie, logins, overlapped, ended, undeleted>>
    /\ counts' \in [requests : 0..MaxRequests, changes : 0..MaxChanges, faults : 0..MaxFaults]

CountsOK == counts \in [requests : 0..MaxRequests, changes : 0..MaxChanges, faults : 0..MaxFaults]

LEMMA CountsOfQuery == CountsOK /\ (QueryFails \/ QueryAnswers) => CountsOK'
BY SessionsAssumption DEF CountsOK, QueryFails, QueryAnswers

LEMMA RunningRequest ==
  ASSUME TypeOK, RequestsInv, NEW q \in Requests
  PROVE  /\ request[q] \in RequestRecord
         /\ request[q].session \in Session
         /\ RequestOK(request[q])
         /\ request[q].wasActive \in BOOLEAN /\ request[q].queryFailed \in BOOLEAN
         /\ request[q].gone \in BOOLEAN
         /\ Running(q) => request[q].sid \in Sessions
         /\ CountsOK
BY DEF TypeOK, RequestsInv, RequestRecord, RequestOK, ShapeOf, Running, CountsOK

(* A request that ends: what it has seen speaks for its verdict.             *)
LEMMA EndsWith ==
  ASSUME TypeOK, RequestsInv, NEW q \in Requests, Running(q), NEW r,
         Alike(r, request[q]),
         \/ r.result \in Results \ {"loggedIn", "served"}
         \/ /\ r.result = "served"
            /\ ~r.queryFailed => r.wasActive \/ (r.kind = "openPage" /\ r.gone)
  PROVE  /\ Continues(q, [r EXCEPT !.step = "end"])
         /\ [r EXCEPT !.step = "end"].session = r.session
<1> DEFINE n == [r EXCEPT !.step = "end"]
<1>1. r \in RequestRecord
  BY DEF Alike
<1>2. /\ Alike(n, r) /\ n.step = "end" /\ n.result = r.result /\ n.session = r.session
  BY <1>1, StepOf DEF Steps
<1> HIDE DEF n
<1>3. /\ n.sid = request[q].sid /\ n.wasActive = request[q].wasActive
      /\ n.held = request[q].held /\ n.unrevoked = request[q].unrevoked
      /\ n.queryFailed = r.queryFailed /\ n.wasActive = r.wasActive
      /\ n.kind = r.kind /\ n.gone = r.gone /\ n.gone = request[q].gone
      /\ n \in RequestRecord
  BY <1>2 DEF Alike
<1>4. ShapeOf(n) /\ CodeOf(n) /\ PermissionsOf(n)
  BY <1>2, <1>3, RunningRequest DEF ShapeOf, CodeOf, PermissionsOf
<1>5. WitnessOf(n)
  BY <1>2, <1>3, RunningRequest DEF WitnessOf, RequestOK, Running
<1>6. ActivityOf(n)
  BY <1>2, <1>3 DEF ActivityOf
<1>7. Continues(q, n)
  BY <1>2, <1>3, <1>4, <1>5, <1>6 DEF Continues, RequestOK
<1> QED  BY <1>2, <1>7 DEF n

(* A request that goes on to a step before its end.                          *)
LEMMA StepsTo ==
  ASSUME TypeOK, RequestsInv, NEW q \in Requests, Running(q), request[q].step # "end",
         NEW step \in Steps \ {"over", "end"},
         NEW r \in RequestRecord,
         r.kind = request[q].kind, r.sid = request[q].sid, r.code = request[q].code,
         r.wasActive = request[q].wasActive,
         r.held = request[q].held, r.unrevoked = request[q].unrevoked,
         r.result = request[q].result, r.session.pending = request[q].session.pending,
         step \in {"role", "overrides", "regenerate"} => r.wasActive,
         step = "permission" /\ ~r.queryFailed => r.wasActive \/ r.gone,
         step = "destroying" => r.gone, request[q].gone => r.gone,
         step = "overrides" => r.base \subseteq r.held,
         step = "regenerate" => r.base \subseteq r.held \intersect r.unrevoked,
         r.kind = "verify" /\ step \in {"user", "role", "overrides", "regenerate"} =>
            r.code \in Codes /\ r.session.pending = r.code
  PROVE  /\ Continues(q, [r EXCEPT !.step = step])
         /\ [r EXCEPT !.step = step].session.pending = request[q].session.pending
<1> DEFINE n == [r EXCEPT !.step = step]
<1>1. /\ Alike(n, r) /\ n.step = step /\ n.result = r.result /\ n.session = r.session
  BY StepOf
<1> HIDE DEF n
<1>2. n.result = "none"
  BY <1>1, RunningRequest DEF RequestOK, ShapeOf
<1>3. /\ n.sid = request[q].sid /\ n.wasActive = request[q].wasActive
      /\ n.held = request[q].held /\ n.unrevoked = request[q].unrevoked
      /\ n.queryFailed = r.queryFailed /\ n.wasActive = r.wasActive
      /\ n.base = r.base /\ n.code = r.code /\ n.kind = r.kind /\ n.gone = r.gone
      /\ n \in RequestRecord
  BY <1>1 DEF Alike
<1>4. ShapeOf(n) /\ CodeOf(n)
  BY <1>1, <1>2, <1>3, RunningRequest DEF ShapeOf, CodeOf
<1>5. WitnessOf(n)
  BY <1>1, <1>3, RunningRequest DEF WitnessOf, RequestOK, Running
<1>6. ActivityOf(n)
  BY <1>1, <1>2, <1>3 DEF ActivityOf
<1>7. PermissionsOf(n)
  BY <1>1, <1>2, <1>3 DEF PermissionsOf
<1>8. Continues(q, n)
  BY <1>1, <1>3, <1>4, <1>5, <1>6, <1>7 DEF Continues, RequestOK
<1> QED  BY <1>1, <1>8 DEF n

(* The steps that leave their request running *)

Frame == UNCHANGED <<database, rows, deleting, cookie, logins, overlapped, ended, undeleted>>

(* From the record a step writes to what the step does.                      *)
LEMMA Writes ==
  ASSUME NEW q \in Requests, Running(q), Frame, CountsOK', NEW r,
         Continues(q, r), PendingMoves(q, r), request' = [request EXCEPT ![q] = r]
  PROVE  GoesOn(q)
BY DEF GoesOn, Deletes, Frame, CountsOK

(* An ending that only tells its result, perhaps in a message.               *)
LEMMA EndsSaying ==
  ASSUME TypeOK, RequestsInv, NEW q \in Requests, Running(q), UNCHANGED sent,
         NEW result \in Results \ {"loggedIn", "served"}
  PROVE  /\ \A r : r = [Result(q, result) EXCEPT !.step = "end"] =>
                      Continues(q, r) /\ PendingMoves(q, r)
         /\ \A r : r = [WithMessage(q, result) EXCEPT !.step = "end"] =>
                      Continues(q, r) /\ PendingMoves(q, r)
<1>1. /\ Continues(q, [Result(q, result) EXCEPT !.step = "end"])
      /\ [Result(q, result) EXCEPT !.step = "end"].session = Result(q, result).session
  BY ResultOf, EndsWith
<1>2. /\ Continues(q, [WithMessage(q, result) EXCEPT !.step = "end"])
      /\ [WithMessage(q, result) EXCEPT !.step = "end"].session = WithMessage(q, result).session
  <2>1. /\ Alike(WithMessage(q, result), request[q])
        /\ WithMessage(q, result).result \in Results \ {"loggedIn", "served"}
    BY MessageOf
  <2> QED  BY <2>1, EndsWith
<1>3. /\ Result(q, result).session.pending = request[q].session.pending
      /\ WithMessage(q, result).session.pending = request[q].session.pending
  BY ResultOf, MessageOf
<1> QED  BY <1>1, <1>2, <1>3 DEF PendingMoves

(* The same, with the pending code dropped.                                  *)
LEMMA EndsWithoutPending ==
  ASSUME TypeOK, RequestsInv, NEW q \in Requests, Running(q), UNCHANGED sent,
         NEW r, Alike(r, request[q]), r.result \in Results \ {"loggedIn", "served"}
  PROVE  \A n : n = [WithoutPending(r) EXCEPT !.step = "end"] =>
                   Continues(q, n) /\ PendingMoves(q, n)
<1>1. r \in RequestRecord
  BY DEF Alike
<1>2. /\ Alike(WithoutPending(r), r)
      /\ WithoutPending(r).result = r.result
      /\ WithoutPending(r).session.pending = None
  BY <1>1, PendingDropped
<1>3. Alike(WithoutPending(r), request[q])
  BY <1>2 DEF Alike
<1>4. /\ Continues(q, [WithoutPending(r) EXCEPT !.step = "end"])
      /\ [WithoutPending(r) EXCEPT !.step = "end"].session = WithoutPending(r).session
  BY <1>2, <1>3, EndsWith
<1> QED  BY <1>2, <1>4 DEF PendingMoves

LEMMA LoginGoesOn ==
  ASSUME TypeOK, RequestsInv, NEW q \in Requests, login(q)
  PROVE  GoesOn(q)
<1>1. Running(q) /\ request[q].kind = "login" /\ request[q].step = "handler" /\ Frame
  BY DEF login, Running, Frame, store
<1>2. CountsOK'
  BY RunningRequest, CountsOfQuery DEF login
<1>3. "error" \in Results \ {"loggedIn", "served"} /\ "codeSent" \in Results \ {"loggedIn", "served"}
  BY DEF Results
<1>4. CASE /\ UNCHANGED sent
           /\ \/ Step(q, "end", Result(q, "error"))
              \/ Step(q, "end", WithMessage(q, "error"))
  BY <1>1, <1>2, <1>3, <1>4, EndsSaying, Writes DEF Step
<1>5. CASE account = "active" /\ DevelopmentBypass(q)
  <2> DEFINE n == [request[q] EXCEPT !.step = "role"]
  <2>1. request[q].wasActive
    BY <1>1, <1>5, RunningRequest DEF RequestOK, WitnessOf, Running
  <2>2. "role" \in Steps \ {"over", "end"}
    BY DEF Steps
  <2>3. Continues(q, n) /\ n.session.pending = request[q].session.pending
    BY <1>1, <2>1, <2>2, RunningRequest, StepsTo
  <2>4. request' = [request EXCEPT ![q] = n] /\ UNCHANGED sent
    BY <1>5 DEF DevelopmentBypass, Step
  <2> HIDE DEF n
  <2> QED  BY <1>1, <1>2, <2>3, <2>4, Writes DEF PendingMoves
<1>6. CASE createOTPSession(q)
  <2>1. PICK c \in Codes :
           /\ sent[c] = None
           /\ sent' = [sent EXCEPT ![c] = request[q].sid]
           /\ Step(q, "end", [WithMessage(q, "codeSent") EXCEPT !.session.pending = c])
    BY <1>6 DEF createOTPSession
  <2> DEFINE m == WithMessage(q, "codeSent")
             copy == [m.session EXCEPT !.pending = c]
             r == [m EXCEPT !.session = copy]
             n == [r EXCEPT !.step = "end"]
  <2>2. /\ Alike(m, request[q]) /\ m \in RequestRecord /\ m.session \in Session /\ m.result = "codeSent"
    BY <1>3, MessageOf DEF Alike
  <2>3. copy \in Session /\ copy.pending = c
    BY <2>2 DEF Session
  <2>4. request' = [request EXCEPT ![q] = n]
    BY <2>1, <2>2 DEF Step, RequestRecord
  <2> HIDE DEF copy, m
  <2>5. Alike(r, m) /\ r.result = "codeSent" /\ r.session = copy
    BY <2>2, <2>3 DEF RequestRecord, Alike
  <2> HIDE DEF r
  <2>6. Alike(r, request[q])
    BY <2>2, <2>5 DEF Alike
  <2>7. Continues(q, n) /\ n.session = copy
    BY <1>1, <1>3, <2>5, <2>6, EndsWith
  <2> HIDE DEF n
  <2>8. PendingMoves(q, n)
    BY <2>1, <2>3, <2>7 DEF PendingMoves
  <2> QED  BY <1>1, <1>2, <2>4, <2>7, <2>8, Writes
<1> QED  BY <1>4, <1>5, <1>6 DEF login

LEMMA CodePageGoesOn ==
  ASSUME TypeOK, RequestsInv, NEW q \in Requests, getVerifyOTP(q)
  PROVE  GoesOn(q)
<1>1. Running(q) /\ Frame /\ UNCHANGED sent /\ CountsOK'
  BY RunningRequest DEF getVerifyOTP, Running, Frame, CountsOK, history, store
<1>2. /\ "redirected" \in Results \ {"loggedIn", "served"} /\ "codeAsked" \in Results \ {"loggedIn", "served"}
      /\ "redirected" \in Results
  BY DEF Results
<1>3. \/ Step(q, "end", WithMessage(q, "redirected"))
      \/ Step(q, "end", WithoutPending(WithMessage(q, "redirected")))
      \/ Step(q, "end", Result(q, "codeAsked"))
  BY DEF getVerifyOTP
<1>4. CASE Step(q, "end", WithMessage(q, "redirected"))
  BY <1>1, <1>2, <1>4, EndsSaying, Writes DEF Step
<1>5. CASE Step(q, "end", WithoutPending(WithMessage(q, "redirected")))
  <2>1. Alike(WithMessage(q, "redirected"), request[q]) /\ WithMessage(q, "redirected").result = "redirected"
    BY <1>2, MessageOf
  <2> QED  BY <1>1, <1>2, <1>5, <2>1, EndsWithoutPending, Writes DEF Step
<1>6. CASE Step(q, "end", Result(q, "codeAsked"))
  BY <1>1, <1>2, <1>6, EndsSaying, Writes DEF Step
<1> QED  BY <1>3, <1>4, <1>5, <1>6

LEMMA VerifyGoesOn ==
  ASSUME TypeOK, RequestsInv, NEW q \in Requests, postVerifyOTP(q)
  PROVE  GoesOn(q)
<1>1. /\ Running(q) /\ Frame /\ UNCHANGED sent /\ CountsOK'
      /\ request[q].kind = "verify" /\ request[q].step = "handler"
  BY RunningRequest DEF postVerifyOTP, Running, Frame, CountsOK, history, store
<1>2. {"redirected", "error"} \subseteq Results \ {"loggedIn", "served"} /\ "user" \in Steps \ {"over", "end"}
  BY DEF Results, Steps
<1>3. CASE Step(q, "end", WithMessage(q, "redirected")) \/ Step(q, "end", WithMessage(q, "error"))
  BY <1>1, <1>2, <1>3, EndsSaying, Writes DEF Step
<1>4. CASE request[q].session.pending # None /\ Valid(q) /\ Step(q, "user", request[q])
  <2> DEFINE n == [request[q] EXCEPT !.step = "user"]
  <2>1. request[q].code = request[q].session.pending /\ request[q].code \in Codes
    BY <1>4, RunningRequest DEF Valid, RequestRecord
  <2>2. Continues(q, n) /\ n.session.pending = request[q].session.pending
    BY <1>1, <1>2, <2>1, RunningRequest, StepsTo
  <2>3. request' = [request EXCEPT ![q] = n]
    BY <1>4 DEF Step
  <2> HIDE DEF n
  <2> QED  BY <1>1, <2>2, <2>3, Writes DEF PendingMoves
<1> QED  BY <1>3, <1>4 DEF postVerifyOTP

LEMMA FreshUserGoesOn ==
  ASSUME TypeOK, RequestsInv, NEW q \in Requests, FreshUser(q)
  PROVE  GoesOn(q)
<1>1. /\ Running(q) /\ Frame /\ UNCHANGED sent /\ request[q].step = "user"
  BY DEF FreshUser, Running, Frame, history, store
<1>2. CountsOK'
  BY RunningRequest, CountsOfQuery DEF FreshUser
<1>3. /\ "error" \in Results \ {"loggedIn", "served"} /\ "error" \in Results
      /\ "role" \in Steps \ {"over", "end"}
  BY DEF Results, Steps
<1>4. CASE Step(q, "end", WithoutPending(Result(q, "error")))
  <2>1. Alike(Result(q, "error"), request[q]) /\ Result(q, "error").result = "error"
    BY <1>3, ResultOf
  <2> QED  BY <1>1, <1>2, <1>3, <1>4, <2>1, EndsWithoutPending, Writes DEF Step
<1>5. CASE Step(q, "end", WithoutPending(WithMessage(q, "error")))
  <2>1. Alike(WithMessage(q, "error"), request[q]) /\ WithMessage(q, "error").result = "error"
    BY <1>3, MessageOf
  <2> QED  BY <1>1, <1>2, <1>3, <1>5, <2>1, EndsWithoutPending, Writes DEF Step
<1>6. CASE account = "active" /\ Step(q, "role", request[q])
  <2> DEFINE n == [request[q] EXCEPT !.step = "role"]
  <2>1. /\ request[q].wasActive
        /\ request[q].kind = "verify" =>
              request[q].code \in Codes /\ request[q].session.pending = request[q].code
    BY <1>1, <1>6, RunningRequest DEF RequestOK, WitnessOf, CodeOf
  <2>2. Continues(q, n) /\ n.session.pending = request[q].session.pending
    BY <1>1, <1>3, <2>1, RunningRequest, StepsTo
  <2>3. request' = [request EXCEPT ![q] = n]
    BY <1>6 DEF Step
  <2> HIDE DEF n
  <2> QED  BY <1>1, <1>2, <2>2, <2>3, Writes DEF PendingMoves
<1> QED  BY <1>4, <1>5, <1>6 DEF FreshUser

(* The permissions granted now.                                              *)
LEMMA GrantedNow ==
  ASSUME TypeOK
  PROVE  granted.role \subseteq Permissions /\ granted.grants \subseteq Permissions
BY SessionsAssumption DEF TypeOK

(* What loadUserPermissions() gathers was held, and in the end not revoked.  *)
LEMMA PermissionsGoOn ==
  ASSUME TypeOK, RequestsInv, NEW q \in Requests, loadUserPermissions(q)
  PROVE  GoesOn(q)
<1>1. /\ Running(q) /\ Frame /\ UNCHANGED sent /\ request[q].step \in {"role", "overrides"}
  BY DEF loadUserPermissions, RolePermissions, Overrides, Running, Frame, history, store
<1>2. CountsOK'
  BY RunningRequest, CountsOfQuery DEF loadUserPermissions, RolePermissions, Overrides
<1>3. /\ "overrides" \in Steps \ {"over", "end"} /\ "regenerate" \in Steps \ {"over", "end"}
  BY DEF Steps
<1>4. /\ request[q].wasActive
      /\ request[q].kind = "verify" =>
            request[q].code \in Codes /\ request[q].session.pending = request[q].code
      /\ granted.role \union granted.grants \subseteq request[q].held
      /\ Permissions \ granted.revokes \subseteq request[q].unrevoked
      /\ request[q].step = "overrides" => request[q].base \subseteq request[q].held
      /\ request[q].base \subseteq Permissions
  BY <1>1, RunningRequest DEF RequestOK, ActivityOf, WitnessOf, CodeOf, PermissionsOf, RequestRecord
<1>5. ASSUME NEW base \in SUBSET Permissions, NEW step \in {"overrides", "regenerate"},
             Step(q, step, [request[q] EXCEPT !.base = base]),
             base \subseteq request[q].held,
             step = "regenerate" => base \subseteq request[q].unrevoked
      PROVE  GoesOn(q)
  <2> DEFINE r == [request[q] EXCEPT !.base = base]
             n == [r EXCEPT !.step = step]
  <2>1. /\ r \in RequestRecord /\ r.base = base
        /\ r.kind = request[q].kind /\ r.sid = request[q].sid /\ r.code = request[q].code
        /\ r.wasActive = request[q].wasActive /\ r.held = request[q].held
        /\ r.unrevoked = request[q].unrevoked /\ r.result = request[q].result
        /\ r.session = request[q].session /\ r.gone = request[q].gone
    BY RunningRequest DEF RequestRecord
  <2>2. request' = [request EXCEPT ![q] = n]
    BY <1>5 DEF Step
  <2> HIDE DEF r
  <2>3. /\ request[q].step # "end" /\ step \in Steps \ {"over", "end"} /\ step # "permission"
        /\ r.wasActive
        /\ step = "overrides" => r.base \subseteq r.held
        /\ step = "regenerate" => r.base \subseteq r.held \intersect r.unrevoked
        /\ r.kind = "verify" => r.code \in Codes /\ r.session.pending = r.code
        /\ r.session.pending = request[q].session.pending
    BY <1>1, <1>3, <1>4, <1>5, <2>1
  <2>4. Continues(q, n) /\ n.session.pending = request[q].session.pending
    BY <1>1, <2>1, <2>3, StepsTo
  <2> HIDE DEF n
  <2> QED  BY <1>1, <1>2, <2>2, <2>4, Writes DEF PendingMoves
<1>6. CASE Step(q, "regenerate", [request[q] EXCEPT !.base = {}])
  <2>1. /\ {} \in SUBSET Permissions
        /\ {} \subseteq request[q].held /\ {} \subseteq request[q].unrevoked
    OBVIOUS
  <2> QED  BY <1>5, <1>6, <2>1
<1>7. CASE Step(q, "overrides", [request[q] EXCEPT !.base = granted.role])
  BY <1>4, <1>5, <1>7, GrantedNow
<1>8. CASE /\ request[q].step = "overrides"
           /\ Step(q, "regenerate", [request[q] EXCEPT !.base = Effective(request[q].base)])
  <2>1. /\ Effective(request[q].base) \in SUBSET Permissions
        /\ Effective(request[q].base) \subseteq request[q].held
        /\ Effective(request[q].base) \subseteq request[q].unrevoked
    BY <1>4, <1>8, GrantedNow DEF Effective
  <2> QED  BY <1>5, <1>8, <2>1
<1> QED  BY <1>6, <1>7, <1>8 DEF loadUserPermissions, RolePermissions, Overrides

LEMMA RefillGoesOn ==
  ASSUME TypeOK, RequestsInv, NEW q \in Requests, RefillPermissions(q)
  PROVE  GoesOn(q)
<1>1. /\ Running(q) /\ Frame /\ UNCHANGED sent /\ request[q].step = "refill"
  BY DEF RefillPermissions, Running, Frame, history, store
<1>2. CountsOK'
  BY RunningRequest, CountsOfQuery DEF RefillPermissions
<1>3. "handler" \in Steps \ {"over", "end"}
  BY DEF Steps
<1>4. ASSUME NEW r \in RequestRecord, Alike(r, request[q]), Step(q, "handler", r),
             r.result = request[q].result, r.session.pending = request[q].session.pending
      PROVE  GoesOn(q)
  <2> DEFINE n == [r EXCEPT !.step = "handler"]
  <2>1. Continues(q, n) /\ n.session.pending = request[q].session.pending
    BY <1>1, <1>3, <1>4, StepsTo DEF Alike
  <2>2. request' = [request EXCEPT ![q] = n]
    BY <1>4 DEF Step
  <2> HIDE DEF n
  <2> QED  BY <1>1, <1>2, <2>1, <2>2, Writes DEF PendingMoves
<1>5. CASE Step(q, "handler", request[q])
  BY <1>4, <1>5, RunningRequest DEF Alike
<1>6. CASE Step(q, "handler", [request[q] EXCEPT !.session.permissions = granted.role])
  <2> DEFINE copy == [request[q].session EXCEPT !.permissions = granted.role]
             r == [request[q] EXCEPT !.session = copy]
  <2>1. copy \in Session /\ copy.pending = request[q].session.pending
    BY RunningRequest, GrantedNow DEF Session
  <2>2. Step(q, "handler", r)
    BY <1>6, RunningRequest DEF RequestRecord
  <2> HIDE DEF copy
  <2>3. Alike(r, request[q]) /\ r.result = request[q].result /\ r.session = copy
    BY <2>1, RunningRequest DEF RequestRecord, Alike
  <2>4. r \in RequestRecord
    BY <2>3 DEF Alike
  <2> HIDE DEF r
  <2> QED  BY <1>4, <2>1, <2>2, <2>3, <2>4
<1> QED  BY <1>5, <1>6 DEF RefillPermissions

LEMMA PageGoesOn ==
  ASSUME TypeOK, RequestsInv, NEW q \in Requests, isLoggedIn(q)
  PROVE  GoesOn(q)
<1>1. /\ Running(q) /\ Frame /\ UNCHANGED sent /\ CountsOK'
      /\ request[q].step = "handler"
  BY RunningRequest DEF isLoggedIn, Running, Frame, CountsOK, history, store
<1>2. "redirected" \in Results \ {"loggedIn", "served"} /\ "active" \in Steps \ {"over", "end"}
  BY DEF Results, Steps
<1>3. CASE Step(q, "active", request[q])
  <2> DEFINE n == [request[q] EXCEPT !.step = "active"]
  <2>1. Continues(q, n) /\ n.session.pending = request[q].session.pending
    BY <1>1, <1>2, RunningRequest, StepsTo
  <2>2. request' = [request EXCEPT ![q] = n]
    BY <1>3 DEF Step
  <2> HIDE DEF n
  <2> QED  BY <1>1, <2>1, <2>2, Writes DEF PendingMoves
<1>4. CASE Step(q, "end", Result(q, "redirected"))
  BY <1>1, <1>2, <1>4, EndsSaying, Writes DEF Step
<1> QED  BY <1>3, <1>4 DEF isLoggedIn

(* destroy(): the request goes on without its session.                       *)
LEMMA DestroyGoesOn ==
  ASSUME TypeOK, RequestsInv, NEW q \in Requests, Running(q), request[q].step # "end", destroy(q),
         CountsOK', UNCHANGED <<database, rows, cookie, history>>
  PROVE  GoesOn(q)
<1> DEFINE r == [request[q] EXCEPT !.gone = TRUE]
           n == [r EXCEPT !.step = "permission"]
<1>1. /\ r \in RequestRecord /\ r.gone = TRUE
      /\ r.kind = request[q].kind /\ r.sid = request[q].sid /\ r.code = request[q].code
      /\ r.wasActive = request[q].wasActive /\ r.held = request[q].held
      /\ r.unrevoked = request[q].unrevoked /\ r.result = request[q].result
      /\ r.session = request[q].session
  BY RunningRequest DEF RequestRecord
<1>2. request' = [request EXCEPT ![q] = n]
  BY DEF destroy, Step
<1> HIDE DEF r
<1>3. /\ Continues(q, n) /\ n.session.pending = request[q].session.pending
      /\ n \in RequestRecord /\ n.gone
  <2>1. "permission" \in Steps \ {"over", "end"}
    BY DEF Steps
  <2>2. n.gone
    BY <1>1 DEF RequestRecord
  <2> QED  BY <1>1, <2>1, <2>2, StepsTo DEF Continues
<1> HIDE DEF n
<1>4. /\ PendingMoves(q, n) /\ Deletes(q, n)
      /\ UNCHANGED <<database, rows, cookie, logins, overlapped, ended, undeleted>>
  BY <1>3 DEF PendingMoves, Deletes, destroy, history
<1> QED  BY <1>2, <1>3, <1>4 DEF GoesOn, CountsOK

(* checkActiveUser() lets a request on, with its session or without.         *)
LEMMA ActiveGoesOn ==
  ASSUME TypeOK, RequestsInv, NEW q \in Requests, checkActiveUser(q) \/ InactiveIsLogged(q)
  PROVE  GoesOn(q)
<1>1. /\ Running(q) /\ UNCHANGED <<database, rows, cookie, history>>
      /\ request[q].step \in {"active", "inactive"}
  BY DEF checkActiveUser, InactiveIsLogged, Running
<1>2. CountsOK'
  BY RunningRequest, CountsOfQuery DEF checkActiveUser, InactiveIsLogged, CountsOK
<1>3. "permission" \in Steps \ {"over", "end"} /\ "inactive" \in Steps \ {"over", "end"}
  BY DEF Steps
<1>4. ASSUME NEW step \in {"permission", "inactive"}, step = "permission" => account = "active",
             Step(q, step, request[q]), UNCHANGED deleting
      PROVE  GoesOn(q)
  <2> DEFINE n == [request[q] EXCEPT !.step = step]
  <2>1. step = "permission" => request[q].wasActive
    BY <1>1, <1>4, RunningRequest DEF RequestOK, WitnessOf
  <2>2. Continues(q, n) /\ n.session.pending = request[q].session.pending
    BY <1>1, <1>3, <1>4, <2>1, RunningRequest, StepsTo
  <2>3. request' = [request EXCEPT ![q] = n] /\ Frame /\ UNCHANGED sent
    BY <1>1, <1>4 DEF Step, Frame, history
  <2> HIDE DEF n
  <2> QED  BY <1>1, <1>2, <2>2, <2>3, Writes DEF PendingMoves
<1>5. CASE Step(q, "permission", [request[q] EXCEPT !.queryFailed = TRUE]) /\ UNCHANGED deleting
  <2> DEFINE r == [request[q] EXCEPT !.queryFailed = TRUE]
             n == [r EXCEPT !.step = "permission"]
  <2>1. /\ r \in RequestRecord /\ r.queryFailed = TRUE
        /\ r.kind = request[q].kind /\ r.sid = request[q].sid /\ r.code = request[q].code
        /\ r.wasActive = request[q].wasActive /\ r.held = request[q].held
        /\ r.unrevoked = request[q].unrevoked /\ r.result = request[q].result
        /\ r.session = request[q].session /\ r.gone = request[q].gone
    BY RunningRequest DEF RequestRecord
  <2>2. request' = [request EXCEPT ![q] = n] /\ Frame /\ UNCHANGED sent
    BY <1>1, <1>5 DEF Step, Frame, history
  <2> HIDE DEF r
  <2>3. Continues(q, n) /\ n.session.pending = request[q].session.pending
    BY <1>1, <1>3, <2>1, StepsTo
  <2> HIDE DEF n
  <2> QED  BY <1>1, <1>2, <2>2, <2>3, Writes DEF PendingMoves
<1>6. CASE destroy(q)
  BY <1>1, <1>2, <1>6, DestroyGoesOn
<1> QED  BY <1>3, <1>4, <1>5, <1>6 DEF checkActiveUser, InactiveIsLogged

LEMMA PermissionCheckGoesOn ==
  ASSUME TypeOK, RequestsInv, NEW q \in Requests, checkPermission(q) \/ openPage(q)
  PROVE  GoesOn(q)
<1>1. /\ Running(q) /\ Frame /\ UNCHANGED sent /\ CountsOK' /\ request[q].step = "permission"
  BY RunningRequest DEF checkPermission, openPage, Running, Frame, CountsOK, history, store
<1>2. {"redirected", "error"} \subseteq Results \ {"loggedIn", "served"} /\ "served" \in Results
  BY DEF Results
<1>3. CASE Step(q, "end", WithMessage(q, "redirected")) \/ Step(q, "end", Result(q, "error"))
  BY <1>1, <1>2, <1>3, EndsSaying, Writes DEF Step
<1>4. ASSUME NEW r, Alike(r, request[q]), r.result = "served", Step(q, "end", r),
             r.session.pending = request[q].session.pending,
             request[q].kind = "openPage" \/ ~request[q].gone
      PROVE  GoesOn(q)
  <2>1. ~r.queryFailed => r.wasActive \/ (r.kind = "openPage" /\ r.gone)
    BY <1>1, <1>4, RunningRequest DEF Alike, RequestOK, ActivityOf
  <2>2. Continues(q, [r EXCEPT !.step = "end"]) /\ [r EXCEPT !.step = "end"].session = r.session
    BY <1>1, <1>4, <2>1, EndsWith
  <2> QED  BY <1>1, <1>4, <2>2, Writes DEF PendingMoves, Step
<1>5. CASE Step(q, "end", Result(q, "served")) /\ (request[q].kind = "openPage" \/ ~request[q].gone)
  BY <1>2, <1>4, <1>5, ResultOf
<1>6. CASE Step(q, "end", WithMessage(q, "served")) /\ ~request[q].gone
  BY <1>2, <1>4, <1>6, MessageOf
<1> QED  BY <1>3, <1>5, <1>6 DEF checkPermission, openPage

LEMMA LogoutGoesOn ==
  ASSUME TypeOK, RequestsInv, NEW q \in Requests, logout(q)
  PROVE  GoesOn(q)
<1>1. /\ Running(q) /\ Frame /\ UNCHANGED sent /\ CountsOK' /\ request[q].step = "handler"
  BY RunningRequest DEF logout, Running, Frame, CountsOK, history, store
<1> DEFINE r == [request[q] EXCEPT !.gone = TRUE]
           n == [r EXCEPT !.step = "destroying"]
<1>2. /\ r \in RequestRecord /\ r.gone = TRUE
      /\ r.kind = request[q].kind /\ r.sid = request[q].sid /\ r.code = request[q].code
      /\ r.wasActive = request[q].wasActive /\ r.held = request[q].held
      /\ r.unrevoked = request[q].unrevoked /\ r.result = request[q].result
      /\ r.session = request[q].session
  BY RunningRequest DEF RequestRecord
<1>3. request' = [request EXCEPT ![q] = n]
  BY DEF logout, Step
<1> HIDE DEF r
<1>4. Continues(q, n) /\ n.session.pending = request[q].session.pending
  <2>1. "destroying" \in Steps \ {"over", "end"}
    BY DEF Steps
  <2> QED  BY <1>1, <1>2, <2>1, StepsTo
<1> HIDE DEF n
<1> QED  BY <1>1, <1>3, <1>4, Writes DEF PendingMoves

LEMMA KeepAliveGoesOn ==
  ASSUME TypeOK, RequestsInv, NEW q \in Requests, keepAliveAPI(q)
  PROVE  GoesOn(q)
<1>1. /\ Running(q) /\ Frame /\ UNCHANGED sent /\ CountsOK'
  BY RunningRequest DEF keepAliveAPI, Running, Frame, CountsOK, history, store
<1>2. {"alive", "error"} \subseteq Results \ {"loggedIn", "served"}
  BY DEF Results
<1>3. PICK result \in {"alive", "error"} : Step(q, "end", Result(q, result))
  BY DEF keepAliveAPI
<1> QED  BY <1>1, <1>2, <1>3, EndsSaying, Writes DEF Step

-----------------------------------------------------------------------------
(* One step per action *)

LEMMA BlankSession ==
  /\ Blank \in Session /\ Blank.pending = None /\ Blank.user = FALSE
BY DEF Blank, Session

LEMMA IdleRecord ==
  /\ Idle \in RequestRecord /\ Idle.step = "over" /\ Idle.result = "none" /\ Idle.kind = "none"
  /\ RequestOK(Idle)
<1>1. /\ Idle \in RequestRecord /\ Idle.step = "over" /\ Idle.result = "none" /\ Idle.kind = "none"
  BY BlankSession DEF Idle, RequestRecord, Kinds, Steps, Results
<1> QED  BY <1>1 DEF RequestOK, ShapeOf, WitnessOf, ActivityOf, PermissionsOf, CodeOf

(* One slot changes, the others stay.                                        *)
LEMMA OneSlot ==
  ASSUME TypeOK, NEW q \in Requests, NEW r \in RequestRecord,
         request' = [request EXCEPT ![q] = r]
  PROVE  /\ request' \in [Requests -> RequestRecord]
         /\ request'[q] = r
         /\ \A p \in Requests : p # q => request'[p] = request[p]
BY DEF TypeOK

LEMMA RequestsKept ==
  ASSUME TypeOK, RequestsInv, UNCHANGED <<account, granted>>, NEW q \in Requests, NEW r,
         RequestOK(r), r \in RequestRecord, request' = [request EXCEPT ![q] = r]
  PROVE  RequestsInv'
<1>1. \A p \in Requests : RequestOK(request'[p])
  BY OneSlot DEF RequestsInv
<1> QED  BY <1>1 DEF RequestsInv, RequestOK, ShapeOf, WitnessOf, ActivityOf, PermissionsOf, CodeOf

(* Requests that keep their sessions, or are over, overlap no more.          *)
LEMMA OverlapKept ==
  ASSUME OverlapInv, overlapped \subseteq overlapped',
         \A q \in Requests : Running(q)' => Running(q) /\ request'[q].sid = request[q].sid
  PROVE  OverlapInv'
BY DEF OverlapInv

LEMMA EndedKept ==
  ASSUME EndedInv, UNCHANGED <<ended, undeleted>>, overlapped \subseteq overlapped',
         \A s \in Sessions : deleting'[s] > 0 => deleting[s] > 0,
         \A s \in Sessions \ overlapped : s \in ended \ undeleted /\ Live(s)' => Live(s),
         \A q \in Requests :
            Running(q)' => /\ Running(q) /\ request'[q].sid = request[q].sid
                           /\ request[q].gone => request'[q].gone
  PROVE  EndedInv'
<1>1. \A s \in Sessions : NobodyWrites(s) => NobodyWrites(s)'
  BY DEF NobodyWrites
<1> QED  BY <1>1 DEF EndedInv

(* Codes stay as they are when pending ones only move between a session's    *)
(* row and the copies of its requests.                                       *)
LEMMA CodesKept ==
  ASSUME CodesInv, UNCHANGED <<sent, logins>>, overlapped \subseteq overlapped',
         \A c \in Codes, s \in Sessions :
            PendingInRow(c, s)' =>
               \/ PendingInRow(c, s)
               \/ \E q \in Requests : PendingInRequest(c, q) /\ request[q].sid = s,
         \A c \in Codes, q \in Requests :
            PendingInRequest(c, q)' =>
               \/ PendingInRequest(c, q) /\ request'[q].sid = request[q].sid
               \/ request'[q].sid \in Sessions /\ PendingInRow(c, request'[q].sid)
  PROVE  CodesInv'
<1> SUFFICES ASSUME NEW c \in Codes
             PROVE  /\ \A s \in Sessions : PendingInRow(c, s)' => sent'[c] = s
                    /\ \A q \in Requests : PendingInRequest(c, q)' => sent'[c] = request'[q].sid
                    /\ sent'[c] = None => logins'[c] = {}
                    /\ sent'[c] \notin overlapped' =>
                          \/ logins'[c] = {}
                          \/ /\ \E s \in Sessions : logins'[c] = {s}
                             /\ \A s \in Sessions : ~PendingInRow(c, s)'
                             /\ \A q \in Requests : ~PendingInRequest(c, q)'
  BY DEF CodesInv
<1>1. \A s \in Sessions : PendingInRow(c, s)' => sent'[c] = s
  BY DEF CodesInv
<1>2. \A q \in Requests : PendingInRequest(c, q)' => sent'[c] = request'[q].sid
  BY DEF CodesInv
<1>3. sent'[c] = None => logins'[c] = {}
  BY DEF CodesInv
<1>4. ASSUME sent'[c] \notin overlapped', logins'[c] # {}
      PROVE  /\ \E s \in Sessions : logins'[c] = {s}
             /\ \A s \in Sessions : ~PendingInRow(c, s)'
             /\ \A q \in Requests : ~PendingInRequest(c, q)'
  <2>1. /\ \E s \in Sessions : logins[c] = {s}
        /\ \A s \in Sessions : ~PendingInRow(c, s)
        /\ \A q \in Requests : ~PendingInRequest(c, q)
    BY <1>4 DEF CodesInv
  <2> QED  BY <2>1
<1> QED  BY <1>1, <1>2, <1>3, <1>4

(* A handler's step.                                                         *)
LEMMA GoesOnStep ==
  ASSUME Inv, NEW q \in Requests, GoesOn(q)
  PROVE  Inv'
<1>1. PICK r : /\ Continues(q, r) /\ PendingMoves(q, r) /\ Deletes(q, r)
               /\ request' = [request EXCEPT ![q] = r]
  BY DEF GoesOn
<1>2. /\ TypeOK /\ RequestsInv /\ OverlapInv /\ EndedInv /\ CodesInv
      /\ Running(q) /\ request[q].sid \in Sessions
      /\ UNCHANGED <<account, granted, expired, bypass, rows, cookie, logins, overlapped, ended,
                     undeleted>>
      /\ CountsOK'
  BY RunningRequest DEF Inv, GoesOn, CountsOK, database
<1>3. /\ r \in RequestRecord /\ RequestOK(r) /\ r.sid = request[q].sid
      /\ request[q].gone => r.gone
  BY <1>1 DEF Continues
<1>4. /\ request' \in [Requests -> RequestRecord]
      /\ request'[q] = r
      /\ \A p \in Requests : p # q => request'[p] = request[p]
  BY <1>1, <1>2, <1>3, OneSlot
<1>5. TypeOK'
  <2>1. sent' \in [Codes -> Sessions \union {None}]
    BY <1>1, <1>2 DEF PendingMoves, TypeOK
  <2>2. deleting' \in [Sessions -> Nat]
    BY <1>1, <1>2 DEF Deletes, TypeOK
  <2> QED  BY <1>2, <1>4, <2>1, <2>2 DEF TypeOK, CountsOK
<1>6. RequestsInv'
  BY <1>1, <1>2, <1>3, RequestsKept
<1>7. \A p \in Requests : Running(p)' => Running(p) /\ request'[p].sid = request[p].sid
  BY <1>2, <1>3, <1>4 DEF Running
<1>8. OverlapInv' /\ EndedInv'
  <2>1. \A p \in Requests : Running(p)' => (request[p].gone => request'[p].gone)
    BY <1>3, <1>4
  <2>2. \A s \in Sessions : NobodyWrites(s) => NobodyWrites(s)'
    BY <1>7, <2>1 DEF NobodyWrites
  <2>3. ASSUME NEW s \in Sessions, deleting'[s] > 0, ~(deleting[s] > 0), s \notin overlapped
        PROVE  NobodyWrites(s)'
    <3>1. r.gone /\ s = request[q].sid
      BY <1>1, <1>2, <2>3 DEF Deletes, TypeOK
    <3>2. \A p \in Requests : p # q /\ Running(p) => request[p].sid # s
      BY <1>2, <2>3, <3>1 DEF OverlapInv
    <3> QED  BY <1>4, <1>7, <3>1, <3>2 DEF NobodyWrites
  <2>4. EndedInv'
    BY <1>2, <2>2, <2>3 DEF EndedInv, Live
  <2> QED  BY <1>2, <1>7, <2>4, OverlapKept
<1>9. CodesInv'
  <2>1. \A c \in Codes, s \in Sessions : PendingInRow(c, s)' <=> PendingInRow(c, s)
    BY <1>2 DEF PendingInRow, Live
  <2>2. \A c \in Codes, p \in Requests : p # q => (PendingInRequest(c, p)' <=> PendingInRequest(c, p))
    BY <1>4 DEF PendingInRequest, Running
  <2>3. \A c \in Codes : PendingInRequest(c, q)' => r.session.pending = c
    BY <1>4 DEF PendingInRequest
  <2>4. CASE sent' = sent /\ r.session.pending \in {request[q].session.pending, None}
    <3>1. \A c \in Codes : PendingInRequest(c, q)' => PendingInRequest(c, q)
      BY <1>2, <2>3, <2>4, SessionsAssumption DEF PendingInRequest
    <3> QED  BY <1>2, <1>7, <2>1, <2>2, <2>4, <3>1, CodesKept DEF PendingInRequest
  <2>5. ASSUME NEW c \in Codes, sent[c] = None, sent' = [sent EXCEPT ![c] = request[q].sid],
               r.session.pending = c
        PROVE  CodesInv'
    <3>1. /\ sent'[c] = request[q].sid
          /\ \A d \in Codes : d # c => sent'[d] = sent[d]
      BY <1>2, <2>5 DEF TypeOK
    <3>2. /\ \A s \in Sessions : ~PendingInRow(c, s)
          /\ \A p \in Requests : ~PendingInRequest(c, p)
      <4>1. \A p \in Requests : Running(p) => request[p].sid \in Sessions
        BY <1>2, RunningRequest
      <4> QED  BY <1>2, <2>5, <4>1, SessionsAssumption DEF CodesInv, PendingInRequest
    <3>3. logins'[c] = {}
      BY <1>2, <2>5 DEF CodesInv
    <3>4. \A d \in Codes : d # c => ~PendingInRequest(d, q)'
      BY <2>3, <2>5
    <3>5. ASSUME NEW d \in Codes
          PROVE  /\ \A s \in Sessions : PendingInRow(d, s)' => sent'[d] = s
                 /\ \A p \in Requests : PendingInRequest(d, p)' => sent'[d] = request'[p].sid
                 /\ sent'[d] = None => logins'[d] = {}
                 /\ sent'[d] \notin overlapped' =>
                       \/ logins'[d] = {}
                       \/ /\ \E s \in Sessions : logins'[d] = {s}
                          /\ \A s \in Sessions : ~PendingInRow(d, s)'
                          /\ \A p \in Requests : ~PendingInRequest(d, p)'
      <4>1. CASE d = c
        BY <1>3, <1>4, <2>1, <2>2, <3>1, <3>2, <3>3, <4>1
      <4>2. CASE d # c
        <5>1. \A p \in Requests : PendingInRequest(d, p)' => PendingInRequest(d, p) /\ request'[p].sid = request[p].sid
          BY <1>4, <2>2, <3>4, <4>2
        <5> QED  BY <1>2, <2>1, <3>1, <4>2, <5>1 DEF CodesInv
      <4> QED  BY <4>1, <4>2
    <3> QED  BY <3>5 DEF CodesInv
  <2> QED  BY <1>1, <2>4, <2>5 DEF PendingMoves
<1> QED  BY <1>5, <1>6, <1>8, <1>9 DEF Inv

(* A request begins, with a copy of a live session or with a new session.    *)
LEMMA BeginsStep ==
  ASSUME Inv, NEW q \in Requests, NEW kind \in Kinds, NEW code \in Codes \union {None},
         NEW sid \in Sessions, Begins(q, kind, code, sid), Live(sid) \/ sid \in Unused
  PROVE  Inv'
<1>1. /\ TypeOK /\ RequestsInv /\ OverlapInv /\ EndedInv /\ CodesInv
      /\ ~Running(q)
      /\ UNCHANGED <<account, granted, expired, bypass, rows, cookie, sent, logins, deleting, ended,
                     undeleted>>
      /\ overlapped \subseteq overlapped' /\ overlapped' \subseteq Sessions
  BY DEF Inv, Begins, database, store, TypeOK
<1>2. CountsOK'
  BY <1>1, SessionsAssumption DEF Begins, TypeOK, CountsOK
<1> DEFINE copy == IF Live(sid) THEN [rows[sid] EXCEPT !.flash = FALSE] ELSE Blank
           first == FirstStep(kind, IF Live(sid) THEN rows[sid] ELSE Blank)
           r == [Idle EXCEPT !.kind = kind, !.sid = sid, !.code = code, !.step = first,
                             !.session = copy, !.stored = rows[sid],
                             !.wasActive = account = "active",
                             !.held = granted.role \union granted.grants,
                             !.unrevoked = Permissions \ granted.revokes]
<1>3. /\ copy \in Session
      /\ copy.pending = IF Live(sid) THEN rows[sid].pending ELSE None
  BY <1>1, BlankSession DEF TypeOK, Live, Session
<1>4. first \in {"refill", "handler"}
  BY DEF FirstStep
<1>5. request' = [request EXCEPT ![q] = r]
  BY DEF Begins
<1>6. rows[sid] \in Session \union {None}
  BY <1>1 DEF TypeOK
<1> HIDE DEF copy, first
<1>7. /\ r \in RequestRecord
      /\ r.kind = kind /\ r.sid = sid /\ r.step = first /\ r.session = copy /\ r.result = "none"
      /\ r.wasActive = (account = "active")
      /\ r.held = granted.role \union granted.grants
      /\ r.unrevoked = Permissions \ granted.revokes
  <2>1. (account = "active") \in BOOLEAN
    OBVIOUS
  <2>2. first \in Steps
    BY <1>4 DEF Steps
  <2> QED  BY <1>1, <1>3, <1>6, <2>1, <2>2, IdleRecord, GrantedNow DEF RequestRecord
<1> HIDE DEF r
<1>8. RequestOK(r)
  BY <1>4, <1>7 DEF RequestOK, ShapeOf, WitnessOf, ActivityOf, PermissionsOf, CodeOf
<1>9. /\ request' \in [Requests -> RequestRecord]
      /\ request'[q] = r
      /\ \A p \in Requests : p # q => request'[p] = request[p]
  BY <1>1, <1>5, <1>7, OneSlot
<1>10. TypeOK'
  BY <1>1, <1>2, <1>9 DEF TypeOK, CountsOK
<1>11. RequestsInv'
  BY <1>1, <1>5, <1>7, <1>8, RequestsKept
<1>12. OverlapInv'
  <2> SUFFICES ASSUME NEW p \in Requests, NEW o \in Requests, p # o, Running(p)', Running(o)',
                      request'[p].sid = request'[o].sid
               PROVE  request'[p].sid \in overlapped'
    BY DEF OverlapInv
  <2>1. CASE p # q /\ o # q
    BY <1>1, <1>9, <2>1 DEF OverlapInv, Running
  <2>2. ASSUME NEW t \in Requests, t # q, Running(t)', request'[t].sid = sid
        PROVE  sid \in overlapped'
    <3>1. Running(t) /\ request[t].sid = sid
      BY <1>9, <2>2 DEF Running
    <3> QED  BY <3>1 DEF Begins
  <2> QED  BY <1>7, <1>9, <2>1, <2>2
<1>13. EndedInv'
  <2> SUFFICES ASSUME NEW s \in Sessions, s \notin overlapped'
               PROVE  /\ deleting'[s] > 0 => NobodyWrites(s)'
                      /\ s \in ended' \ undeleted' => ~Live(s)' /\ NobodyWrites(s)'
    BY DEF EndedInv
  <2>1. CASE s = sid
    <3>1. ~(deleting[s] > 0)
      BY <1>1, <2>1 DEF Begins
    <3>2. s \notin ended \ undeleted
      BY <1>1, <2>1 DEF EndedInv, Unused
    <3> QED  BY <1>1, <3>1, <3>2
  <2>2. CASE s # sid
    <3>1. NobodyWrites(s) => NobodyWrites(s)'
      BY <1>7, <1>9, <2>2 DEF NobodyWrites, Running
    <3> QED  BY <1>1, <3>1 DEF EndedInv, Live
  <2> QED  BY <2>1, <2>2
<1>14. CodesInv'
  <2>1. \A c \in Codes, s \in Sessions : PendingInRow(c, s)' => PendingInRow(c, s)
    BY <1>1 DEF PendingInRow, Live
  <2>2. \A c \in Codes, p \in Requests :
           p # q /\ PendingInRequest(c, p)' => PendingInRequest(c, p) /\ request'[p].sid = request[p].sid
    BY <1>9 DEF PendingInRequest, Running
  <2>3. \A c \in Codes : PendingInRequest(c, q)' => PendingInRow(c, request'[q].sid)
    BY <1>3, <1>7, <1>9, SessionsAssumption DEF PendingInRequest, PendingInRow
  <2> QED  BY <1>1, <1>7, <1>9, <2>1, <2>2, <2>3, CodesKept
<1> QED  BY <1>10, <1>11, <1>12, <1>13, <1>14 DEF Inv

LEMMA RequestStep ==
  ASSUME Inv, NEW q \in Requests, Request(q)
  PROVE  Inv'
<1>1. {"login", "codePage", "verify", "page", "openPage", "keepAlive", "logout"} \subseteq Kinds
  BY DEF Kinds
<1>2. PICK kind \in Kinds, code \in Codes \union {None} :
         IF cookie # None /\ Live(cookie) THEN Begins(q, kind, code, cookie)
                                          ELSE \E s \in Unused : Begins(q, kind, code, s)
  BY <1>1 DEF Request
<1>3. Unused \subseteq Sessions /\ (cookie # None => cookie \in Sessions)
  BY DEF Unused, Inv, TypeOK
<1> QED  BY <1>2, <1>3, BeginsStep

(* The response: the copy is written to its row.                             *)
LEMMA EndsStep ==
  ASSUME Inv, NEW q \in Requests, Ends(q)
  PROVE  Inv'
<1>1. /\ TypeOK /\ RequestsInv /\ OverlapInv /\ EndedInv /\ CodesInv
      /\ Running(q) /\ request[q].sid \in Sessions /\ request[q].session \in Session
      /\ UNCHANGED <<account, granted, expired, bypass, counts, sent, logins, overlapped, deleting,
                     ended, undeleted>>
      /\ cookie' \in {cookie, request[q].sid}
      /\ request' = [request EXCEPT ![q] = Idle]
  BY RunningRequest DEF Inv, Ends, database, history, Running
<1>2. /\ rows' \in [Sessions -> Session \union {None}]
      /\ \A s \in Sessions :
            \/ rows'[s] = rows[s]
            \/ s = request[q].sid /\ rows'[s] = request[q].session /\ ~request[q].gone
  BY <1>1 DEF Ends, TypeOK
<1>3. /\ request' \in [Requests -> RequestRecord]
      /\ request'[q] = Idle
      /\ \A p \in Requests : p # q => request'[p] = request[p]
  BY <1>1, IdleRecord, OneSlot
<1>4. TypeOK'
  BY <1>1, <1>2, <1>3 DEF TypeOK
<1>5. RequestsInv'
  BY <1>1, IdleRecord, RequestsKept
<1>6. \A p \in Requests : Running(p)' => Running(p) /\ request'[p].sid = request[p].sid /\ p # q
  BY <1>3, IdleRecord DEF Running
<1>7. OverlapInv'
  BY <1>1, <1>6, OverlapKept
<1>8. EndedInv'
  <2>1. ~request[q].gone /\ request[q].sid \notin overlapped =>
           request[q].sid \notin ended \ undeleted
    BY <1>1 DEF EndedInv, NobodyWrites
  <2>2. \A s \in Sessions \ overlapped : s \in ended \ undeleted /\ Live(s)' => Live(s)
    BY <1>1, <1>2, <2>1 DEF Live
  <2>3. \A p \in Requests : Running(p)' => request'[p].gone = request[p].gone
    BY <1>3, <1>6
  <2> QED  BY <1>1, <1>6, <2>2, <2>3, EndedKept
<1>9. CodesInv'
  <2>1. ASSUME NEW c \in Codes, NEW s \in Sessions, PendingInRow(c, s)'
        PROVE  PendingInRow(c, s) \/ \E p \in Requests : PendingInRequest(c, p) /\ request[p].sid = s
    BY <1>1, <1>2, <2>1 DEF PendingInRow, PendingInRequest, Live
  <2>2. \A c \in Codes, p \in Requests :
           PendingInRequest(c, p)' => PendingInRequest(c, p) /\ request'[p].sid = request[p].sid
    BY <1>3, <1>6 DEF PendingInRequest
  <2> QED  BY <1>1, <2>1, <2>2, CodesKept
<1> QED  BY <1>4, <1>5, <1>7, <1>8, <1>9 DEF Inv

(* The database answers the DELETE of a session that nobody can write.       *)
LEMMA AnswerStep ==
  ASSUME Inv, NEW s \in Sessions, DeleteAnswers(s),
         UNCHANGED <<database, cookie, sent, logins, overlapped>>,
         s \notin overlapped => NobodyWrites(s),
         deleting' \in [Sessions -> Nat], \A t \in Sessions : deleting'[t] > 0 => deleting[t] > 0,
         \/ UNCHANGED request
         \/ \E q \in Requests : request' = [request EXCEPT ![q] = Idle]
  PROVE  Inv'
<1>1. /\ TypeOK /\ RequestsInv /\ OverlapInv /\ EndedInv /\ CodesInv
      /\ UNCHANGED <<account, granted, expired, bypass, cookie, sent, logins, overlapped>>
      /\ ended' = ended \union {s}
  BY DEF Inv, database, DeleteAnswers
<1>2. CountsOK'
  BY <1>1, CountsOfQuery DEF DeleteAnswers, TypeOK, CountsOK
<1>3. /\ rows' \in [Sessions -> Session \union {None}]
      /\ \A t \in Sessions : rows'[t] = rows[t] \/ rows'[t] = None
      /\ undeleted' \subseteq Sessions /\ undeleted \subseteq undeleted'
      /\ s \notin undeleted' => rows'[s] = None
  BY <1>1 DEF DeleteAnswers, TypeOK
<1>4. /\ request' \in [Requests -> RequestRecord]
      /\ \A p \in Requests : request'[p] = request[p] \/ request'[p] = Idle
  BY <1>1, IdleRecord DEF TypeOK
<1>5. TypeOK'
  BY <1>1, <1>2, <1>3, <1>4 DEF TypeOK, CountsOK
<1>6. RequestsInv'
  <2>1. \A p \in Requests : RequestOK(request'[p])
    BY <1>1, <1>4, IdleRecord DEF RequestsInv
  <2> QED  BY <1>1, <2>1 DEF RequestsInv, RequestOK, ShapeOf, WitnessOf, ActivityOf, PermissionsOf, CodeOf
<1>7. \A p \in Requests : Running(p)' => Running(p) /\ request'[p] = request[p]
  BY <1>4, IdleRecord DEF Running
<1>8. OverlapInv'
  BY <1>1, <1>7, OverlapKept
<1>9. EndedInv'
  <2>1. \A t \in Sessions : NobodyWrites(t) => NobodyWrites(t)'
    BY <1>7 DEF NobodyWrites
  <2>2. \A t \in Sessions : Live(t)' => Live(t)
    BY <1>3 DEF Live
  <2>3. s \notin undeleted' => ~Live(s)'
    BY <1>3 DEF Live
  <2> QED  BY <1>1, <1>3, <2>1, <2>2, <2>3 DEF EndedInv
<1>10. CodesInv'
  <2>1. \A c \in Codes, t \in Sessions : PendingInRow(c, t)' => PendingInRow(c, t)
    BY <1>3 DEF PendingInRow, Live
  <2>2. \A c \in Codes, p \in Requests :
           PendingInRequest(c, p)' => PendingInRequest(c, p) /\ request'[p].sid = request[p].sid
    BY <1>7 DEF PendingInRequest
  <2> QED  BY <1>1, <2>1, <2>2, CodesKept
<1> QED  BY <1>5, <1>6, <1>8, <1>9, <1>10 DEF Inv

LEMMA SessionDestroyedStep ==
  ASSUME Inv, NEW s \in Sessions, SessionDestroyed(s)
  PROVE  Inv'
<1>1. /\ deleting \in [Sessions -> Nat] /\ deleting[s] > 0
      /\ deleting' = [deleting EXCEPT ![s] = @ - 1]
  BY DEF SessionDestroyed, Inv, TypeOK
<1>2. deleting' \in [Sessions -> Nat] /\ \A t \in Sessions : deleting'[t] > 0 => deleting[t] > 0
  BY <1>1
<1>3. s \notin overlapped => NobodyWrites(s)
  BY <1>1 DEF Inv, EndedInv
<1> QED  BY <1>2, <1>3, AnswerStep DEF SessionDestroyed

LEMMA RedirectStep ==
  ASSUME Inv, NEW q \in Requests, logoutRedirects(q)
  PROVE  Inv'
<1>1. /\ TypeOK /\ OverlapInv
      /\ Running(q) /\ request[q].sid \in Sessions /\ request[q].gone
  BY RunningRequest DEF Inv, logoutRedirects, Running, RequestOK, ShapeOf
<1>2. request[q].sid \notin overlapped => NobodyWrites(request[q].sid)
  BY <1>1 DEF OverlapInv, NobodyWrites
<1> QED  BY <1>1, <1>2, AnswerStep DEF logoutRedirects, TypeOK

(* The rows of sessions go, and their requests stay or are over: an expired  *)
(* session, and a process that ends.                                         *)
LEMMA RowsGo ==
  ASSUME Inv, UNCHANGED <<database, cookie, history>>, CountsOK',
         rows' \in [Sessions -> Session \union {None}],
         \A s \in Sessions : rows'[s] = rows[s] \/ rows'[s] = None,
         deleting' \in [Sessions -> Nat], \A s \in Sessions : deleting'[s] > 0 => deleting[s] > 0,
         request' = request \/ request' = [p \in Requests |-> Idle]
  PROVE  Inv'
<1>1. /\ TypeOK /\ RequestsInv /\ OverlapInv /\ EndedInv /\ CodesInv
      /\ UNCHANGED <<account, granted, expired, bypass, cookie, sent, logins, overlapped, ended,
                     undeleted>>
  BY DEF Inv, database, history
<1>2. /\ request' \in [Requests -> RequestRecord]
      /\ \A p \in Requests : request'[p] = request[p] \/ request'[p] = Idle
  BY <1>1, IdleRecord DEF TypeOK
<1>3. TypeOK'
  BY <1>1, <1>2 DEF TypeOK, CountsOK
<1>4. \A p \in Requests : RequestOK(request'[p])
  BY <1>1, <1>2, IdleRecord DEF RequestsInv
<1>5. RequestsInv'
  BY <1>1, <1>4 DEF RequestsInv, RequestOK, ShapeOf, WitnessOf, ActivityOf, PermissionsOf, CodeOf
<1>6. \A p \in Requests : Running(p)' => Running(p) /\ request'[p] = request[p]
  BY <1>2, IdleRecord DEF Running
<1>7. \A s \in Sessions : Live(s)' => Live(s) /\ rows'[s] = rows[s]
  BY DEF Live
<1>8. OverlapInv'
  BY <1>1, <1>6, OverlapKept
<1>9. EndedInv'
  BY <1>1, <1>6, <1>7, EndedKept DEF TypeOK
<1>10. CodesInv'
  <2>1. \A c \in Codes, s \in Sessions : PendingInRow(c, s)' => PendingInRow(c, s)
    BY <1>7 DEF PendingInRow
  <2>2. \A c \in Codes, p \in Requests :
           PendingInRequest(c, p)' => PendingInRequest(c, p) /\ request'[p].sid = request[p].sid
    BY <1>6 DEF PendingInRequest
  <2> QED  BY <1>1, <2>1, <2>2, CodesKept
<1> QED  BY <1>3, <1>5, <1>8, <1>9, <1>10 DEF Inv

(* The session is regenerated: a code that opens a session is used up.       *)
LEMMA RegenerateStep ==
  ASSUME Inv, NEW q \in Requests, Regenerate(q)
  PROVE  Inv'
<1>1. /\ TypeOK /\ RequestsInv /\ OverlapInv /\ EndedInv /\ CodesInv
      /\ Running(q) /\ request[q].step = "regenerate"
      /\ request[q].sid \in Sessions /\ request[q] \in RequestRecord
      /\ UNCHANGED <<account, granted, expired, bypass, cookie, counts, sent, overlapped, deleting,
                     ended, undeleted>>
  BY RunningRequest DEF Inv, Regenerate, database, Running
<1> DEFINE base == request[q].base
           fresh == [Blank EXCEPT !.user = TRUE, !.permissions = base]
           m == WithMessage(q, "loggedIn")
           Moved(s) == [m EXCEPT !.sid = s, !.stored = Blank, !.session.user = TRUE,
                                 !.session.pending = None, !.session.permissions = base]
<1>2. PICK s \in Unused :
         /\ rows' = [rows EXCEPT ![request[q].sid] = None, ![s] = fresh]
         /\ Step(q, "end", Moved(s))
         /\ logins' = [c \in Codes |-> IF request[q].kind = "verify" /\ c = request[q].code
                                       THEN logins[c] \union {s} ELSE logins[c]]
  BY DEF Regenerate
<1>3. /\ s \in Sessions /\ s # request[q].sid /\ s \notin ended /\ deleting[s] = 0
      /\ \A p \in Requests : Running(p) => request[p].sid # s
  BY <1>1, <1>2 DEF Unused
<1> DEFINE copy == [m.session EXCEPT !.user = TRUE, !.pending = None, !.permissions = base]
           r == [[m EXCEPT !.sid = s, !.stored = Blank, !.session = copy] EXCEPT !.step = "end"]
<1>4. /\ base \in SUBSET Permissions
      /\ fresh \in Session /\ fresh.pending = None
  BY <1>1, BlankSession DEF RequestRecord, Session
<1>5. /\ Alike(m, request[q]) /\ m \in RequestRecord /\ m.session \in Session /\ m.result = "loggedIn"
  BY <1>1, MessageOf DEF Alike, Results
<1>6. request' = [request EXCEPT ![q] = r]
  BY <1>2, <1>5 DEF Step, RequestRecord
<1> HIDE DEF m
<1>7. copy \in Session /\ copy.pending = None /\ copy.permissions = base
  BY <1>4, <1>5 DEF Session
<1> HIDE DEF copy
<1>8. /\ r \in RequestRecord
      /\ r.sid = s /\ r.step = "end" /\ r.result = "loggedIn" /\ r.session = copy
      /\ r.kind = m.kind /\ r.wasActive = m.wasActive /\ r.held = m.held
      /\ r.unrevoked = m.unrevoked
  BY <1>3, <1>5, <1>7, BlankSession DEF RequestRecord, Steps
<1>9. /\ r.wasActive = request[q].wasActive
      /\ r.held = request[q].held /\ r.unrevoked = request[q].unrevoked
  BY <1>5, <1>8 DEF Alike
<1> HIDE DEF r, fresh
<1>10. RequestOK(r)
  <2>1. /\ ActivityOf(request[q]) /\ WitnessOf(request[q]) /\ PermissionsOf(request[q])
    BY <1>1, RunningRequest DEF RequestOK
  <2>2. /\ request[q].wasActive
        /\ base \subseteq request[q].held \intersect request[q].unrevoked
    BY <1>1, <2>1 DEF ActivityOf, PermissionsOf
  <2>3. ShapeOf(r) /\ CodeOf(r)
    BY <1>3, <1>8 DEF ShapeOf, CodeOf
  <2>4. WitnessOf(r)
    BY <1>1, <1>9, <2>1 DEF WitnessOf, Running
  <2>5. ActivityOf(r) /\ PermissionsOf(r)
    BY <1>7, <1>8, <1>9, <2>2 DEF ActivityOf, PermissionsOf
  <2> QED  BY <2>3, <2>4, <2>5 DEF RequestOK
<1>11. /\ request' \in [Requests -> RequestRecord]
       /\ request'[q] = r
       /\ \A p \in Requests : p # q => request'[p] = request[p]
  BY <1>1, <1>6, <1>8, OneSlot
<1>12. /\ rows' \in [Sessions -> Session \union {None}]
       /\ rows'[s] = fresh /\ rows'[request[q].sid] = None
       /\ \A t \in Sessions : t # s /\ t # request[q].sid => rows'[t] = rows[t]
  BY <1>1, <1>2, <1>3, <1>4 DEF TypeOK
<1>13. TypeOK'
  <2>1. logins' \in [Codes -> SUBSET Sessions]
    BY <1>1, <1>2, <1>3 DEF TypeOK
  <2> QED  BY <1>1, <1>11, <1>12, <2>1 DEF TypeOK
<1>14. RequestsInv'
  BY <1>1, <1>6, <1>8, <1>10, RequestsKept
<1>15. OverlapInv'
  BY <1>1, <1>3, <1>8, <1>11 DEF OverlapInv, Running
<1>16. EndedInv'
  <2> SUFFICES ASSUME NEW t \in Sessions, t \notin overlapped
               PROVE  /\ deleting[t] > 0 => NobodyWrites(t)'
                      /\ t \in ended \ undeleted => ~Live(t)' /\ NobodyWrites(t)'
    BY <1>1 DEF EndedInv
  <2>1. CASE t = s
    BY <1>3, <2>1
  <2>2. CASE t # s
    <3>1. NobodyWrites(t) => NobodyWrites(t)'
      BY <1>8, <1>11, <2>2 DEF NobodyWrites, Running
    <3>2. Live(t)' => Live(t)
      BY <1>12, <2>2 DEF Live
    <3> QED  BY <1>1, <3>1, <3>2 DEF EndedInv
  <2> QED  BY <2>1, <2>2
<1>17. CodesInv'
  <2> SUFFICES ASSUME NEW c \in Codes
               PROVE  /\ \A t \in Sessions : PendingInRow(c, t)' => sent'[c] = t
                      /\ \A p \in Requests : PendingInRequest(c, p)' => sent'[c] = request'[p].sid
                      /\ sent'[c] = None => logins'[c] = {}
                      /\ sent'[c] \notin overlapped' =>
                            \/ logins'[c] = {}
                            \/ /\ \E t \in Sessions : logins'[c] = {t}
                               /\ \A t \in Sessions : ~PendingInRow(c, t)'
                               /\ \A p \in Requests : ~PendingInRequest(c, p)'
    BY DEF CodesInv
  <2>1. \A t \in Sessions :
           PendingInRow(c, t)' => PendingInRow(c, t) /\ t # request[q].sid
    BY <1>4, <1>12, SessionsAssumption DEF PendingInRow, Live
  <2>2. \A p \in Requests :
           PendingInRequest(c, p)' => PendingInRequest(c, p) /\ request'[p].sid = request[p].sid /\ p # q
    BY <1>7, <1>8, <1>11, SessionsAssumption DEF PendingInRequest, Running
  <2>3. CASE request[q].kind = "verify" /\ c = request[q].code
    <3>1. PendingInRequest(c, q)
      BY <1>1, <2>3, RunningRequest DEF RequestOK, CodeOf, PendingInRequest
    <3>2. sent[c] = request[q].sid /\ logins'[c] = logins[c] \union {s}
      BY <1>1, <1>2, <2>3, <3>1 DEF CodesInv
    <3>3. ASSUME sent[c] \notin overlapped
          PROVE  /\ logins'[c] = {s}
                 /\ \A t \in Sessions : ~PendingInRow(c, t)'
                 /\ \A p \in Requests : ~PendingInRequest(c, p)'
      <4>1. logins[c] = {}
        BY <1>1, <3>1, <3>3 DEF CodesInv
      <4>2. \A t \in Sessions : ~PendingInRow(c, t)'
        BY <1>1, <2>1, <3>2 DEF CodesInv
      <4>3. ASSUME NEW p \in Requests, PendingInRequest(c, p)'  PROVE FALSE
        <5>1. p # q /\ PendingInRequest(c, p)
          BY <2>2, <4>3
        <5>2. request[p].sid = sent[c] /\ Running(p)
          BY <1>1, <5>1 DEF CodesInv, PendingInRequest
        <5> QED  BY <1>1, <3>2, <3>3, <5>1, <5>2 DEF OverlapInv
      <4> QED  BY <3>2, <4>1, <4>2, <4>3
    <3>4. sent[c] # None
      BY <1>1, <3>2, SessionsAssumption
    <3> QED  BY <1>1, <1>3, <2>1, <2>2, <3>3, <3>4 DEF CodesInv
  <2>4. CASE ~(request[q].kind = "verify" /\ c = request[q].code)
    <3>1. logins'[c] = logins[c]
      BY <1>2, <2>4
    <3> QED  BY <1>1, <2>1, <2>2, <3>1 DEF CodesInv
  <2> QED  BY <2>3, <2>4
<1> QED  BY <1>13, <1>14, <1>15, <1>16, <1>17 DEF Inv

LEMMA RegenerateFailsStep ==
  ASSUME Inv, NEW q \in Requests, RegenerateFails(q)
  PROVE  Inv'
<1>1. CountsOK'
  BY CountsOfQuery DEF RegenerateFails, Inv, TypeOK, CountsOK
<1>2. /\ rows' \in [Sessions -> Session \union {None}]
      /\ \A s \in Sessions : rows'[s] = rows[s] \/ rows'[s] = None
      /\ deleting' \in [Sessions -> Nat] /\ \A s \in Sessions : deleting'[s] > 0 => deleting[s] > 0
  BY DEF RegenerateFails, Inv, TypeOK
<1> QED  BY <1>1, <1>2, RowsGo DEF RegenerateFails

(* Administrators change the account; the requests that run see it.          *)
LEMMA ChangeStep ==
  ASSUME Inv, Change, Witnessed,
         account' \in {"active", "inactive", "deleted"}, granted' \in Grantings
  PROVE  Inv'
<1>1. /\ TypeOK /\ RequestsInv /\ OverlapInv /\ EndedInv /\ CodesInv
      /\ UNCHANGED <<rows, deleting, cookie, expired, bypass, sent, logins, overlapped, ended, undeleted>>
  BY DEF Inv, Change, history, store
<1>2. CountsOK'
  BY <1>1, SessionsAssumption DEF Change, TypeOK, CountsOK
<1>3. granted'.role \subseteq Permissions /\ granted'.grants \subseteq Permissions
  BY SessionsAssumption
<1>4. ASSUME NEW p \in Requests
      PROVE  /\ request'[p] \in RequestRecord
             /\ RequestOK(request[p]) => RequestOK(request[p])'
             /\ request'[p].step = request[p].step /\ request'[p].sid = request[p].sid
             /\ request'[p].session = request[p].session /\ request'[p].gone = request[p].gone
  <2>1. request[p] \in RequestRecord
    BY <1>1 DEF TypeOK
  <2>2. CASE ~Running(p)
    <3>1. request'[p] = request[p] /\ request[p].step = "over"
      BY <2>2 DEF Witnessed, Running
    <3> QED  BY <2>1, <3>1 DEF RequestOK, ShapeOf, WitnessOf, ActivityOf, PermissionsOf, CodeOf
  <2>3. CASE Running(p)
    <3> DEFINE w == (request[p].wasActive \/ account' = "active")
               h == request[p].held \union granted'.role \union granted'.grants
               u == request[p].unrevoked \union (Permissions \ granted'.revokes)
    <3>1. request'[p] = [request[p] EXCEPT !.wasActive = w, !.held = h, !.unrevoked = u]
      BY <2>1, <2>3 DEF Witnessed, RequestRecord
    <3>2. w \in BOOLEAN
      OBVIOUS
    <3>3. /\ h \in SUBSET Permissions /\ u \in SUBSET Permissions
          /\ request[p].held \subseteq h /\ request[p].unrevoked \subseteq u
          /\ granted'.role \union granted'.grants \subseteq h
          /\ Permissions \ granted'.revokes \subseteq u
      BY <1>3, <2>1 DEF RequestRecord
    <3>4. /\ request[p].wasActive => w
          /\ account' = "active" => w
      OBVIOUS
    <3> HIDE DEF w, h, u
    <3>5. /\ request'[p] \in RequestRecord
          /\ request'[p].wasActive = w /\ request'[p].held = h /\ request'[p].unrevoked = u
          /\ request'[p].kind = request[p].kind /\ request'[p].step = request[p].step
          /\ request'[p].sid = request[p].sid /\ request'[p].session = request[p].session
          /\ request'[p].code = request[p].code /\ request'[p].base = request[p].base
          /\ request'[p].result = request[p].result
          /\ request'[p].queryFailed = request[p].queryFailed
          /\ request'[p].gone = request[p].gone
      BY <2>1, <3>1, <3>2, <3>3 DEF RequestRecord
    <3>6. ASSUME RequestOK(request[p])  PROVE RequestOK(request[p])'
      <4>1. (ShapeOf(request[p]) /\ CodeOf(request[p]))'
        BY <3>5, <3>6 DEF RequestOK, ShapeOf, CodeOf
      <4>2. WitnessOf(request[p])'
        BY <3>3, <3>4, <3>5 DEF WitnessOf
      <4>3. ActivityOf(request[p])'
        BY <3>4, <3>5, <3>6 DEF RequestOK, ActivityOf
      <4>4. PermissionsOf(request[p])'
        BY <3>3, <3>5, <3>6 DEF RequestOK, PermissionsOf
      <4> QED  BY <4>1, <4>2, <4>3, <4>4 DEF RequestOK
    <3> QED  BY <3>5, <3>6
  <2> QED  BY <2>2, <2>3
<1>5. request' \in [Requests -> RequestRecord]
  <2>1. request' = [p \in Requests |-> request'[p]]
    BY DEF Witnessed
  <2> QED  BY <1>4, <2>1
<1>6. TypeOK'
  BY <1>1, <1>2, <1>5 DEF TypeOK, CountsOK
<1>7. RequestsInv'
  BY <1>1, <1>4 DEF RequestsInv
<1>8. OverlapInv' /\ EndedInv'
  BY <1>1, <1>4, OverlapKept, EndedKept DEF Running, Live
<1>9. CodesInv'
  <2>1. \A c \in Codes, s \in Sessions : PendingInRow(c, s)' => PendingInRow(c, s)
    BY <1>1 DEF PendingInRow, Live
  <2>2. \A c \in Codes, p \in Requests :
           PendingInRequest(c, p)' => PendingInRequest(c, p) /\ request'[p].sid = request[p].sid
    BY <1>4 DEF PendingInRequest, Running
  <2> QED  BY <1>1, <2>1, <2>2, CodesKept
<1> QED  BY <1>6, <1>7, <1>8, <1>9 DEF Inv

LEMMA CodeExpiresStep ==
  ASSUME Inv, NEW c \in Codes, CodeExpires(c)
  PROVE  Inv'
<1>1. /\ TypeOK /\ UNCHANGED <<account, granted, bypass, rows, request, cookie, counts,
                               sent, logins, overlapped, deleting, ended, undeleted>>
  BY DEF CodeExpires, Inv, history, store
<1>2. TypeOK'
  BY <1>1 DEF TypeOK, CodeExpires
<1>3. RequestsInv' /\ OverlapInv' /\ EndedInv' /\ CodesInv'
  BY <1>1 DEF Inv, RequestsInv, RequestOK, ShapeOf, WitnessOf, ActivityOf, PermissionsOf, CodeOf,
              OverlapInv, EndedInv, NobodyWrites, CodesInv, PendingInRow, PendingInRequest, Running, Live
<1> QED  BY <1>2, <1>3 DEF Inv

LEMMA SessionExpiresStep ==
  ASSUME Inv, NEW s \in Sessions, SessionExpires(s)
  PROVE  Inv'
<1>1. CountsOK'
  BY DEF SessionExpires, Inv, TypeOK, CountsOK
<1>2. /\ rows' \in [Sessions -> Session \union {None}]
      /\ \A t \in Sessions : rows'[t] = rows[t] \/ rows'[t] = None
      /\ deleting' = deleting /\ deleting \in [Sessions -> Nat]
  BY DEF SessionExpires, Inv, TypeOK
<1> QED  BY <1>1, <1>2, RowsGo DEF SessionExpires

-----------------------------------------------------------------------------
(* The theorems *)

LEMMA InvInit == Init => Inv
<1> SUFFICES ASSUME Init  PROVE Inv
  OBVIOUS
<1>1. TypeOK
  BY IdleRecord, SessionsAssumption DEF Init, TypeOK
<1>2. \A q \in Requests : request[q] = Idle /\ ~Running(q)
  BY IdleRecord DEF Init, Running
<1>3. RequestsInv /\ OverlapInv
  BY <1>2, IdleRecord DEF RequestsInv, OverlapInv
<1>4. EndedInv
  BY DEF Init, EndedInv
<1>5. \A s \in Sessions : ~Live(s)
  BY DEF Init, Live
<1>6. CodesInv
  BY <1>2, <1>5 DEF Init, CodesInv, PendingInRow, PendingInRequest
<1> QED  BY <1>1, <1>3, <1>4, <1>6 DEF Inv

LEMMA InvNext == Inv /\ [Next]_vars => Inv'
<1> SUFFICES ASSUME Inv, [Next]_vars  PROVE Inv'
  OBVIOUS
<1>1. TypeOK /\ RequestsInv /\ CountsOK
  BY DEF Inv, TypeOK, CountsOK
<1>2. ASSUME NEW q \in Requests, Request(q)  PROVE Inv'
  BY <1>2, RequestStep
<1>3. ASSUME NEW q \in Requests, Handle(q)  PROVE Inv'
  <2>1. CASE login(q)
    BY <1>1, <2>1, LoginGoesOn, GoesOnStep
  <2>2. CASE getVerifyOTP(q)
    BY <1>1, <2>2, CodePageGoesOn, GoesOnStep
  <2>3. CASE postVerifyOTP(q)
    BY <1>1, <2>3, VerifyGoesOn, GoesOnStep
  <2>4. CASE FreshUser(q)
    BY <1>1, <2>4, FreshUserGoesOn, GoesOnStep
  <2>5. CASE loadUserPermissions(q)
    BY <1>1, <2>5, PermissionsGoOn, GoesOnStep
  <2>6. CASE Regenerate(q)
    BY <2>6, RegenerateStep
  <2>7. CASE RegenerateFails(q)
    BY <2>7, RegenerateFailsStep
  <2>8. CASE RefillPermissions(q)
    BY <1>1, <2>8, RefillGoesOn, GoesOnStep
  <2>9. CASE isLoggedIn(q)
    BY <1>1, <2>9, PageGoesOn, GoesOnStep
  <2>10. CASE checkActiveUser(q) \/ InactiveIsLogged(q)
    BY <1>1, <2>10, ActiveGoesOn, GoesOnStep
  <2>11. CASE checkPermission(q) \/ openPage(q)
    BY <1>1, <2>11, PermissionCheckGoesOn, GoesOnStep
  <2>12. CASE keepAliveAPI(q)
    BY <1>1, <2>12, KeepAliveGoesOn, GoesOnStep
  <2>13. CASE logout(q)
    BY <1>1, <2>13, LogoutGoesOn, GoesOnStep
  <2>14. CASE Ends(q)
    BY <2>14, EndsStep
  <2>15. CASE logoutRedirects(q)
    BY <2>15, RedirectStep
  <2> QED  BY <1>3, <2>1, <2>2, <2>3, <2>4, <2>5, <2>6, <2>7, <2>8, <2>9, <2>10, <2>11, <2>12,
              <2>13, <2>14, <2>15 DEF Handle
<1>4. CASE toggleUserActive \/ deleteUser \/ updatePermissions
  <2>1. /\ Change /\ Witnessed
        /\ account' \in {"active", "inactive", "deleted"} /\ granted' \in Grantings
    BY <1>1, <1>4 DEF toggleUserActive, deleteUser, updatePermissions, TypeOK
  <2> QED  BY <2>1, ChangeStep
<1>5. ASSUME NEW c \in Codes, CodeExpires(c)  PROVE Inv'
  BY <1>5, CodeExpiresStep
<1>6. ASSUME NEW s \in Sessions, SessionExpires(s) \/ SessionDestroyed(s)  PROVE Inv'
  BY <1>6, SessionExpiresStep, SessionDestroyedStep
<1>7. CASE UNCHANGED vars
  BY <1>7 DEF vars, Inv, TypeOK, RequestsInv, RequestOK, ShapeOf, WitnessOf, ActivityOf,
              PermissionsOf, CodeOf, OverlapInv, EndedInv, NobodyWrites, CodesInv, PendingInRow,
              PendingInRequest, Running, Live
<1> QED  BY <1>2, <1>3, <1>4, <1>5, <1>6, <1>7 DEF Next

LEMMA InvHolds == Spec => []Inv
<1> QED  BY InvInit, InvNext, PTL DEF Spec

(* The account, the sessions table, the requests and the histories keep      *)
(* their types, whatever overlaps, changes or fails.                         *)
THEOREM TypeCorrect == Spec => []TypeOK
<1>1. Inv => TypeOK
  BY DEF Inv
<1> QED  BY <1>1, InvHolds, PTL

(* verifyOTP.js and checkActiveUser let only those in whose account was      *)
(* active since the request began, for any number of overlapping requests,   *)
(* changes of the account and failed queries: except through a failed query  *)
(* or, without a session, to a route that asks for nothing more.             *)
THEOREM OnlyActiveUsers == Spec => []OnlyTheActiveGetIn
<1>1. Inv => OnlyTheActiveGetIn
  BY DEF Inv, RequestsInv, RequestOK, ActivityOf, OnlyTheActiveGetIn
<1> QED  BY <1>1, InvHolds, PTL

(* The permissions loadUserPermissions() puts into a session were each held, *)
(* and not revoked, at times since the login began.                          *)
THEOREM PermissionsWereHeld == Spec => []PermissionsAreEffective
<1>1. Inv => PermissionsAreEffective
  BY DEF Inv, RequestsInv, RequestOK, PermissionsOf, PermissionsAreEffective
<1> QED  BY <1>1, InvHolds, PTL

(* A session whose destroy() was answered is gone for good, unless the       *)
(* DELETE failed or another request of the session had a copy of it.         *)
THEOREM EndedForGood == Spec => []EndedStaysEnded
<1>1. Inv => EndedStaysEnded
  BY DEF Inv, TypeOK, EndedInv, EndedStaysEnded
<1> QED  BY <1>1, InvHolds, PTL

(* A one-time code opens at most one session, unless requests of the session *)
(* it was issued to overlapped.                                              *)
THEOREM CodesAreUsedOnce == Spec => []OneLoginPerCode
<1>1. ASSUME Inv, NEW c \in Codes, sent[c] \notin overlapped
      PROVE  Cardinality(logins[c]) <= 1
  <2>1. logins[c] = {} \/ \E s : logins[c] = {s}
    BY <1>1 DEF Inv, CodesInv
  <2>2. Cardinality({}) = 0 /\ \A s : Cardinality({s}) = 1
    BY FS_EmptySet, FS_Singleton
  <2>3. Cardinality(logins[c]) = 0 \/ Cardinality(logins[c]) = 1
    BY <2>1, <2>2
  <2> QED  BY <2>3
<1>2. Inv => OneLoginPerCode
  BY <1>1 DEF OneLoginPerCode
<1> QED  BY <1>2, InvHolds, PTL
=============================================================================
