---------------------------- MODULE AdminSessions ----------------------------
(***************************************************************************)
(* Signing in to the admin panel and using it: routes/admin/auth (login,   *)
(* verifyOTP, logout), helpers/emailOTP.js, the middlewares isLoggedIn,    *)
(* checkActiveUser and checkPermission, the permission middleware of       *)
(* admin.router.js, for the requests of one browser, which may overlap,    *)
(* while administrators change the account and its permissions.            *)
(*                                                                         *)
(* express-session is external: it reads the session's row when a request  *)
(* comes, gives the request a copy of its own, and writes the copy back at *)
(* the end if the request changed it (resave: false); a cookie without a   *)
(* row gets a new session.  Every await is a step.                         *)
(***************************************************************************)
EXTENDS Naturals, FiniteSets

CONSTANTS
    Requests,     \* slots for requests that run at the same time
    Sessions,     \* session identifiers
    Codes,        \* one-time codes; each is issued once
    Permissions,
    Grantings,    \* what an administrator may grant: records like variable granted
    None,
    MaxRequests,  \* bounds of the model: requests that come,
    MaxChanges,   \* changes that administrators make,
    MaxFaults     \* queries that fail

ASSUME SessionsAssumption ==
    /\ None \notin Requests \union Sessions \union Codes
    /\ Grantings \subseteq [role : SUBSET Permissions, grants : SUBSET Permissions,
                            revokes : SUBSET Permissions]
    /\ MaxRequests \in Nat /\ MaxChanges \in Nat /\ MaxFaults \in Nat

VARIABLES
    account,     \* the row of the user: "active", "inactive" or "deleted"
    granted,     \* its role's permissions, and its grants and revokes
    rows,        \* the sessions table
    request,     \* what runs in each slot
    cookie,      \* the session identifier the browser sends
    expired,     \* codes older than five minutes
    bypass,      \* DEV_2FA_BYPASS
    counts,      \* requests, changes and failed queries so far
    sent,        \* sent[c]: the session code c was issued to
    logins,      \* history: logins[c]: sessions opened with code c
    overlapped,  \* history: sessions that two requests used at once
    deleting,    \* deleting[s]: calls of destroy() whose DELETE nobody waits for
    ended,       \* history: sessions whose destroy() was answered
    undeleted    \* history: those whose DELETE failed

vars == <<account, granted, rows, request, cookie, expired, bypass, counts, sent,
          logins, overlapped, deleting, ended, undeleted>>

database == <<account, granted, expired, bypass>>

history == <<sent, logins, overlapped, ended, undeleted>>

store == <<rows, deleting>>

-----------------------------------------------------------------------------

Blank == [user |-> FALSE, pending |-> None, permissions |-> {}, flash |-> FALSE]

Live(s) == rows[s] # None

(* gone: destroy() has been called, and req.session is undefined.            *)
Idle == [kind |-> "none", step |-> "over", sid |-> None, session |-> Blank, stored |-> None,
         code |-> None, base |-> {}, result |-> "none",
         gone |-> FALSE, wasActive |-> FALSE, queryFailed |-> FALSE, held |-> {}, unrevoked |-> {}]

Init ==
    /\ account = "active"
    /\ granted \in Grantings
    /\ rows = [s \in Sessions |-> None]
    /\ request = [q \in Requests |-> Idle]
    /\ cookie = None
    /\ expired = {}
    /\ bypass \in BOOLEAN
    /\ counts = [requests |-> 0, changes |-> 0, faults |-> 0]
    /\ sent = [c \in Codes |-> None]
    /\ logins = [c \in Codes |-> {}]
    /\ overlapped = {}
    /\ deleting = [s \in Sessions |-> 0]
    /\ ended = {}
    /\ undeleted = {}

Running(q) == request[q].step # "over"

Unused == {s \in Sessions : ~Live(s) /\ deleting[s] = 0 /\ s \notin ended /\ s # cookie
                             /\ \A q \in Requests : Running(q) => request[q].sid # s}

QueryFails ==
    /\ counts.faults < MaxFaults
    /\ counts' = [counts EXCEPT !.faults = @ + 1]

QueryAnswers == counts' = counts

(* Go on to a step; the fields of the request that change with it.           *)
Step(q, step, changes) ==
    request' = [request EXCEPT ![q] = [changes EXCEPT !.step = step]]

-----------------------------------------------------------------------------
(* A request begins: the session is loaded, and the message left for the     *)
(* next page is taken out of it.  admin.router.js looks for the permissions  *)
(* of a user who has none, whatever the page; the keep-alive is not its.     *)

FirstStep(kind, session) ==
    IF kind # "keepAlive" /\ session.user /\ session.permissions = {} THEN "refill" ELSE "handler"

Begins(q, kind, code, sid) ==
    /\ ~Running(q)
    /\ counts.requests < MaxRequests
    /\ counts' = [counts EXCEPT !.requests = @ + 1]
    /\ request' = [request EXCEPT ![q] =
         [Idle EXCEPT !.kind = kind, !.sid = sid, !.code = code,
                      !.step = FirstStep(kind, IF Live(sid) THEN rows[sid] ELSE Blank),
                      !.session = IF Live(sid) THEN [rows[sid] EXCEPT !.flash = FALSE] ELSE Blank,
                      !.stored = rows[sid],
                      !.wasActive = account = "active",
                      !.held = granted.role \union granted.grants,
                      !.unrevoked = Permissions \ granted.revokes]]
    /\ overlapped' = IF \/ \E p \in Requests : Running(p) /\ request[p].sid = sid
                        \/ deleting[sid] > 0
                     THEN overlapped \union {sid} ELSE overlapped
    /\ UNCHANGED <<database, store, cookie, sent, logins, ended, undeleted>>

Request(q) ==
    \E kind \in {"login", "codePage", "verify", "page", "openPage", "keepAlive", "logout"} :
    \E code \in (IF kind = "verify" THEN {c \in Codes : sent[c] # None} ELSE {None}) :
       IF cookie # None /\ Live(cookie)
       THEN Begins(q, kind, code, cookie)
       ELSE \E s \in Unused : Begins(q, kind, code, s)

(* The response: the browser learns the session identifier, and a session    *)
(* that was changed is written, whatever its row has become; a session that  *)
(* is gone does neither.                                                     *)
Ends(q) ==
    /\ request[q].step = "end"
    /\ rows' = IF ~request[q].gone /\ request[q].session # request[q].stored
               THEN [rows EXCEPT ![request[q].sid] = request[q].session] ELSE rows
    /\ cookie' = IF request[q].gone THEN cookie ELSE request[q].sid
    /\ request' = [request EXCEPT ![q] = Idle]
    /\ UNCHANGED <<database, counts, deleting, history>>

(* What came of the request, and what it leaves in its session.              *)
Result(q, result) == [request[q] EXCEPT !.result = result]

WithMessage(q, result) == [request[q] EXCEPT !.result = result, !.session.flash = TRUE]

(* pending2FA is deleted before the error is passed on.                      *)
WithoutPending(result) == [result EXCEPT !.session.pending = None]

-----------------------------------------------------------------------------
(* POST /admin/login *)

(* createOTPSession(): the code replaces one that is pending.                *)
createOTPSession(q) ==
    \E c \in Codes :
       /\ sent[c] = None
       /\ sent' = [sent EXCEPT ![c] = request[q].sid]
       /\ Step(q, "end", [WithMessage(q, "codeSent") EXCEPT !.session.pending = c])

(* DEV_2FA_BYPASS: the user is signed in without a code.                     *)
DevelopmentBypass(q) == Step(q, "role", request[q]) /\ UNCHANGED sent

(* The user is looked up and the password compared.                          *)
login(q) ==
    /\ request[q].kind = "login" /\ request[q].step = "handler"
    /\ \/ /\ QueryFails
          /\ Step(q, "end", Result(q, "error"))
          /\ UNCHANGED sent
       \/ /\ QueryAnswers
          /\ Step(q, "end", WithMessage(q, "error"))
          /\ UNCHANGED sent
       \/ /\ account = "active" /\ QueryAnswers
          /\ IF bypass THEN DevelopmentBypass(q) ELSE createOTPSession(q)
    /\ UNCHANGED <<database, store, cookie, logins, overlapped, ended, undeleted>>

-----------------------------------------------------------------------------
(* GET and POST /admin/verify-otp *)

(* A pending code that has expired is dropped.                               *)
getVerifyOTP(q) ==
    /\ request[q].kind = "codePage" /\ request[q].step = "handler"
    /\ LET pending == request[q].session.pending IN
       CASE pending = None      -> Step(q, "end", WithMessage(q, "redirected"))
         [] pending \in expired -> Step(q, "end", WithoutPending(WithMessage(q, "redirected")))
         [] OTHER               -> Step(q, "end", Result(q, "codeAsked"))
    /\ UNCHANGED <<database, store, cookie, counts, history>>

(* verifyOTP() of emailOTP.js.                                               *)
Valid(q) == request[q].code = request[q].session.pending /\ request[q].code \notin expired

postVerifyOTP(q) ==
    /\ request[q].kind = "verify" /\ request[q].step = "handler"
    /\ IF request[q].session.pending = None
       THEN Step(q, "end", WithMessage(q, "redirected"))
       ELSE IF Valid(q) THEN Step(q, "user", request[q])
                        ELSE Step(q, "end", WithMessage(q, "error"))
    /\ UNCHANGED <<database, store, cookie, counts, history>>

(* Mutant: only the code counts.                                             *)
FreshUserUnchecked(q) ==
    /\ request[q].step = "user"
    /\ Step(q, "role", request[q])
    /\ UNCHANGED <<database, store, cookie, counts, history>>

(* The account is looked up again, and must still be there and active.       *)
FreshUser(q) ==
    /\ request[q].step = "user"
    /\ \/ /\ QueryFails
          /\ Step(q, "end", WithoutPending(Result(q, "error")))
       \/ /\ account # "active" /\ QueryAnswers
          /\ Step(q, "end", WithoutPending(WithMessage(q, "error")))
       \/ /\ account = "active" /\ QueryAnswers
          /\ Step(q, "role", request[q])
    /\ UNCHANGED <<database, store, cookie, history>>

(* The permissions of the role.                                              *)
RolePermissions(q) ==
    /\ request[q].step = "role"
    /\ \/ /\ QueryFails
          /\ Step(q, "regenerate", [request[q] EXCEPT !.base = {}])
       \/ /\ QueryAnswers
          /\ Step(q, "overrides", [request[q] EXCEPT !.base = granted.role])
    /\ UNCHANGED <<database, store, cookie, history>>

(* Mutant: the grants are added last.                                        *)
EffectiveGrantsLast(base) == (base \ granted.revokes) \union granted.grants

(* The grants are added first, then the revokes taken away.                  *)
Effective(base) == (base \union granted.grants) \ granted.revokes

(* Those of the user.                                                        *)
Overrides(q) ==
    /\ request[q].step = "overrides"
    /\ \/ /\ QueryFails
          /\ Step(q, "regenerate", [request[q] EXCEPT !.base = {}])
       \/ /\ QueryAnswers
          /\ Step(q, "regenerate", [request[q] EXCEPT !.base = Effective(request[q].base)])
    /\ UNCHANGED <<database, store, cookie, history>>

(* Two queries; a failure leaves no permission.                              *)
loadUserPermissions(q) == RolePermissions(q) \/ Overrides(q)

(* Mutant: the session keeps its identifier, and the code stays in it.       *)
RegenerateKeepsSession(q) ==
    /\ request[q].step = "regenerate"
    /\ Step(q, "end", [WithMessage(q, "loggedIn") EXCEPT
                          !.session.user = TRUE, !.session.permissions = request[q].base])
    /\ \E s \in Unused :
          logins' = [c \in Codes |-> IF c = request[q].code THEN logins[c] \union {s} ELSE logins[c]]
    /\ UNCHANGED <<database, store, cookie, counts, sent, overlapped, ended, undeleted>>

(* session.regenerate(): the row of the old session goes, and with it the    *)
(* pending code; a new session gets the user and is saved.                   *)
Regenerate(q) ==
    /\ request[q].step = "regenerate"
    /\ \E s \in Unused :
          /\ rows' = [rows EXCEPT ![request[q].sid] = None,
                                  ![s] = [Blank EXCEPT !.user = TRUE, !.permissions = request[q].base]]
          /\ Step(q, "end", [WithMessage(q, "loggedIn") EXCEPT
                                !.sid = s, !.stored = Blank,
                                !.session.user = TRUE, !.session.pending = None,
                                !.session.permissions = request[q].base])
          /\ logins' = [c \in Codes |-> IF request[q].kind = "verify" /\ c = request[q].code
                                        THEN logins[c] \union {s} ELSE logins[c]]
    /\ UNCHANGED <<database, cookie, counts, sent, overlapped, deleting, ended, undeleted>>

(* Sessions that a request has destroyed and the database has not answered.  *)
BeingDestroyed ==
    {s \in Sessions : \/ deleting[s] > 0
                      \/ \E q \in Requests : request[q].step = "destroying" /\ request[q].sid = s}

(* An error of the sessions table is thrown inside a callback of             *)
(* session.regenerate() or session.save(): nobody catches it, and the        *)
(* process ends with every request in it, and with the answers of deletions. *)
RegenerateFails(q) ==
    /\ request[q].step = "regenerate"
    /\ QueryFails
    /\ request' = [p \in Requests |-> Idle]
    /\ \E away \in SUBSET ({request[q].sid} \union BeingDestroyed) :
          rows' = [s \in Sessions |-> IF s \in away THEN None ELSE rows[s]]
    /\ deleting' = [s \in Sessions |-> 0]
    /\ UNCHANGED <<database, cookie, history>>

-----------------------------------------------------------------------------
(* GET of a page behind isLoggedInAndActive and checkPermission *)

(* A session without permissions gets those of its role.                     *)
RefillPermissions(q) ==
    /\ request[q].step = "refill"
    /\ \/ QueryFails /\ Step(q, "handler", request[q])
       \/ QueryAnswers /\ Step(q, "handler", [request[q] EXCEPT !.session.permissions = granted.role])
    /\ UNCHANGED <<database, store, cookie, history>>

isLoggedIn(q) ==
    /\ request[q].kind \in {"page", "openPage"} /\ request[q].step = "handler"
    /\ IF request[q].session.user
       THEN Step(q, "active", request[q])
       ELSE Step(q, "end", Result(q, "redirected"))
    /\ UNCHANGED <<database, store, cookie, counts, history>>

(* Mutant: the session is kept for the message, and only its row deleted.    *)
destroyRow(q) ==
    /\ deleting' = [deleting EXCEPT ![request[q].sid] = @ + 1]
    /\ Step(q, "end", WithMessage(q, "redirected"))

(* session.destroy() takes req.session away at once; its DELETE runs while   *)
(* req.flash() throws, as there is no session, and the catch block calls     *)
(* next(): the request goes on to the page without a session.                *)
destroy(q) ==
    /\ deleting' = [deleting EXCEPT ![request[q].sid] = @ + 1]
    /\ Step(q, "permission", [request[q] EXCEPT !.gone = TRUE])

(* The database answers a DELETE: the row goes, or an error is logged.       *)
DeleteAnswers(s) ==
    /\ ended' = ended \union {s}
    /\ \/ /\ QueryAnswers
          /\ rows' = [rows EXCEPT ![s] = None]
          /\ UNCHANGED undeleted
       \/ /\ QueryFails
          /\ undeleted' = undeleted \union {s}
          /\ UNCHANGED rows

SessionDestroyed(s) ==
    /\ deleting[s] > 0
    /\ deleting' = [deleting EXCEPT ![s] = @ - 1]
    /\ DeleteAnswers(s)
    /\ UNCHANGED <<database, request, cookie, sent, logins, overlapped>>

(* checkActiveUser(): the session of an account that is gone is destroyed,   *)
(* that of an inactive one after an entry in the log. A failed query lets    *)
(* the request through.                                                      *)
checkActiveUser(q) ==
    /\ request[q].step = "active"
    /\ \/ account = "deleted" /\ QueryAnswers /\ destroy(q)
       \/ /\ account = "inactive" /\ QueryAnswers
          /\ Step(q, "inactive", request[q])
          /\ UNCHANGED deleting
       \/ /\ account = "active" /\ QueryAnswers
          /\ Step(q, "permission", request[q])
          /\ UNCHANGED deleting
       \/ /\ QueryFails
          /\ Step(q, "permission", [request[q] EXCEPT !.queryFailed = TRUE])
          /\ UNCHANGED deleting
    /\ UNCHANGED <<database, rows, cookie, history>>

InactiveIsLogged(q) ==
    /\ request[q].step = "inactive"
    /\ destroy(q)
    /\ UNCHANGED <<database, rows, cookie, counts, history>>

(* Without a session it throws. The page may leave a message for the next.   *)
checkPermission(q) ==
    /\ request[q].step = "permission" /\ request[q].kind = "page"
    /\ \/ request[q].gone /\ Step(q, "end", Result(q, "error"))
       \/ /\ ~request[q].gone
          /\ \E p \in Permissions :
                IF p \in request[q].session.permissions
                THEN \/ Step(q, "end", Result(q, "served"))
                     \/ Step(q, "end", WithMessage(q, "served"))
                ELSE Step(q, "end", WithMessage(q, "redirected"))
    /\ UNCHANGED <<database, store, cookie, counts, history>>

(* Routes that neither ask for a permission nor look at the session.         *)
openPage(q) ==
    /\ request[q].step = "permission" /\ request[q].kind = "openPage"
    /\ Step(q, "end", Result(q, "served"))
    /\ UNCHANGED <<database, store, cookie, counts, history>>

keepAliveAPI(q) ==
    /\ request[q].kind = "keepAlive" /\ request[q].step = "handler"
    /\ Step(q, "end", Result(q, IF request[q].session.user THEN "alive" ELSE "error"))
    /\ UNCHANGED <<database, store, cookie, counts, history>>

(* GET /admin/logout: the activity is logged, and destroy() called.          *)
logout(q) ==
    /\ request[q].kind = "logout" /\ request[q].step = "handler"
    /\ Step(q, "destroying", [request[q] EXCEPT !.gone = TRUE])
    /\ UNCHANGED <<database, store, cookie, counts, history>>

(* The callback of destroy() redirects to the login page in any case.        *)
logoutRedirects(q) ==
    /\ request[q].step = "destroying"
    /\ DeleteAnswers(request[q].sid)
    /\ request' = [request EXCEPT ![q] = Idle]
    /\ UNCHANGED <<database, cookie, deleting, sent, logins, overlapped>>

-----------------------------------------------------------------------------
(* Others *)

Change ==
    /\ counts.changes < MaxChanges
    /\ counts' = [counts EXCEPT !.changes = @ + 1]
    /\ UNCHANGED <<store, cookie, expired, bypass, history>>

(* What is true of the account at some time while a request runs.            *)
Witnessed ==
    request' = [q \in Requests |->
                  IF ~Running(q) THEN request[q]
                  ELSE [request[q] EXCEPT
                          !.wasActive = @ \/ account' = "active",
                          !.held = @ \union granted'.role \union granted'.grants,
                          !.unrevoked = @ \union (Permissions \ granted'.revokes)]]

toggleUserActive ==
    /\ Change
    /\ account \in {"active", "inactive"}
    /\ account' = IF account = "active" THEN "inactive" ELSE "active"
    /\ UNCHANGED granted
    /\ Witnessed

deleteUser ==
    /\ Change
    /\ account # "deleted"
    /\ account' = "deleted"
    /\ UNCHANGED granted
    /\ Witnessed

updatePermissions ==
    /\ Change
    /\ granted' \in Grantings \ {granted}
    /\ UNCHANGED account
    /\ Witnessed

CodeExpires(c) ==
    /\ sent[c] # None /\ c \notin expired
    /\ expired' = expired \union {c}
    /\ UNCHANGED <<account, granted, bypass, store, request, cookie, counts, history>>

(* 24 hours without a request: clearExpired deletes the row.                 *)
SessionExpires(s) ==
    /\ Live(s)
    /\ \A q \in Requests : Running(q) => request[q].sid # s
    /\ rows' = [rows EXCEPT ![s] = None]
    /\ UNCHANGED <<database, request, cookie, counts, deleting, history>>

Handle(q) ==
    \/ login(q)
    \/ getVerifyOTP(q) \/ postVerifyOTP(q) \/ FreshUser(q) \/ loadUserPermissions(q)
    \/ Regenerate(q) \/ RegenerateFails(q)
    \/ RefillPermissions(q)
    \/ isLoggedIn(q) \/ checkActiveUser(q) \/ InactiveIsLogged(q) \/ checkPermission(q) \/ openPage(q)
    \/ keepAliveAPI(q) \/ logout(q) \/ logoutRedirects(q)
    \/ Ends(q)

Next ==
    \/ \E q \in Requests : Request(q) \/ Handle(q)
    \/ toggleUserActive \/ deleteUser \/ updatePermissions
    \/ \E c \in Codes : CodeExpires(c)
    \/ \E s \in Sessions : SessionExpires(s) \/ SessionDestroyed(s)

Spec == Init /\ [][Next]_vars
-----------------------------------------------------------------------------
(* Properties *)

(* verifyOTP.js and checkActiveUser look the account up again: nobody gets a *)
(* session, or a page with one, without the account having been active at    *)
(* some time since that very request began, however old the session or the   *)
(* code. A failed query of checkActiveUser lets a request through; and a     *)
(* route that asks for nothing more serves it though its session is gone.    *)
OnlyTheActiveGetIn ==
    \A q \in Requests :
       request[q].result \in {"loggedIn", "served"} /\ ~request[q].queryFailed =>
          \/ request[q].wasActive
          \/ request[q].kind = "openPage" /\ request[q].gone

(* A code opens one session, because regenerate() drops the session it is    *)
(* pending in; this takes requests of one session that do not overlap.       *)
OneLoginPerCode ==
    \A c \in Codes : sent[c] \notin overlapped => Cardinality(logins[c]) <= 1

(* Once destroy() is answered a session is gone and does not come back,      *)
(* though checkActiveUser lets the request go on while the DELETE runs:      *)
(* unless the DELETE failed, which is only logged, or another request of the *)
(* session had a copy then and writes it back.                               *)
EndedStaysEnded == \A s \in ended : Live(s) => s \in overlapped \/ s \in undeleted

(* loadUserPermissions(): each permission of a session was the role's or     *)
(* granted, and not revoked, at times since the login began. (What           *)
(* admin.router.js refills later comes from the role alone.)                 *)
PermissionsAreEffective ==
    \A q \in Requests :
       request[q].result = "loggedIn" =>
          request[q].session.permissions \subseteq (request[q].held \intersect request[q].unrevoked)
=============================================================================
