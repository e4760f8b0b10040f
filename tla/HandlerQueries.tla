--------------------------- MODULE HandlerQueries ---------------------------
(***************************************************************************)
(* What the request handlers ask of MySQL: for each handler, the sequence  *)
(* of its awaited db.query() calls.  A cell is a handful of rows that the  *)
(* queries of one request touch together: the permissions of one role or   *)
(* of one user, the row under one unique name, one user, the active        *)
(* settings.  A query that only feeds the log or a validation is a Read.   *)
(* logActivity() catches its errors, so Log cannot fail.                   *)
(***************************************************************************)
EXTENDS Naturals, Sequences

Query(op, cell, rows) == [op |-> op, cell |-> cell, rows |-> rows, guarded |-> FALSE]

Begin == Query("begin", "none", {})

Commit == Query("commit", "none", {})

Rollback == Query("rollback", "none", {})

Log == Query("log", "none", {})

(* A SELECT whose answer the handler keeps.                                  *)
Read(cell) == Query("read", cell, {})

(* A SELECT whose answer decides: without such a row the request is refused; *)
(* with such a row it is refused; with such a row the next two are left out. *)
Present(cell, rows) == Query("present", cell, rows)

Absent(cell, rows) == Query("absent", cell, rows)

SkipIf(cell, rows) == Query("skipIf", cell, rows)

(* DELETE; INSERT of rows with a primary key of their own; INSERT of the one  *)
(* row that a unique index allows; UPDATE that gives a row the name.         *)
Clear(cell) == Query("clear", cell, {})

Insert(cell, rows) == Query("insert", cell, rows)

InsertUnique(cell, row) == Query("insertUnique", cell, {row})

Rename(cell, row) == Query("rename", cell, {row})

(* UPDATE; UPDATE to the opposite of what was read; UPDATE of every row if    *)
(* any was read, INSERT otherwise.                                           *)
Set(cell, row) == Query("set", cell, {row})

Negate(cell) == Query("negate", cell, {})

Save(cell) == Query("save", cell, {})

(* The queries of a try block whose catch sends ROLLBACK.                    *)
Guarded(queries) == [i \in DOMAIN queries |-> [queries[i] EXCEPT !.guarded = TRUE]]

-----------------------------------------------------------------------------
(* Named records: role_name, permission_name and name have unique indexes,   *)
(* which do not look at deleted_at.                                          *)

CreateNamed(name) == <<Absent(name, {"live", "renamed"}), InsertUnique(name, "live"), Log>>

DeleteNamed(name) == <<Present(name, {"live"}), Set(name, "deleted"), Log>>

createRole(name) == CreateNamed(name)

createPermission(name) == CreateNamed(name)

createNewAIModel(name) == CreateNamed(name)

createNewAIUseCase(name) == CreateNamed(name)

deleteRole(name) == DeleteNamed(name)

deletePermission(name) == DeleteNamed(name)

deleteAIModel(name) == DeleteNamed(name)

deleteAIUseCase(name) == DeleteNamed(name)

(* The record of cell "other" takes the name; only the AI handlers look      *)
(* whether another record has it.                                            *)
RenameTo(name) == <<Present("other", {"live"}), Rename(name, "renamed"), Log>>

RenameToFree(name) ==
    <<Present("other", {"live"}), Absent(name, {"live"}), Rename(name, "renamed"), Log>>

updateRole(name) == RenameTo(name)

updatePermission(name) == RenameTo(name)

updateAIModel(name) == RenameToFree(name)

updateAIUseCase(name) == RenameToFree(name)

-----------------------------------------------------------------------------
(* Users: one cell each, under the unique index on email.                    *)

Accounts == {"active", "inactive"}

AnyAccount == Accounts \union {"deleted", "deletedActive"}

createNewUser(cell) ==
    <<Present("role", {"live"}), Absent(cell, AnyAccount), InsertUnique(cell, "active"), Log>>

(* A row whose address is taken is skipped.                                  *)
UploadRow(cell) == <<SkipIf(cell, AnyAccount), InsertUnique(cell, "active"), Log>>

uploadNewUser(first, second) ==
    <<Read("role")>> \o UploadRow(first) \o UploadRow(second) \o <<Log>>

(* The status read decides the status written, whatever it is by then.       *)
toggleUserActive(cell) == <<Present(cell, Accounts), Negate(cell), Log>>

deleteUser(cell) == <<Present(cell, Accounts), Set(cell, "deleted"), Log>>

(* The current password is compared with what was read, then overwritten.    *)
changePassword(current, new) == <<Present("password", {current}), Set("password", new), Log>>

-----------------------------------------------------------------------------
(* Sets of permissions, replaced in a transaction.                           *)

updateRolePermissions(asked) ==
    <<Present("role", {"live"}), Read("none"), Read("rolePermissions"), Begin>>
       \o Guarded(<<Clear("rolePermissions")>>
                    \o (IF asked = {} THEN <<>> ELSE <<Insert("rolePermissions", asked)>>)
                    \o <<Read("rolePermissions"), Commit, Log>>)

(* updateUserPermissionOverrides(): one INSERT per grant, then per revoke.   *)
updateUserPermissionOverrides(granted, revoked) ==
    Guarded(<<Begin, Clear("userPermissions")>>
              \o [i \in DOMAIN granted |-> Insert("userPermissions", {<<granted[i], "grant">>})]
              \o [i \in DOMAIN revoked |-> Insert("userPermissions", {<<revoked[i], "revoke">>})]
              \o <<Commit>>)

updateUserPermissions(granted, revoked) ==
    <<Present("user1", Accounts), Read("none"), Read("userPermissions")>>
       \o updateUserPermissionOverrides(granted, revoked)
       \o <<Read("userPermissions"), Log>>

-----------------------------------------------------------------------------

(* No index keeps the active settings single.                                *)
updateSettings == <<Present("model", {"live"}), Read("settings"), Save("settings"), Log>>

-----------------------------------------------------------------------------
(* Handlers that only read. One whose read fails ends there, whether it      *)
(* shows an error or makes do without the rows; layout follows the reads.    *)

Reads(n) == [i \in 1..n |-> Read("none")]

(* A connection is taken, pinged and released.                               *)
testConnection == Reads(1)

getHealthAPI == testConnection

getHealthReadyzAPI == testConnection

healthAPI == testConnection

getHealthDetailedAPI == Reads(1)

loginAPI == <<Present("user1", AnyAccount), Log>>

getChatPage == Reads(3)

searchConversations == Reads(1)

getAIAnalysisSettingsPage == <<Read("model"), Read("settings")>>

getActiveSettings == <<Read("settings")>>

(* Those of the four filters; the entries come through the cache.            *)
getLogPage == Reads(1) \o Reads(4)

downloadLogData == Reads(1)

downloadUserData == Reads(1) \o <<Log>>

downloadUserTemplate == <<Read("role"), Log>>

getStats == Reads(1)

getRecentFailedJobs == Reads(1)

getQueueStatsPage == getStats \o getRecentFailedJobs

getUserEffectivePermissions == <<Read("rolePermissions"), Read("userPermissions")>>

getUserPermissionData ==
    <<Read("none"), Read("rolePermissions"), Read("userPermissions")>>
       \o getUserEffectivePermissions

getUserPermissionsPage == <<Present("user1", Accounts)>> \o getUserPermissionData
=============================================================================
