---------------------------- MODULE CachedPages ----------------------------
(***************************************************************************)
(* The pages that handlers cache with handleCache(), and the updates that  *)
(* call invalidateCache(): for a page, its key (in segments, without the   *)
(* common prefix) and the tables its query reads; for an update, the       *)
(* tables it writes and the patterns it invalidates (without ":*"), in     *)
(* order.  One user, one conversation, one search stand for all.           *)
(***************************************************************************)

User == "1"

Chat == "7"

Search == "search"

Cached(key, tables) == [key |-> key, reads |-> tables]

Update(tables, patterns) == [writes |-> tables, clears |-> patterns]

-----------------------------------------------------------------------------
(* Pages *)

getPermissionsPage == Cached(<<"admin", "permissions", "list">>, {"permissions"})

getRolesPage ==
    Cached(<<"admin", "permissions", "roles">>, {"roles", "permissions", "role_permissions"})

getUserPermissionsPage ==
    Cached(<<"admin", "user", User, "permissions">>,
           {"users", "roles", "permissions", "role_permissions", "user_permissions"})

getAllUsersPage == Cached(<<"users", "roles", "list">>, {"roles"})

getUserOverviewPage == Cached(<<"admin", "users", "overview">>, {"users", "roles"})

getUsersDataTable == Cached(<<"datatable", "users", Search>>, {"users", "roles"})

getUserProfilePage == Cached(<<"user", "profile", User>>, {"users", "roles"})

getQueueStatsPage == Cached(<<"admin", "queue", "stats">>, {"jobs"})

getAllJobsPage == Cached(<<"admin", "queue", "jobs-metadata", "all">>, {"jobs"})

getFailedJobsPage == Cached(<<"admin", "queue", "failed-jobs-metadata">>, {"jobs"})

getAllJobsDataTable == Cached(<<"datatable", "jobs", Search>>, {"jobs"})

getFailedJobsDataTable == Cached(<<"datatable", "failed-jobs", Search>>, {"jobs"})

getLogsPage == Cached(<<"admin", "logs", "filtered", Search>>, {"activity_logs"})

getLogsDataTable == Cached(<<"datatable", "logs", Search>>, {"activity_logs"})

getAIModelsPage == Cached(<<"admin", "ai_models", "list">>, {"ai_models"})

getAllAIModels == Cached(<<"api", "ai_models", "active">>, {"ai_models"})

getAllAIModelsAPI == Cached(<<"api", "ai_models", "all">>, {"ai_models"})

getAIUseCasesPage == Cached(<<"admin", "ai_use_cases", "list">>, {"ai_use_cases", "roles"})

getAllAIUseCases == Cached(<<"api", "ai_use_cases", "active", "Admin">>, {"ai_use_cases"})

getConversation ==
    Cached(<<"chat", "conversation", Chat, "user", User>>,
           {"ai_conversations", "ai_messages", "ai_use_cases", "ai_models"})

getUserConversations ==
    Cached(<<"chat", "user", User, "conversations">>,
           {"ai_conversations", "ai_use_cases", "ai_models"})

testCache == Cached(<<"test", "sample_data">>, {"users", "activity_logs"})

PermissionPages == {getPermissionsPage, getRolesPage, getUserPermissionsPage}

QueuePages == {getQueueStatsPage, getAllJobsPage, getFailedJobsPage,
               getAllJobsDataTable, getFailedJobsDataTable}

ModelPages == {getAIModelsPage, getAllAIModels, getAllAIModelsAPI}

AllPages ==
    PermissionPages \union QueuePages \union ModelPages \union
    { getAllUsersPage, getUserOverviewPage, getUsersDataTable, getUserProfilePage,
      testCache, getLogsPage, getLogsDataTable, getAIUseCasesPage, getAllAIUseCases,
      getConversation, getUserConversations }

-----------------------------------------------------------------------------
(* Updates *)

PermissionPatterns == << <<"permissions">> >>

createRole == Update({"roles"}, PermissionPatterns)

updateRole == Update({"roles"}, PermissionPatterns)

deleteRole == Update({"roles"}, PermissionPatterns)

updateRolePermissions ==
    Update({"role_permissions"}, << <<"permissions">>, <<"users">> >>)

createPermission == Update({"permissions"}, PermissionPatterns)

updatePermission == Update({"permissions"}, PermissionPatterns)

deletePermission == Update({"permissions"}, PermissionPatterns)

updateUserPermissions ==
    Update({"user_permissions"},
           << <<"permissions">>, <<"users">>, <<"datatable", "users">>, <<"users", User>> >>)

createNewUser ==
    Update({"users"}, << <<"users">>, <<"datatable", "users">>, <<"user">> >>)

uploadNewUser ==
    Update({"users"}, << <<"users">>, <<"datatable", "users">>, <<"users">> >>)

UserPatterns == << <<"users">>, <<"datatable", "users">>, <<"users", User>> >>

toggleUserActive == Update({"users"}, UserPatterns)

deleteUser == Update({"users"}, UserPatterns)

changePassword == Update({"users"}, << <<"users", User>>, <<"users">> >>)

sendTestJob ==
    Update({"jobs"}, << <<"queue">>, <<"datatable", "jobs">>, <<"datatable", "failed-jobs">> >>)

retryFailedJobsAction ==
    Update({"jobs"},
           << <<"admin", "queue">>, <<"datatable", "jobs">>, <<"datatable", "failed-jobs">> >>)

(* The worker's verdicts change the jobs table as well. *)
updateJobStatus == Update({"jobs"}, <<>>)

logActivity == Update({"activity_logs"}, << <<"logs">>, <<"datatable", "logs">> >>)

ModelPatterns == << <<"admin", "ai_models">>, <<"api", "ai_models">> >>

createNewAIModel == Update({"ai_models"}, ModelPatterns)

updateAIModel == Update({"ai_models"}, ModelPatterns)

deleteAIModel == Update({"ai_models"}, ModelPatterns)

UseCasePatterns == << <<"admin", "ai_use_cases">>, <<"api", "ai_use_cases">> >>

createNewAIUseCase == Update({"ai_use_cases"}, UseCasePatterns)

updateAIUseCase == Update({"ai_use_cases"}, UseCasePatterns)

deleteAIUseCase == Update({"ai_use_cases"}, UseCasePatterns)

createConversation == Update({"ai_conversations"}, << <<"chat", "user", User>> >>)

ConversationPatterns == << <<"chat", "conversation", Chat>>, <<"chat", "user", User>> >>

updateConversationTitle == Update({"ai_conversations"}, ConversationPatterns)

deleteConversation == Update({"ai_conversations"}, ConversationPatterns)

MessagePatterns == << <<"chat", "conversation", Chat>> >>

editMessageOnly == Update({"ai_messages"}, MessagePatterns)

(* The message is changed and what follows it deleted; the pattern is        *)
(* invalidated only after the new answer is stored, if it ever is.           *)
editMessageStreamDiscards == Update({"ai_messages"}, <<>>)

editMessageStreamAnswers == Update({"ai_messages", "ai_conversations"}, MessagePatterns)

deleteMessage == Update({"ai_messages"}, MessagePatterns)

sendMessageStream == Update({"ai_messages", "ai_conversations"}, <<>>)

(* The cache's own pages: every key of the program has its prefix, which is  *)
(* left out here, as the empty pattern is.                                   *)
flushCache == Update({}, << <<>> >>)

invalidateCache(pattern) == Update({}, <<pattern>>)

(* Their counterparts under /api.                                            *)
flushCacheAPI == flushCache

invalidateCacheAPI(pattern) == invalidateCache(pattern)

CacheActions == {flushCache, flushCacheAPI, invalidateCache(<<"datatable">>),
                 invalidateCacheAPI(<<"admin", "permissions">>)}

PermissionUpdates ==
    { createRole, updateRole, deleteRole, updateRolePermissions,
      createPermission, updatePermission, deletePermission, updateUserPermissions }

JobActions == {sendTestJob, retryFailedJobsAction}

ModelUpdates == {createNewAIModel, updateAIModel, deleteAIModel}

AllUpdates ==
    PermissionUpdates \union JobActions \union ModelUpdates \union CacheActions \union
    { createNewUser, uploadNewUser, toggleUserActive, deleteUser, changePassword,
      updateJobStatus, logActivity, createNewAIUseCase, updateAIUseCase, deleteAIUseCase,
      createConversation, updateConversationTitle, deleteConversation, editMessageOnly,
      editMessageStreamDiscards, editMessageStreamAnswers, deleteMessage, sendMessageStream }
=============================================================================
