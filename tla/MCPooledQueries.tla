--------------------------- MODULE MCPooledQueries ---------------------------
(* A small instance: one cell of each kind.                                  *)
EXTENDS PooledQueries

MCInitial ==
    [role |-> {"live"}, other |-> {"live"}, newName |-> {}, oldName |-> {"deleted"},
     model |-> {"live"}, user1 |-> {"active"}, user2 |-> {}, user3 |-> {},
     password |-> {"old"}, rolePermissions |-> {"view"}, userPermissions |-> {<<"view", "grant">>},
     settings |-> {}]

roles == updateRolePermissions({"edit"})

clearing == updateRolePermissions({})

overrides == updateUserPermissions(<<"edit">>, <<"view">>)

CONSTANTS r1, r2

Readers ==
    {getHealthAPI, getHealthReadyzAPI, getHealthDetailedAPI, healthAPI, loginAPI, getChatPage,
     searchConversations, getAIAnalysisSettingsPage, getActiveSettings, getLogPage,
     downloadLogData, downloadUserData, downloadUserTemplate, getQueueStatsPage,
     getUserPermissionsPage}

(* Every handler alone, and those together that touch the same rows or that  *)
(* a transaction can come between.                                           *)
Singles ==
    {roles, clearing, overrides, createRole("newName"), createPermission("oldName"),
     deleteRole("other"), updateRole("newName"), updateAIUseCase("newName"), createNewUser("user2"),
     uploadNewUser("user2", "user3"), toggleUserActive("user1"), deleteUser("user1"),
     changePassword("old", "new"), updateSettings} \union Readers

Pairs ==
    {<<roles, clearing>>, <<roles, overrides>>, <<roles, createRole("newName")>>,
     <<overrides, toggleUserActive("user1")>>, <<roles, getUserPermissionsPage>>,
     <<createRole("newName"), createRole("newName")>>,
     <<createNewAIModel("newName"), updateAIModel("newName")>>,
     <<createPermission("newName"), updatePermission("newName")>>,
     <<createNewAIUseCase("newName"), deleteAIUseCase("other")>>,
     <<createNewUser("user3"), uploadNewUser("user2", "user3")>>,
     <<toggleUserActive("user1"), deleteUser("user1")>>,
     <<changePassword("old", "new"), changePassword("old", "newer")>>,
     <<updateSettings, updateSettings>>,
     <<deletePermission("other"), deleteAIModel("other")>>}

MCMixes ==
    {[r \in {r1, r2} |-> IF r = r1 THEN p ELSE <<>>] : p \in Singles} \union
    {[r \in {r1, r2} |-> IF r = r1 THEN p[1] ELSE p[2]] : p \in Pairs}
=============================================================================
