----------------------- MODULE ArtifactoryOperations -------------------------
(* artifactory/services and artifactory/manager.go: the methods that manage   *)
(* an Artifactory server, each in the terms of RemoteOperation, and the sets  *)
(* of methods the manager offers for one kind of thing.  dryRun is the DryRun *)
(* of the manager's configuration.                                            *)
EXTENDS RemoteOperation

-----------------------------------------------------------------------------
(* users.go *)

GetUser     == Get({404})
GetAllUsers == List

\* Without ReplaceIfExists the user is looked up, and the PUT replaces it all the same.
CreateUser(replace) ==
    IF replace THEN Put({200, 201})
    ELSE [Put({200, 201}) EXCEPT !.lookup = "absent", !.keeps = "existing"]

\* Changed: the fields that are not set are sent too.
UpdateUserWhole(clearGroups) ==
    [Merge({200, 201}) EXCEPT !.sends = IF clearGroups THEN "clear" ELSE "all"]

\* ClearGroups sends an empty list; a nil list is left out.
UpdateUser(clearGroups) ==
    [Merge({200, 201}) EXCEPT !.sends = IF clearGroups THEN "clear" ELSE "set"]

DeleteUser     == Delete({200})
GetLockedUsers == List
UnlockUser     == Act({200})

UserMethods ==
    {GetUser, GetAllUsers, CreateUser(TRUE), CreateUser(FALSE), UpdateUser(TRUE),
     UpdateUser(FALSE), DeleteUser, GetLockedUsers, UnlockUser}

-----------------------------------------------------------------------------
(* groups.go *)

GetAllGroups == List
GetGroup     == Get({404})
CreateGroup(replace) ==
    IF replace THEN Put({200, 201})
    ELSE [Put({200, 201}) EXCEPT !.lookup = "absent", !.keeps = "existing"]

\* Changed: a refusal is taken for success.
UpdateGroupRefused == Merge({200, 400})
UpdateGroup  == Merge({200})
DeleteGroup  == Delete({200})

GroupMethods == {GetAllGroups, GetGroup, CreateGroup(TRUE), CreateGroup(FALSE), UpdateGroup, DeleteGroup}

-----------------------------------------------------------------------------
(* repository.go, repositories.go, deleterepository.go.  The server refuses   *)
(* to create a repository that exists.                                        *)

CreateRepository == Create({200}, {})
UpdateRepository == Merge({200})
DeleteRepository == Delete({200})
GetRepository    == Get({})
GetRepositories  == List

\* IsExists: whatever is not a 200 says that there is none.
IsRepoExists == [Get({400, 401, 403, 404}) EXCEPT !.decodes = FALSE]

RepositoryMethods ==
    {CreateRepository, UpdateRepository, DeleteRepository, GetRepository, GetRepositories, IsRepoExists}

-----------------------------------------------------------------------------
(* permissiontarget.go *)

CreatePermissionTarget == Create({200, 201}, {409})
UpdatePermissionTarget == [Overwrite({200, 201}) EXCEPT !.conflict = {409}]
DeletePermissionTarget == Delete({200})

\* Changed: a target the caller may not see is reported as absent.
GetPermissionTargetForbidden == Get({403, 404})
GetPermissionTarget == Get({404})

PermissionMethods ==
    {CreatePermissionTarget, UpdatePermissionTarget, DeletePermissionTarget, GetPermissionTarget}

-----------------------------------------------------------------------------
(* createreplication.go, updatereplication.go, getreplication.go,             *)
(* deleteReplication.go.  The body has every field, set or not.               *)

CreateReplication == [Put({200, 201}) EXCEPT !.sends = "all"]
UpdateReplication == [Merge({200, 201}) EXCEPT !.sends = "all"]
DeleteReplication == Delete({200})
GetReplication    == Get({})

ReplicationMethods == {CreateReplication, UpdateReplication, DeleteReplication, GetReplication}

-----------------------------------------------------------------------------
(* security.go *)

CreateAPIKey     == Decoding(Create({201}, {}))
RegenerateAPIKey == Decoding(Overwrite({200}))
\* The server answers 200 with an empty object when there is no key.
GetAPIKey        == Find({Empty})

KeyMethods == {CreateAPIKey, RegenerateAPIKey, GetAPIKey}

CreateToken   == Decoding(Issue({200}))
RefreshToken  == Decoding(Issue({200}))
RevokeToken   == Delete({200})
GetTokens     == List
GetUserTokens == GetTokens

TokenMethods == {CreateToken, RefreshToken, RevokeToken, GetUserTokens}

-----------------------------------------------------------------------------
(* system.go, storage.go, federation.go, ping.go *)

\* The thing is the encryption: it is there or not.
ActivateKeyEncryption   == [Put({200, 201}) EXCEPT !.sends = "nothing"]
DeactivateKeyEncryption == [Method("decrypt", {200, 201}) EXCEPT !.missing = {409}]
SystemGet               == Decoding(Method("list", {200, 201}))

EncryptionMethods == {ActivateKeyEncryption, DeactivateKeyEncryption, SystemGet}

FolderInfo         == Get({})
FileList           == Get({})
StorageInfo        == List
StorageInfoRefresh == Issue({202})
Ping               == Probe

StorageMethods == {FolderInfo, FileList, StorageInfo, StorageInfoRefresh, Ping}

ConvertLocalToFederated         == Act({200})
TriggerFederatedFullSyncAll     == Issue({200})
TriggerFederatedFullSyncMirror  == Issue({200})

FederationMethods == {ConvertLocalToFederated, TriggerFederatedFullSyncAll, TriggerFederatedFullSyncMirror}

-----------------------------------------------------------------------------
(* export.go, import.go.  The services have a DryRun, which the manager never *)
(* sets.                                                                      *)

Export(dryRun) == WithDryRun(Issue({200}), dryRun)
Import(dryRun) == WithDryRun(Issue({200}), dryRun)

SystemMethods == {Export(FALSE), Import(FALSE)}

-----------------------------------------------------------------------------
(* buildinfo.go, promote.go, distribute.go, discardBuilds.go,                 *)
(* dockerpromote.go.  A promotion and a distribution send their DryRun to the *)
(* server; the publication of a build's information sends nothing at all.     *)

PublishBuildInfo(dryRun) == WithDryRun(Put({200, 201, 204}), dryRun)
BuildPromote(dryRun)     == WithDryRun(Issue({200}), dryRun)
BuildDistribute(dryRun)  == WithDryRun(Issue({200}), dryRun)
DiscardBuilds            == Issue({204})
PromoteDocker            == Issue({200})

BuildMethods(dryRun) ==
    {PublishBuildInfo(dryRun), BuildPromote(dryRun), BuildDistribute(dryRun), DiscardBuilds, PromoteDocker}
=============================================================================
