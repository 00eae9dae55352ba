------------------------- MODULE PlatformOperations --------------------------
(* access, distribution, xray and pipelines: the one-request methods of the   *)
(* other services' managers, in the terms of RemoteOperation.                 *)
EXTENDS RemoteOperation

-----------------------------------------------------------------------------
(* access/services: project.go, accesstoken.go, invite.go *)

GetProject     == Get({404})
GetAllProjects == List
\* The project is looked up although the server refuses one that exists.
CreateProject  == [Create({200, 201}, {}) EXCEPT !.lookup = "absent"]
UpdateProject  == Overwrite({200, 201})
DeleteProject  == Delete({204})

ProjectMethods == {GetProject, GetAllProjects, CreateProject, UpdateProject, DeleteProject}

AssignRepo   == [Put({200, 204}) EXCEPT !.sends = "nothing"]
UnassignRepo == Delete({200, 204})

AssignmentMethods == {AssignRepo, UnassignRepo}

GetProjectGroups    == Get({404})
GetProjectGroup     == Get({404})
UpdateProjectGroup  == [Put({200}) EXCEPT !.sends = "all"]
DeleteProjectGroup  == Delete({204})

ProjectGroupMethods == {GetProjectGroups, GetProjectGroup, UpdateProjectGroup, DeleteProjectGroup}

CreateAccessToken  == Decoding(Issue({200}))
RefreshAccessToken == CreateAccessToken
InviteUser         == Issue({200})
AccessPing         == Probe

AccessMethods == {CreateAccessToken, RefreshAccessToken, InviteUser, AccessPing}

-----------------------------------------------------------------------------
(* distribution/services: create.go, update.go, sign.go, setsigningkey.go,    *)
(* deletelocal.go, version.go.  A dry run of a creation or an update is the   *)
(* server's: only then is a 200 enough for a creation.                        *)

CreateReleaseBundle(dryRun) ==
    WithDryRun([Create(IF dryRun THEN {200, 201} ELSE {201}, {}) EXCEPT !.sends = "all"], dryRun)
UpdateReleaseBundle(dryRun) == WithDryRun([Overwrite({200}) EXCEPT !.sends = "all"], dryRun)
SignReleaseBundle           == Act({200})
DeleteLocalBundle(dryRun)   == WithDryRun(Delete({204}), dryRun)
SetSigningKey               == Put({200})
GetDistributionVersion      == List

BundleMethods(dryRun) ==
    {CreateReleaseBundle(dryRun), UpdateReleaseBundle(dryRun), SignReleaseBundle,
     DeleteLocalBundle(dryRun), GetDistributionVersion}

-----------------------------------------------------------------------------
(* xray/services: watch.go, policy.go, report.go, summary.go, binMgr.go,      *)
(* scan.go, entitlements.go, version.go.  WatchBody has the watches' bodies.  *)

CreateWatch == [Create({200, 201}, {409}) EXCEPT !.sends = "all"]
UpdateWatch == [Overwrite({200, 201}) EXCEPT !.sends = "all"]
GetWatch    == Get({})
DeleteWatch == Delete({200})

CreatePolicy == [Create({200, 201}, {409}) EXCEPT !.sends = "all"]
UpdatePolicy == [Overwrite({200, 201}) EXCEPT !.sends = "all"]
GetPolicy    == Get({})
DeletePolicy == Delete({200})

WatchMethods  == {CreateWatch, UpdateWatch, GetWatch, DeleteWatch}
PolicyMethods == {CreatePolicy, UpdatePolicy, GetPolicy, DeletePolicy}

Vulnerabilities == Decoding(Issue({200}))
ReportDetails   == Get({})
ReportContent   == Get({})
DeleteReport    == Delete({200})

ReportMethods == {Vulnerabilities, ReportDetails, ReportContent, DeleteReport}

AddBuildsToIndexing == Put({200, 201})
ScanGraph           == Decoding(Issue({200, 201}))
GetBuildSummary     == Get({})
GetArtifactSummary  == Find({})
IsEntitled          == Find({Empty})
GetXrayVersion      == List

ScanMethods ==
    {AddBuildsToIndexing, ScanGraph, GetBuildSummary, GetArtifactSummary, IsEntitled, GetXrayVersion}

-----------------------------------------------------------------------------
(* pipelines/services: integration.go, sources.go, run.go, sync.go,           *)
(* syncstatus.go, resource.go, system.go                                      *)

CreateIntegration     == Decoding(Create({200, 201}, {409}))
DeleteIntegration     == Delete({200})
GetIntegrationById    == Get({})
GetAllIntegrations    == List
\* All are fetched, and none of them has the name.
GetIntegrationByName  == Find({})

IntegrationMethods ==
    {CreateIntegration, DeleteIntegration, GetIntegrationById, GetIntegrationByName, GetAllIntegrations}

\* The server says 404 of a source that exists, and says so in the body.
AddSource         == Decoding(Create({200}, {Already}))
GetSource         == Get({})
GetSourceByFilter == List
DeleteSource      == Delete({200})

SourceMethods == {AddSource, GetSource, GetSourceByFilter, DeleteSource}

TriggerPipelineRun == Issue({200})
CancelRun          == Delete({200})
GetRunStatus       == List
GetSystemInfo      == List

\* The resource is looked up in a list, and its number is used without a look at
\* whether it was found.
GetPipelineResource(method) == [method EXCEPT !.lookup = "there"]
SyncPipelineSource          == GetPipelineResource(Issue({200}))
GetSyncStatus               == GetPipelineResource(List)

PipelineMethods ==
    {TriggerPipelineRun, CancelRun, GetRunStatus, GetSystemInfo, SyncPipelineSource, GetSyncStatus}
=============================================================================
