---------------------------- MODULE DeleteService -----------------------------
(* artifactory/services/delete.go with utils/deleteutils.go: GetPathsToDelete *)
(* for a pattern that matches the whole repository, an AQL query or a build,  *)
(* then DeleteFiles.  With exclude properties the directories a pattern finds *)
(* are only candidates: a second search finds the files that have the         *)
(* properties, and both sorted lists are scanned together for directories     *)
(* that hold none of them.                                                    *)
(*                                                                            *)
(* The server changes only by this client's requests.                         *)
EXTENDS ItemTasks

CONSTANTS Trees,     \* what the repository may hold: sets of items, folders included
          Limit,     \* the spec's limit of results; 0 for none
          MayLose    \* whether a merge may end early because of a read error

VARIABLES
    tree,         \* the items on the server
    kind,         \* GetSpecType
    dryRun,       \* DryRun
    protected,    \* the files that have the exclude properties
    excludeProps, \* whether the spec has any
    pc,
    found,        \* tempResultItems
    candidates,   \* bufferFiles: the found directories, in sorted readers
    guards,       \* filesNotToBeDeleteReader, from the artifact at hand on
    dirs,         \* dirsToBeDeletedReader, from the directory at hand on
    out,          \* what resultWriter has been given
    lost,         \* history: a read error that was taken for the end of a reader
    err           \* what the caller is told

input == <<kind, dryRun, protected, excludeProps>>
search == <<found, candidates, guards, dirs, out>>
vars == <<tree, input, pc, search, tasks, lost, err>>

FilesOf(S) == {item \in S : item.type = "file"}
FoldersOf(S) == S \ FilesOf(S)

TypeOK ==
    /\ protected \subseteq FilesOf(UNION Trees) /\ tree \subseteq UNION Trees
    /\ kind \in {"wildcard", "aql", "build"} /\ dryRun \in BOOLEAN
    /\ pc \in {"search", "filter", "protected", "merge", "scan", "reduce", "delete", "done"}
    /\ \A s \in {found, guards, dirs, out, list} : ToSet(s) \subseteq UNION Trees
    /\ next \in 1 .. Len(list) + 1 /\ running \subseteq 1 .. next - 1
    /\ err \in {"none", "nil", "err", "panic"}

Init ==
    /\ tree \in Trees
    /\ kind \in {"wildcard", "aql", "build"} /\ dryRun \in BOOLEAN
    /\ excludeProps \in IF kind = "wildcard" THEN BOOLEAN ELSE {FALSE}
    /\ protected \in IF excludeProps THEN SUBSET FilesOf(tree) ELSE {{}}
    /\ pc = "search"
    /\ found = <<>> /\ candidates = <<>> /\ guards = <<>> /\ dirs = <<>> /\ out = <<>>
    /\ list = <<>> /\ next = 1 /\ running = {} /\ succeeded = 0 /\ failed = FALSE
    /\ lost = FALSE /\ err = "none"

Return(e) == pc' = "done" /\ err' = e

-----------------------------------------------------------------------------
(* GetPathsToDelete *)

(* What a search may return of S: all of it, or as much as the limit allows,  *)
(* in any order.  (The order among the files has no effect.)                  *)
Results(S) ==
    LET size == IF Limit = 0 \/ Cardinality(S) <= Limit THEN Cardinality(S) ELSE Limit
    IN UNION {{f \o InOrder(FilesOf(T)) : f \in SetToSeqs(FoldersOf(T))} : T \in kSubset(size, S)}

(* SearchBySpecWithPattern, directories included.  Nothing is filtered if     *)
(* there are no exclude properties or no results.                             *)
Search ==
    /\ pc = "search" /\ kind = "wildcard"
    /\ found' \in Results(tree \ protected)
    /\ IF excludeProps /\ found' # <<>>
         THEN pc' = "filter" /\ UNCHANGED out
         ELSE pc' = "reduce" /\ out' = found'
    /\ UNCHANGED <<tree, input, candidates, guards, dirs, tasks, lost, err>>

(* SearchBySpecWithAql, SearchBySpecWithBuild: what they find is deleted as   *)
(* it is.                                                                     *)
SearchDirectly ==
    /\ pc = "search" /\ kind # "wildcard"
    /\ \E S \in SUBSET (IF kind = "aql" THEN tree ELSE FilesOf(tree)) : found' = InOrder(S) /\ Begins(found')
    /\ pc' = "delete"
    /\ UNCHANGED <<tree, input, candidates, guards, dirs, out, lost, err>>

(* The error of SearchBySpecWithBuild is not looked at before the reader that *)
(* came with it, which is nil, is asked for its length.                       *)
BuildSearchFails ==
    /\ pc = "search" /\ kind = "build"
    /\ Return("panic")
    /\ UNCHANGED <<tree, input, search, tasks, lost>>

(* FilterCandidateToBeDeleted with "folder": the directories, by buffers,     *)
(* sorted by their relative path; everything else is a result.                *)
Filter ==
    /\ pc = "filter"
    /\ LET folders == Only(found, {item \in FoldersOf(ToSet(found)) : ~IsRepoRoot(item)})
       IN candidates' = SplitAndSort(folders, RelativePaths(folders), TRUE)
    /\ out' = Only(found, FilesOf(ToSet(found)))
    /\ pc' = IF candidates' = <<>> THEN "reduce" ELSE "protected"
    /\ UNCHANGED <<tree, input, found, guards, dirs, tasks, lost, err>>

(* getSortedArtifactsToNotDelete: the spec's exclude properties become its    *)
(* properties, everything else in it stays, the limit too.                    *)
SearchProtected ==
    /\ pc = "protected"
    /\ \E r \in Results(protected) :
         LET readers == SplitAndSort(r, RelativePaths(r), TRUE)
         IN \E seen \in Readable(readers, MayLose) :
              guards' = MergeSortedReaders(seen) /\ lost' = (lost \/ seen # readers)
    /\ pc' = "merge"
    /\ UNCHANGED <<tree, input, found, candidates, dirs, out, tasks, err>>

MergeDirs ==
    /\ pc = "merge"
    /\ \E seen \in Readable(candidates, MayLose) :
         dirs' = MergeSortedReaders(seen) /\ lost' = (lost \/ seen # candidates)
    /\ pc' = "scan"
    /\ UNCHANGED <<tree, input, found, candidates, guards, out, tasks, err>>

\* Any of the steps before the deletion may fail: nothing is deleted.
SearchFails ==
    /\ pc \in {"search", "filter", "protected", "merge", "reduce"} /\ kind # "build"
    /\ Return("err")
    /\ UNCHANGED <<tree, input, search, tasks, lost>>
-----------------------------------------------------------------------------
(* WriteCandidateDirsToBeDeleted: the directory and the artifact at hand are  *)
(* the heads of dirs and guards.                                              *)

Dir == GetItemRelativePath(Head(dirs))
ArtifactLocation == GetItemRelativeLocation(Head(guards))

\* Changed: only a directory that holds the artifact directly is kept.
HoldsDirectly == Dir = ArtifactLocation

HoldsArtifact == IsPrefix(Dir, ArtifactLocation)

Scanning == pc = "scan" /\ dirs # <<>>

UnchangedInScan == <<tree, input, found, candidates, tasks>>

SkipDir ==
    /\ Scanning /\ guards # <<>> /\ HoldsArtifact
    /\ dirs' = Tail(dirs)
    /\ UNCHANGED <<guards, out, pc, lost, err, UnchangedInScan>>

WriteDir ==
    /\ Scanning /\ guards # <<>> /\ ~HoldsArtifact
    /\ Less(Dir, ArtifactLocation)
    /\ out' = Append(out, Head(dirs)) /\ dirs' = Tail(dirs)
    /\ UNCHANGED <<guards, pc, lost, err, UnchangedInScan>>

NextArtifact ==
    /\ Scanning /\ guards # <<>> /\ ~HoldsArtifact
    /\ ~Less(Dir, ArtifactLocation)
    /\ guards' = Tail(guards)
    /\ UNCHANGED <<dirs, out, pc, lost, err, UnchangedInScan>>

\* Changed: the directories after the one at hand are forgotten.
WriteRemainOne == out' = Append(out, Head(dirs))

WriteRemain == out' = out \o dirs

(* No artifacts are left.                                                     *)
WriteRemainCandidates ==
    /\ Scanning /\ guards = <<>>
    /\ WriteRemain /\ dirs' = <<>>
    /\ pc' = "reduce"
    /\ UNCHANGED <<guards, lost, err, UnchangedInScan>>

(* Reading an artifact fails: the remaining directories are written too, but  *)
(* the error is returned and nothing is deleted.                              *)
ArtifactsFail ==
    /\ Scanning
    /\ out' = out \o dirs /\ dirs' = <<>>
    /\ Return("err")
    /\ UNCHANGED <<guards, lost, UnchangedInScan>>

(* There are no directories left; an error of their reader looks the same,    *)
(* since the artifacts' reader's error takes its place.                       *)
DirsOver ==
    /\ pc = "scan" /\ (dirs = <<>> \/ MayLose)
    /\ lost' = (lost \/ dirs # <<>>)
    /\ pc' = "reduce"
    /\ UNCHANGED <<guards, dirs, out, err, UnchangedInScan>>

-----------------------------------------------------------------------------
(* ReduceTopChainDirResult: what is below a directory of the list goes with   *)
(* it and needs no request of its own.                                        *)
Reduce ==
    /\ pc = "reduce"
    /\ LET readers == SortedBuffers(out, TRUE)
       IN \E seen \in Readable(readers, MayLose) :
            /\ Begins(ReduceTopChain(seen))
            /\ lost' = (lost \/ seen # readers)
    /\ pc' = "delete"
    /\ UNCHANGED <<tree, input, search, err>>

-----------------------------------------------------------------------------
(* DeleteFiles *)

Below(item, dir) == IsPrefix(dir.path, item.path)
Without(item) == {other \in tree : ~Below(other, item)}

UnchangedInTasks == <<input, pc, search, lost, err>>

StartTask == pc = "delete" /\ Take /\ UNCHANGED <<tree, UnchangedInTasks>>

(* The answer is a 204: the item is gone, with everything below it.           *)
DeleteItem(i) ==
    /\ ~dryRun /\ list[i] \in tree
    /\ Succeeds(i) /\ tree' = Without(list[i])
    /\ UNCHANGED UnchangedInTasks

(* The request fails or is refused; the answer to a request that was carried  *)
(* out may be lost.                                                           *)
DeleteFails(i) ==
    /\ ~dryRun /\ Fails(i)
    /\ tree' \in {tree, Without(list[i])}
    /\ UNCHANGED UnchangedInTasks

(* Nothing is sent, and nothing is counted.                                   *)
DeleteDryRun(i) == dryRun /\ Uncounted(i) /\ UNCHANGED <<tree, UnchangedInTasks>>

ListFails == pc = "delete" /\ ProducerFails /\ UNCHANGED <<tree, UnchangedInTasks>>

Finish ==
    /\ pc = "delete" /\ AllEnded
    /\ Return(IF failed THEN "err" ELSE "nil")
    /\ UNCHANGED <<tree, input, search, tasks, lost>>

DeleteFiles ==
    \/ StartTask \/ ListFails \/ Finish
    \/ \E i \in running : DeleteItem(i) \/ DeleteFails(i) \/ DeleteDryRun(i)

Scan == SkipDir \/ WriteDir \/ NextArtifact \/ WriteRemainCandidates \/ ArtifactsFail \/ DirsOver

GetPathsToDelete ==
    \/ Search \/ SearchDirectly \/ BuildSearchFails
    \/ Filter \/ SearchProtected \/ MergeDirs \/ Scan \/ Reduce \/ SearchFails

Next == GetPathsToDelete \/ DeleteFiles

Spec == Init /\ [][Next]_vars

-----------------------------------------------------------------------------
(* Properties *)

(* The directories "must be removed, because they include files, which should *)
(* not be deleted": no file that has the exclude properties is ever deleted,  *)
(* neither by itself nor with a directory, provided no read error was taken   *)
(* for the end of a sorted reader.                                            *)
ProtectedKept == lost \/ protected \subseteq tree

\* The directory is spared because its relative path is a prefix of an artifact's location.
Spared(dir) ==
    \E item \in protected : IsPrefix(GetItemRelativePath(dir), GetItemRelativeLocation(item))

(* A nil error means that everything that was found is gone, except, for a    *)
(* pattern, the directories spared for a protected file and the repository    *)
(* itself, and that the number returned is that of the requests.  A dry run   *)
(* deletes nothing and returns 0.                                             *)
NilMeansGone ==
    err = "nil" /\ ~lost =>
        IF dryRun THEN succeeded = 0
        ELSE /\ \A n \in DOMAIN found : found[n] \in tree =>
                    /\ kind = "wildcard" /\ found[n].type = "folder"
                    /\ IsRepoRoot(found[n]) \/ Spared(found[n])
             /\ succeeded = Len(list)

(* The list is reduced so that no request deletes what another one is still   *)
(* to delete: whatever the threads' order, a task finds its item.             *)
TasksFindTheirItem ==
    pc = "delete" /\ kind = "wildcard" => \A i \in Unfinished : list[i] \in tree
=============================================================================
