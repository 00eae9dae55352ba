----------------------------- MODULE ItemServices -----------------------------
(* The services that search items and send a request for each of them, one    *)
(* call of one of them: DeleteService, MoveCopyService, PropsService, and     *)
(* GitLfsClean, whose result its caller gives to DeleteFiles.                 *)
EXTENDS ItemTasks

CONSTANTS Trees, Limit, MayLose, SpecLists, Repositories, Garbage, Push

VARIABLES
    service,
    tree, pc, found, lost, dryRun, err,
    kind, protected, excludeProps, candidates, guards, dirs, out,
    moveType, specs, readers, prepared, placed,
    drained, has,
    refs, pushed, keep, unaware

D == INSTANCE DeleteService
M == INSTANCE MoveCopyService
P == INSTANCE PropsService
G == INSTANCE GitLfsClean

ASSUME TreesAssumption == \A T \in Trees : IsFiniteSet(T) /\ T \subseteq Item /\ Fit(T)

(* What a spec finds is in the repository.                                    *)
ASSUME SpecsAssumption ==
    \A l \in SpecLists :
        /\ l \in Seq([type : {"pattern", "direct"}, flat : BOOLEAN, into : BOOLEAN, found : SUBSET Item])
        /\ LET all == UNION {l[s].found : s \in DOMAIN l} IN IsFiniteSet(all) /\ Fit(all)

\* The LFS files that are ever on the server.
LfsFiles == Garbage \cup G!Pointers((UNION Repositories) \cup {Push})

(* An LFS file has its checksum for a name: none is below another one.  What  *)
(* is pushed is new and matches.                                              *)
ASSUME LfsAssumption ==
    /\ IsFiniteSet(LfsFiles)
    /\ \A x, y \in LfsFiles : IsPrefix(x.path, y.path) => x = y
    /\ Push \in G!Matching({Push})
    /\ \A R \in Repositories : G!Pointers({Push}) \cap (Garbage \cup G!Pointers(R)) = {}

deleting == <<kind, protected, excludeProps, candidates, guards, dirs, out>>
moving == <<moveType, specs, readers, prepared, placed>>
setting == <<drained, has>>
cleaning == <<refs, pushed, keep, unaware>>
vars == <<service, tree, pc, found, lost, dryRun, err, tasks, deleting, moving, setting, cleaning>>

NoDelete ==
    /\ kind = "aql" /\ protected = {} /\ excludeProps = FALSE
    /\ candidates = <<>> /\ guards = <<>> /\ dirs = <<>> /\ out = <<>>
NoMove ==
    /\ moveType = "copy" /\ specs = <<>> /\ readers = <<>> /\ prepared = {} /\ placed = {}
NoProps == drained = FALSE /\ has = {}
NoClean == refs = {} /\ pushed = "no" /\ keep = {} /\ unaware = {}

Init ==
    \/ service = "delete" /\ D!Init /\ NoMove /\ NoProps /\ NoClean
    \/ service = "move" /\ M!Init /\ found = <<>> /\ NoDelete /\ NoProps /\ NoClean
    \/ service = "props" /\ P!Init /\ lost = FALSE /\ dryRun = FALSE /\ NoDelete /\ NoMove /\ NoClean
    \/ service = "lfs" /\ G!Init /\ lost = FALSE /\ dryRun = FALSE /\ NoDelete /\ NoMove /\ NoProps

Delete ==
    /\ service = "delete" /\ D!Next
    /\ UNCHANGED <<service, moving, setting, cleaning>>

Move ==
    /\ service = "move" /\ M!Next
    /\ UNCHANGED <<service, found, deleting, setting, cleaning>>

Props ==
    /\ service = "props" /\ P!Next
    /\ UNCHANGED <<service, lost, dryRun, deleting, moving, cleaning>>

Clean ==
    /\ service = "lfs"
    /\ \/ G!Next /\ UNCHANGED <<lost, dryRun, deleting>>
       \/ D!DeleteFiles /\ UNCHANGED cleaning
    /\ UNCHANGED <<service, moving, setting>>

Next == Delete \/ Move \/ Props \/ Clean

Spec == Init /\ [][Next]_vars

-----------------------------------------------------------------------------
(* Properties, each of the service it is about *)

(* What DeleteService needs of a spec and of a repository to find every       *)
(* protected file where it looks for it.  The search for them has the spec's  *)
(* limit too.  And the directories are sorted by their relative paths but     *)
(* merged by GetSortKey: the orders must agree when they need several buffers. *)
Folders(T) == {item \in T : item.type = "folder" /\ ~IsRepoRoot(item)}
OneOrder(T) ==
    \A x, y \in Folders(T) :
        Less(GetItemRelativePath(x), GetItemRelativePath(y)) => Less(GetSortKey(x), GetSortKey(y))
Reliable == Limit = 0 /\ \A T \in Trees : Cardinality(Folders(T)) <= BufferSize \/ OneOrder(T)

(* DeleteService: no file with the exclude properties is deleted.             *)
ProtectedKept == service = "delete" => D!ProtectedKept

(* DeleteFiles, after GetPathsToDelete: nil means that what was found is gone.*)
NilMeansGone == service = "delete" => D!NilMeansGone

(* DeleteFiles and MoveCopyService: no task's item goes with another task's,  *)
(* whatever the threads' order, when the list was reduced.                    *)
TasksFindTheirItem ==
    /\ service = "delete" => D!TasksFindTheirItem
    /\ service = "move" => M!MovesFindTheirItem

(* MoveCopyService: nil means that every file a spec found is where it should *)
(* be, and for a move nowhere else.                                           *)
NilMeansPlaced == service = "move" => M!NilMeansPlaced

(* PropsService: the items of the reader, and only they, get and lose the     *)
(* properties, call after call.                                               *)
PropsFollowReader == service = "props" => P!PropsFollowReader

(* GitLfsClean with DeleteFiles: no file is deleted that a reference of the   *)
(* local repository points to when Git is read, or that is pushed later.      *)
ReferencedKept == service = "lfs" => G!ReferencedKept
=============================================================================
