----------------------------- MODULE GitLfsClean ------------------------------
(* artifactory/services/gitlfsclean.go: the LFS files of a repository of      *)
(* Artifactory that no matching reference of a local Git repository points    *)
(* to, which the caller then deletes with DeleteFiles.  The code opens the    *)
(* repository and never fetches.  Meanwhile something is pushed: first a new  *)
(* file, then the reference that points to it; the local repository has the   *)
(* reference from before, if it was committed there, or when it fetches it.   *)
EXTENDS ItemTasks

CONSTANTS Repositories, \* what the Git repository may hold: sets of references
          Garbage,      \* the LFS files on the server that no reference points to
          Push          \* the reference that is pushed

(* A reference is [type, matches, object, files]: "hash" or "symbolic";       *)
(* whether its name matches; what it leads to, a "commit", a "tag" with a     *)
(* commit, or something "other"; and the commit's files, [kind, item]: a      *)
(* "pointer" to an LFS file, or a "big" or "malformed" file that is like one. *)

VARIABLES
    tree,      \* the items on the server
    refs,      \* the references of the local Git repository
    pushed,    \* how far the push to the Git server is
    pc,
    found,     \* artifactoryLfsFilesReader
    keep,      \* gitLfsFiles
    unaware,   \* history: the readings that took place when the file was pushed
               \*   and the local repository had no reference to it
    err

vars == <<tree, refs, pushed, pc, found, keep, unaware, tasks, err>>

Pointers(S) == {file.item : file \in {f \in UNION {ref.files : ref \in S} : f.kind = "pointer"}}
Matching(S) == {ref \in S : ref.type = "hash" /\ ref.matches}

TypeOK ==
    /\ \E R \in Repositories : refs \in {R, R \cup {Push}}
    /\ pushed \in {"no", "files", "refs"}
    /\ pc \in {"detect", "search", "collect", "filter", "delete", "done"}
    /\ unaware \subseteq {"search", "collect"} /\ err \in {"none", "nil", "err"}

(* What is referenced is on the server.                                       *)
Init ==
    /\ refs \in Repositories
    /\ tree = Pointers(refs) \cup Garbage
    /\ pushed = "no" /\ pc = "detect" /\ found = <<>> /\ keep = {} /\ unaware = {}
    /\ list = <<>> /\ next = 1 /\ running = {} /\ succeeded = 0 /\ failed = FALSE
    /\ err = "none"

\* Changed: Git is read before Artifactory.
GitFirst == [detect |-> "collect", collect |-> "search", search |-> "filter"]

Then == [detect |-> "search", search |-> "collect", collect |-> "filter"]

Goes(from) == pc = from /\ pc' = Then[from]

-----------------------------------------------------------------------------
(* GetUnreferencedGitLfsFiles *)

(* The repository is given, or that of .lfsconfig or .git/config if its URL   *)
(* is below the service's.                                                    *)
DetectRepo ==
    /\ Goes("detect")
    /\ UNCHANGED <<tree, refs, pushed, found, keep, unaware, tasks, err>>

Unaware == pushed # "no" /\ Push \notin refs

Notes(reading) == unaware' = unaware \cup {r \in {reading} : Unaware}

SearchLfsFiles ==
    /\ Goes("search")
    /\ found' = InOrder(tree) /\ Notes("search")
    /\ UNCHANGED <<tree, refs, pushed, keep, tasks, err>>

(* getLfsFilesFromGit: symbolic references are left out, they lead to others; *)
(* so are big files and pointers with a malformed checksum.  A tag without a  *)
(* commit is an error.                                                        *)
Collect ==
    /\ Goes("collect")
    /\ \A ref \in Matching(refs) : ref.object # "other"
    /\ keep' = Pointers(Matching(refs)) /\ Notes("collect")
    /\ UNCHANGED <<tree, refs, pushed, found, tasks, err>>

(* findFilesToDelete: an error while the search results are read is taken for *)
(* their end.  (The order of the files has no effect.)                        *)
FindFilesToDelete ==
    /\ pc = "filter" /\ pc' = "delete"
    /\ \E n \in 0 .. Len(found) :
         Begins(InOrder(ToSet(SubSeq(found, 1, n)) \ keep))
    /\ UNCHANGED <<tree, refs, pushed, found, keep, unaware, err>>

CleanFails ==
    /\ pc \in {"detect", "search", "collect", "filter"}
    /\ pc' = "done" /\ err' = "err"
    /\ UNCHANGED <<tree, refs, pushed, found, keep, unaware, tasks>>

-----------------------------------------------------------------------------
(* git commit in the local repository, or git fetch; git push with LFS, from  *)
(* it or from another one.                                                    *)

Commit ==
    /\ pushed = "no" /\ refs' = refs \cup {Push}
    /\ UNCHANGED <<tree, pushed, pc, found, keep, unaware, tasks, err>>

Fetch ==
    /\ pushed = "refs" /\ refs' = refs \cup {Push}
    /\ UNCHANGED <<tree, pushed, pc, found, keep, unaware, tasks, err>>

PushFiles ==
    /\ pushed = "no" /\ pushed' = "files"
    /\ tree' = tree \cup Pointers({Push})
    /\ UNCHANGED <<refs, pc, found, keep, unaware, tasks, err>>

PushRef ==
    /\ pushed = "files" /\ pushed' = "refs"
    /\ UNCHANGED <<tree, refs, pc, found, keep, unaware, tasks, err>>

Somebody == Commit \/ Fetch \/ PushFiles \/ PushRef

GetUnreferencedGitLfsFiles ==
    DetectRepo \/ SearchLfsFiles \/ Collect \/ FindFilesToDelete \/ CleanFails

Next == GetUnreferencedGitLfsFiles \/ Somebody

-----------------------------------------------------------------------------
(* Properties *)

(* A file that a matching reference points to, a commit or an annotated tag,  *)
(* is never deleted; neither is a file that is pushed meanwhile, unless it    *)
(* was on the server, and its reference was not in the local repository, at   *)
(* both readings.  So what is committed in the local repository before it is  *)
(* pushed is safe at any time, because Git is read last; what others push is  *)
(* only if it was fetched before Git was read, or is pushed after the search. *)
ReferencedKept ==
    /\ Pointers(Matching(refs) \ {Push}) \subseteq tree
    /\ pushed = "no" \/ unaware = {"search", "collect"} \/ Pointers({Push}) \subseteq tree
=============================================================================
