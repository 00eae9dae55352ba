--------------------------- MODULE DownloadService ----------------------------
(* artifactory/services/download.go: DownloadFiles.  A producer searches the  *)
(* groups of the file spec one after the other and queues a task for every    *)
(* file, then for the directories that no file implies; consumers run them.   *)
(*                                                                            *)
(* An item is [path, type], with the names that lead to it; type is "file",   *)
(* "folder" or "link" (an artifact that stands for a symbolic link).  There   *)
(* are no placeholders in the target, so its local path is the path, or in    *)
(* the flat mode the name alone.  The order of a sorted reader has no effect  *)
(* on the tasks, so readers are sets.                                         *)
EXTENDS Naturals, Sequences, FiniteSets, SequencesExt

CONSTANTS
    Threads,
    Names,      \* of repositories, folders and files
    Groups,     \* downloadParams: [items, flat, symlink, key (a bundle, or None), split], ...
    LocalFiles, \* what may be at local paths before: a set of functions to contents
    Unsigned,   \* the items that a release bundle's manifest does not vouch for
    None

Items == [path : Seq(Names) \ {<<>>}, type : {"file", "folder", "link"}]

ASSUME GroupsAssumption ==
    /\ DOMAIN Groups = 1 .. Len(Groups) /\ Len(Groups) \in Nat
    /\ \A gr \in DOMAIN Groups : Groups[gr].items \subseteq Items /\ IsFiniteSet(Groups[gr].items)

VARIABLES
    dryRun,
    pc, g,     \* the producer, and its group
    bundles,   \* rbGpgValidationMap
    unread,    \* what is left of the sorted reader
    folders,   \* directoriesDataKeys
    implied,   \* alreadyCreatedDirs
    tasks,     \* <<group, item>>, in the order they were added
    next,      \* the next task a consumer takes
    stage, task, \* of each consumer
    expected,  \* totalTasks
    succeeded, \* the sum of successCounters
    reported,  \* the tasks written to filesTransfersWriter and artifactsDetailsWriter
    failed,    \* whether errorsQueue has an error
    disk,      \* the content at each local path
    result     \* what DownloadFiles returned

producer == <<pc, g, bundles, unread, folders, implied, expected>>
consumers == <<stage, task, next, succeeded, reported, disk>>
vars == <<dryRun, producer, consumers, tasks, failed, result>>

(* Contents.  A file that is being written is known by the thread that opened *)
(* it last; if two threads wrote to it, it is neither one's file.             *)
Nothing == <<"none">>
Directory == <<"dir">>
Link == <<"link">>
Stale == <<"stale">>
Mixed == <<"mixed">>
File(item) == <<"file", item>>
Partial(t) == <<"part", t>>

LocalPath(gr, item) == IF Groups[gr].flat THEN <<Last(item.path)>> ELSE item.path

Paths == UNION {UNION {{SubSeq(LocalPath(gr, item), 1, n) : n \in DOMAIN LocalPath(gr, item)} :
                        item \in Groups[gr].items} : gr \in DOMAIN Groups}

Tasks == UNION {{gr} \X Groups[gr].items : gr \in DOMAIN Groups}
Contents == {Nothing, Directory, Link, Stale, Mixed} \cup {File(tk[2]) : tk \in Tasks}
            \cup {Partial(t) : t \in Threads}

ASSUME FilesAssumption == \A l \in LocalFiles : \A p \in DOMAIN l : l[p] \in Contents

Results == {<<>>} \cup [err : BOOLEAN, succeeded : Nat, expected : Nat]

TypeOK ==
    /\ dryRun \in BOOLEAN
    /\ pc \in {"version", "gpg", "search", "produce", "close", "over", "done"}
    /\ g \in 1 .. Len(Groups) + 1
    /\ bundles \subseteq {Groups[gr].key : gr \in DOMAIN Groups}
    /\ unread \subseteq Items /\ folders \subseteq Items /\ implied \subseteq Seq(Names)
    /\ tasks \in Seq(Tasks) /\ next \in Nat \ {0}
    /\ stage \in [Threads -> {"idle", "start", "compare", "link", "write"}]
    /\ task \in [Threads -> Tasks \cup {<<>>}]
    /\ expected \in Nat /\ succeeded \in Nat /\ reported \subseteq Tasks
    /\ failed \in BOOLEAN
    /\ disk \in [Paths -> Contents]
    /\ result \in Results

Init ==
    /\ dryRun \in BOOLEAN
    /\ pc = "version" /\ g = 1 /\ bundles = {}
    /\ unread = {} /\ folders = {} /\ implied = {} /\ expected = 0
    /\ tasks = <<>> /\ next = 1
    /\ stage = [t \in Threads |-> "idle"] /\ task = [t \in Threads |-> <<>>]
    /\ succeeded = 0 /\ reported = {} /\ failed = FALSE
    /\ \E l \in LocalFiles :
         disk = [p \in Paths |-> IF p \in DOMAIN l THEN l[p] ELSE Nothing]
    /\ result = <<>>

-----------------------------------------------------------------------------
(* The producer *)

Group == Groups[g]

StartGroup(n) == g' = n /\ pc' = IF n <= Len(Groups) THEN "gpg" ELSE "over"

GetVersion ==
    /\ pc = "version"
    /\ StartGroup(1)
    /\ UNCHANGED <<dryRun, bundles, unread, folders, implied, expected, consumers, tasks, failed, result>>

(* gpgValidateReleaseBundle, once for a bundle.                               *)
Validate ==
    /\ pc = "gpg"
    /\ bundles' = bundles \cup ({Group.key} \ {None})
    /\ pc' = "search"
    /\ UNCHANGED <<dryRun, g, unread, folders, implied, expected, consumers, tasks, failed, result>>

\* Changed: the producer leaves without having told how many tasks there are.
GivesUpSilently ==
    /\ \/ pc = "version"
       \/ pc = "gpg" /\ Group.key \notin bundles \cup {None}
       \/ pc = "close"
    /\ failed' = TRUE /\ pc' = "gone"
    /\ UNCHANGED <<dryRun, g, bundles, unread, folders, implied, expected, consumers, tasks, result>>

(* The version or the bundle's public key or manifest cannot be had, or the   *)
(* results' file cannot be closed: the groups that are left are skipped.      *)
GivesUp ==
    /\ \/ pc = "version"
       \/ pc = "gpg" /\ Group.key \notin bundles \cup {None}
       \/ pc = "close"
    /\ failed' = TRUE /\ pc' = "over"
    /\ UNCHANGED <<dryRun, g, bundles, unread, folders, implied, expected, consumers, tasks, result>>

(* The reader is sorted by the local paths, and of the items with the same    *)
(* one only one is left.                                                      *)
OnePerLocalPath(items) ==
    {keep \in SUBSET items :
        \A item \in items : \E one \in keep :
            {other \in keep : LocalPath(g, other) = LocalPath(g, item)} = {one}}

SearchAndSort ==
    /\ pc = "search"
    /\ unread' \in OnePerLocalPath(Group.items)
    /\ folders' = {} /\ implied' = {}
    /\ pc' = "produce"
    /\ UNCHANGED <<dryRun, g, bundles, expected, consumers, tasks, failed, result>>

(* An error ends this group only.                                             *)
SearchFails ==
    /\ pc = "search"
    /\ failed' = TRUE /\ StartGroup(g + 1)
    /\ UNCHANGED <<dryRun, bundles, unread, folders, implied, expected, consumers, tasks, result>>

SortFails ==
    /\ pc = "search"
    /\ failed' = TRUE /\ pc' = "close"
    /\ UNCHANGED <<dryRun, g, bundles, unread, folders, implied, expected, consumers, tasks, result>>

CollectFolder(item) ==
    /\ pc = "produce" /\ item \in unread /\ item.type = "folder"
    /\ unread' = unread \ {item} /\ folders' = folders \cup {item}
    /\ UNCHANGED <<dryRun, pc, g, bundles, implied, expected, consumers, tasks, failed, result>>

(* rbGpgValidate: once any group has validated a bundle, every group's files  *)
(* are verified against its own.                                              *)
Verified(item) == bundles # {} => Group.key \in bundles /\ item \notin Unsigned

\* Changed: the task is queued and not counted.
AddTaskUncounted(item) ==
    /\ pc = "produce" /\ item \in unread /\ item.type # "folder" /\ Verified(item)
    /\ unread' = unread \ {item}
    /\ tasks' = Append(tasks, <<g, item>>)
    /\ implied' = implied \cup {Front(item.path)}
    /\ UNCHANGED <<dryRun, pc, g, bundles, folders, expected, consumers, failed, result>>

AddTask(item) ==
    /\ pc = "produce" /\ item \in unread /\ item.type # "folder" /\ Verified(item)
    /\ unread' = unread \ {item}
    /\ tasks' = Append(tasks, <<g, item>>) /\ expected' = expected + 1
    /\ implied' = implied \cup {Front(item.path)}
    /\ UNCHANGED <<dryRun, pc, g, bundles, folders, consumers, failed, result>>

(* An item is not verified, or reading the next one fails: what was added     *)
(* stays, and no directory is created.                                        *)
ProduceFails ==
    /\ pc = "produce"
    /\ failed' = TRUE /\ pc' = "close"
    /\ UNCHANGED <<dryRun, g, bundles, unread, folders, implied, expected, consumers, tasks, result>>

(* IsSubPath: a folder on the way to another one is left to that one.         *)
OnTheWay(item, below) == item # below /\ IsPrefix(item.path, below.path)

\* Changed: a folder next to one with files in it counts as created.
NeedsTaskAbove(item) ==
    /\ ~\E below \in folders : OnTheWay(item, below)
    /\ Group.flat \/ implied = {}

NeedsTask(item) ==
    /\ ~\E below \in folders : OnTheWay(item, below)
    /\ Group.flat \/ item.path \notin implied

(* addCreateDirsTasks; these tasks are not counted.                           *)
AddFolderTasks ==
    /\ pc = "produce" /\ unread = {}
    /\ LET needed == SetToSeq({item \in folders : NeedsTask(item)})
       IN tasks' = tasks \o [i \in DOMAIN needed |-> <<g, needed[i]>>]
    /\ pc' = "close"
    /\ UNCHANGED <<dryRun, g, bundles, unread, folders, implied, expected, consumers, failed, result>>

CloseReader ==
    /\ pc = "close"
    /\ StartGroup(g + 1)
    /\ UNCHANGED <<dryRun, bundles, unread, folders, implied, expected, consumers, tasks, failed, result>>

-----------------------------------------------------------------------------
(* The consumers: createFileHandlerFunc *)

Item(t) == task[t][2]
Target(t) == LocalPath(task[t][1], Item(t))

Take(t) ==
    /\ stage[t] = "idle" /\ next <= Len(tasks)
    /\ task' = [task EXCEPT ![t] = tasks[next]] /\ next' = next + 1
    /\ stage' = [stage EXCEPT ![t] = "start"]
    /\ UNCHANGED <<dryRun, producer, succeeded, reported, disk, tasks, failed, result>>

Ends(t) == stage' = [stage EXCEPT ![t] = "idle"] /\ task' = [task EXCEPT ![t] = <<>>]

UnchangedByTasks == <<dryRun, producer, tasks, next, result>>

DryTask(t) ==
    /\ stage[t] = "start" /\ dryRun
    /\ succeeded' = succeeded + 1
    /\ Ends(t)
    /\ UNCHANGED <<reported, disk, failed, UnchangedByTasks>>

\* The path with everything above it is a directory.
MakeDirs(p) == [q \in Paths |-> IF IsPrefix(q, p) THEN Directory ELSE disk[q]]

CanMakeDirs(p) == \A q \in Paths : IsPrefix(q, p) => disk[q] \in {Nothing, Directory}

CreateDir(t) ==
    /\ stage[t] = "start" /\ ~dryRun /\ Item(t).type = "folder"
    /\ CanMakeDirs(Target(t))
    /\ disk' = MakeDirs(Target(t))
    /\ Ends(t)
    /\ UNCHANGED <<succeeded, reported, failed, UnchangedByTasks>>

(* removeIfSymlink; what follows depends on the artifact.                     *)
RemoveLink(t) ==
    /\ stage[t] = "start" /\ ~dryRun /\ Item(t).type # "folder"
    /\ disk' = [disk EXCEPT ![Target(t)] = IF @ = Link THEN Nothing ELSE @]
    /\ stage' = [stage EXCEPT ![t] =
                   IF Groups[task[t][1]].symlink /\ Item(t).type = "link" THEN "link" ELSE "compare"]
    /\ UNCHANGED <<task, succeeded, reported, failed, UnchangedByTasks>>

Report(t) ==
    /\ succeeded' = succeeded + 1
    /\ reported' = reported \cup {task[t]}
    /\ Ends(t)

(* With everything above the file created, MkdirAll.                          *)
Put(p, content) ==
    /\ CanMakeDirs(Front(p))
    /\ disk' = [q \in Paths |-> IF q = p THEN content ELSE MakeDirs(Front(p))[q]]

(* createLocalSymlink: a file in its place is removed before.                 *)
MakeLink(t) ==
    /\ stage[t] = "link" /\ disk[Target(t)] # Directory
    /\ Put(Target(t), Link)
    /\ Report(t)
    /\ UNCHANGED <<failed, UnchangedByTasks>>

(* ... and is missed if the link then cannot be made.                         *)
LinkFails(t) ==
    /\ stage[t] = "link"
    /\ disk' \in {disk, [disk EXCEPT ![Target(t)] = IF @ = Directory THEN @ ELSE Nothing]}
    /\ failed' = TRUE
    /\ Ends(t)
    /\ UNCHANGED <<succeeded, reported, UnchangedByTasks>>

(* IsEqualToLocalFile: the file is there already.                             *)
IsEqual(t) ==
    /\ stage[t] = "compare" /\ disk[Target(t)] = File(Item(t))
    /\ Report(t)
    /\ UNCHANGED <<disk, failed, UnchangedByTasks>>

(* downloadFile in one piece: the local file is truncated, then written.      *)
Open(t) ==
    /\ stage[t] = "compare" /\ disk[Target(t)] \notin {File(Item(t)), Directory}
    /\ Put(Target(t), Partial(t))
    /\ stage' = [stage EXCEPT ![t] = "write"]
    /\ UNCHANGED <<task, succeeded, reported, failed, UnchangedByTasks>>

Written(t) == IF disk[Target(t)] = Partial(t) THEN File(Item(t)) ELSE Mixed

(* The response is a 200 and the checksum of what was received is right.      *)
Downloaded(t) ==
    /\ stage[t] = "write"
    /\ disk' = [disk EXCEPT ![Target(t)] = Written(t)]
    /\ Report(t)
    /\ UNCHANGED <<failed, UnchangedByTasks>>

\* Changed: a task whose download failed is reported with the others.
DownloadFailsReported(t) ==
    /\ stage[t] = "write"
    /\ failed' = TRUE /\ Report(t)
    /\ UNCHANGED <<disk, UnchangedByTasks>>

DownloadFails(t) ==
    /\ stage[t] = "write"
    /\ failed' = TRUE /\ Ends(t)
    /\ UNCHANGED <<disk, succeeded, reported, UnchangedByTasks>>

(* In parts: the old file stays until all of them are there.                  *)
DownloadedInParts(t) ==
    /\ stage[t] = "compare" /\ Groups[task[t][1]].split
    /\ disk[Target(t)] \notin {File(Item(t)), Directory}
    /\ Put(Target(t), File(Item(t)))
    /\ Report(t)
    /\ UNCHANGED <<failed, UnchangedByTasks>>

(* A directory or the old link is in the way, or the request fails before     *)
(* anything is written: a file operation, an error, a status that is not 200. *)
TaskFails(t) ==
    /\ (stage[t] = "start" /\ ~dryRun) \/ stage[t] = "compare"
    /\ failed' = TRUE /\ Ends(t)
    /\ UNCHANGED <<disk, succeeded, reported, UnchangedByTasks>>

-----------------------------------------------------------------------------
(* performTasks returns when the producer is done and the tasks are; then the *)
(* number of tasks is received and the summary made.                          *)
Summarize ==
    /\ pc = "over" /\ next > Len(tasks) /\ \A t \in Threads : stage[t] = "idle"
    /\ pc' = "done"
    /\ result' = [err |-> failed, succeeded |-> succeeded, expected |-> expected]
    /\ UNCHANGED <<dryRun, g, bundles, unread, folders, implied, expected, consumers, tasks, failed>>

Produce ==
    \/ GetVersion \/ Validate \/ GivesUp \/ SearchAndSort \/ SearchFails \/ SortFails
    \/ \E item \in unread : CollectFolder(item) \/ AddTask(item)
    \/ ProduceFails \/ AddFolderTasks \/ CloseReader

Consume(t) ==
    \/ Take(t) \/ DryTask(t) \/ CreateDir(t) \/ RemoveLink(t) \/ MakeLink(t) \/ LinkFails(t)
    \/ IsEqual(t) \/ Open(t) \/ Downloaded(t) \/ DownloadFails(t) \/ DownloadedInParts(t)
    \/ TaskFails(t)

Next == Produce \/ Summarize \/ \E t \in Threads : Consume(t)

Spec ==
    Init /\ [][Next]_vars /\ WF_vars(Produce) /\ WF_vars(Summarize)
    /\ \A t \in Threads : WF_vars(Consume(t))

-----------------------------------------------------------------------------
(* Properties *)

(* No two groups have a file at the same local path, and in a group there is  *)
(* no file where a folder would be.                                           *)
TargetsApart ==
    \A gr, hr \in DOMAIN Groups : \A a \in Groups[gr].items, b \in Groups[hr].items :
        a.type # "folder" /\ LocalPath(gr, a) = LocalPath(hr, b) =>
            IF b.type = "folder" THEN gr # hr ELSE gr = hr

\* A folder is there by itself or because something in it is.
FolderThere(p) == \E q \in Paths : IsPrefix(p, q) /\ disk[q] # Nothing

Content(item) == IF item.type = "folder" THEN Directory ELSE IF item.type = "link" THEN Link ELSE File(item)

(* The error is nil only if everything that was found in all the groups is on *)
(* the disk: for each local path one of the items that belong there, whole.   *)
(* (Folders of the flat mode are left out: only those without folders below   *)
(* them are created.)                                                         *)
NilMeansAll ==
    pc = "done" /\ ~result.err /\ ~dryRun =>
        \A gr \in DOMAIN Groups : \A item \in Groups[gr].items :
            IF item.type = "folder"
              THEN Groups[gr].flat \/ FolderThere(item.path)
              ELSE \E other \in Groups[gr].items :
                     /\ LocalPath(gr, other) = LocalPath(gr, item)
                     /\ disk[LocalPath(gr, item)] \in {File(other), Content(other)}

(* The summary counts what happened: the files reported to have been          *)
(* transferred are the successes, those that failed are at most the rest, and *)
(* there are none of these without an error.                                  *)
SummaryHonest ==
    pc = "done" /\ ~dryRun =>
        /\ result.succeeded = Cardinality(reported) /\ result.succeeded <= result.expected
        /\ ~result.err => result.succeeded = result.expected

(* "avoid downloading a file and then download another file to the same path  *)
(* and override it": what is reported is there, whole, and stays there.       *)
ReportedIsThere ==
    \A tk \in reported :
        disk[LocalPath(tk[1], tk[2])] \in {File(tk[2]), Content(tk[2])}

(* DownloadFiles returns, wherever its producer and its tasks fail.           *)
Returns == <>(pc = "done")
=============================================================================
