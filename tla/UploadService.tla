---------------------------- MODULE UploadService ----------------------------
(* artifactory/services/upload.go, UploadFiles: a producer collects the file  *)
(* groups, Threads consumers run the tasks, each counting in its own slot of  *)
(* the result, and the summary and the errors are read when all have ended.   *)
(* One of the groups is an archive, whose task is ZipUpload's; it is produced *)
(* after the other groups.                                                    *)
EXTENDS ZipUpload

CONSTANTS FileItems,   \* files uploaded one by one
          DirItems,    \* directories created on the server
          Threads      \* how many consumers there are

ASSUME ItemsAssumption ==
    /\ IsFiniteSet(FileItems) /\ IsFiniteSet(DirItems)
    /\ FileItems \cap DirItems = {} /\ "zip" \notin FileItems \cup DirItems

VARIABLES
    produced,   \* items whose task has been added
    waiting,    \* the runner's channel: tasks no consumer has taken yet
    producer,   \* "collecting", "archives" or "done"
    running,    \* items whose task a consumer runs
    total,      \* the sum of TotalCount, of which each thread has a counter
    success,    \* the sum of SuccessCount
    accepted,   \* items whose request the server has accepted
    transfers,  \* singleFinalTransfersWriter: items reported as transferred
    skipped,    \* history: items that were never collected
    summary     \* what UploadFiles returns, once it has

uvars == <<produced, waiting, producer, running, total, success, accepted, transfers, skipped, summary>>
allvars == <<zvars, uvars>>

NoSummary == [succeeded |-> 0, failed |-> 0, err |-> "none"]

Items == FileItems \cup DirItems \cup {"zip"}

TypeOK ==
    /\ ZipTypeOK
    /\ produced \subseteq Items /\ waiting \subseteq produced /\ accepted \subseteq Items
    /\ transfers \subseteq FileItems \cup DirItems
    /\ skipped \subseteq Items
    /\ producer \in {"collecting", "archives", "done"}
    /\ running \subseteq produced \ waiting /\ Cardinality(running) <= Threads
    /\ total \in 0 .. Cardinality(Items)
    /\ success \in 0 .. Cardinality(Items)
    /\ summary \in {NoSummary} \cup [succeeded : Nat, failed : Int, err : {Nil, "err"}]

Init ==
    /\ ZipInit
    /\ produced = {} /\ waiting = {} /\ producer = "collecting"
    /\ running = {} /\ total = 0 /\ success = 0
    /\ accepted = {} /\ transfers = {} /\ skipped = {}
    /\ summary = NoSummary

-----------------------------------------------------------------------------
(* prepareUploadTasks *)

(* CollectFilesForUpload finds a file or directory: its task is added.        *)
Collect(item) ==
    /\ producer = "collecting" /\ item \in (FileItems \cup DirItems) \ (produced \cup skipped)
    /\ produced' = produced \cup {item} /\ waiting' = waiting \cup {item}
    /\ UNCHANGED <<zvars, producer, running, total, success, accepted, transfers, skipped, summary>>

\* Changed: the group's error is logged and not queued.
SkipGroupLogged ==
    /\ producer = "collecting"
    /\ skipped' \in SUBSET ((FileItems \cup DirItems) \ produced)
    /\ producer' = "archives"
    /\ UNCHANGED <<zvars, produced, waiting, running, total, success, accepted, transfers, summary>>

(* The groups are over, or the rest of a group is given up with an error: the *)
(* producer queues the error and moves on.                                    *)
EndGroups ==
    /\ producer = "collecting"
    /\ skipped' = (FileItems \cup DirItems) \ produced
    /\ queued' = (queued \/ skipped' # {})
    /\ producer' = "archives"
    /\ UNCHANGED <<task, attempt, taskErr, pos, zip, pipe, got, stored, uploaded, listed, final, refused,
                   produced, waiting, running, total, success, accepted, transfers, summary>>

(* Closing the archive's writer may fail, which is queued; the task is added  *)
(* all the same.                                                              *)
AddArchive ==
    /\ producer = "archives"
    /\ queued' \in {queued, TRUE}
    /\ produced' = produced \cup {"zip"} /\ waiting' = waiting \cup {"zip"}
    /\ producer' = "done"
    /\ UNCHANGED <<task, attempt, taskErr, pos, zip, pipe, got, stored, uploaded, listed, final, refused,
                   running, total, success, accepted, transfers, skipped, summary>>

-----------------------------------------------------------------------------
(* The consumers *)

(* A consumer takes a task; the first thing every task does is to count.      *)
Take(item) ==
    /\ Cardinality(running) < Threads
    /\ item \in waiting
    /\ waiting' = waiting \ {item}
    /\ total' = total + 1
    /\ IF item = "zip"
         THEN Begin /\ running' = IF task' = "done" THEN running ELSE running \cup {item}
         ELSE running' = running \cup {item} /\ UNCHANGED zvars
    /\ UNCHANGED <<produced, producer, success, accepted, transfers, skipped, summary>>

\* Changed: an upload that failed is counted and reported as well.
TaskEndsOptimistic(item, ok) ==
    /\ running' = running \ {item}
    /\ success' = success + 1
    /\ transfers' = transfers \cup {item}
    /\ queued' = (queued \/ ~ok)

(* The end of a task: postUpload, or the error into the queue.                *)
TaskEnds(item, ok) ==
    /\ running' = running \ {item}
    /\ IF ok THEN /\ success' = success + 1
                  /\ transfers' = transfers \cup {item}
                  /\ UNCHANGED queued
             ELSE queued' = TRUE /\ UNCHANGED <<success, transfers>>

(* uploadFile: a checksum deploy or an upload; its error covers every status  *)
(* that is not a success.                                                     *)
UploadFile(item) ==
    /\ item \in running \cap FileItems
    /\ \/ accepted' = accepted \cup {item} /\ TaskEnds(item, TRUE)
       \/ UNCHANGED accepted /\ TaskEnds(item, FALSE)
    /\ UNCHANGED <<task, attempt, taskErr, pos, zip, pipe, got, stored, uploaded, listed, final, refused,
                   produced, waiting, producer, total, skipped, summary>>

(* createFolderInArtifactory looks at the error of the request only: with an  *)
(* answer of whatever status the directory counts as uploaded.                *)
CreateFolder(item) ==
    /\ item \in running \cap DirItems
    /\ \/ accepted' \in {accepted, accepted \cup {item}} /\ TaskEnds(item, TRUE)
       \/ UNCHANGED accepted /\ TaskEnds(item, FALSE)
    /\ UNCHANGED <<task, attempt, taskErr, pos, zip, pipe, got, stored, uploaded, listed, final, refused,
                   produced, waiting, producer, total, skipped, summary>>

(* The archive's task: a success is counted where it is known, in Finish.     *)
ZipTask ==
    /\ "zip" \in running
    /\ Task
    /\ running' = IF task' = "done" THEN running \ {"zip"} ELSE running
    /\ success' = IF task = "finish" /\ uploaded THEN success + 1 ELSE success
    /\ accepted' = IF stored' # stored THEN accepted \cup {"zip"} ELSE accepted
    /\ UNCHANGED <<produced, waiting, producer, total, transfers, skipped, summary>>

-----------------------------------------------------------------------------
Consumer(item) == Take(item) \/ UploadFile(item) \/ CreateFolder(item) \/ (item = "zip" /\ ZipTask)

(* consumer.Run() returns when the tasks are done.                            *)
RunOver == producer = "done" /\ waiting = {} /\ running = {}

(* performUploadTasks and the end of UploadFiles; closing the results'        *)
(* writers may fail.                                                          *)
Summarize ==
    /\ summary = NoSummary /\ RunOver
    /\ summary' \in {[succeeded |-> success, failed |-> total - success, err |-> e] :
                        e \in IF queued THEN {"err"} ELSE {Nil, "err"}}
    /\ UNCHANGED <<zvars, produced, waiting, producer, running, total, success, accepted, transfers, skipped>>

Producer == (\E item \in FileItems \cup DirItems : Collect(item)) \/ EndGroups \/ AddArchive

Background == Zipping /\ UNCHANGED uvars

Next == Producer \/ Summarize \/ Background \/ \E item \in Items : Consumer(item)

Spec == Init /\ [][Next]_allvars

FairSpec ==
    /\ Spec
    /\ WF_allvars(Producer) /\ WF_allvars(Summarize)
    /\ \A item \in Items : WF_allvars(Consumer(item))
    /\ WF_allvars(CopyReads /\ UNCHANGED uvars)
    /\ WF_allvars(TransportReads /\ UNCHANGED uvars)
    /\ \A g \in Gens : WF_allvars(Zipper(g) /\ UNCHANGED uvars)

-----------------------------------------------------------------------------
(* Properties *)

Ended == summary # NoSummary

(* The summary counts what happened: every item is a success or a failure or  *)
(* was never collected, and a file or an archive that is reported as a        *)
(* success is on the server.  Directories are left out: their answer's status *)
(* is not looked at.                                                          *)
SummaryHonest ==
    Ended =>
        /\ summary.succeeded + summary.failed = Cardinality(Items \ skipped)
        /\ summary.failed >= 0
        /\ transfers \cap FileItems \subseteq accepted
        /\ uploaded => "zip" \in accepted
        /\ summary.succeeded = Cardinality(transfers) + IF uploaded THEN 1 ELSE 0

(* No error from UploadFiles: nothing was skipped and nothing failed, though  *)
(* errors come from the producer, the consumers and the zips' goroutines.     *)
NilMeansAll ==
    Ended /\ summary.err = Nil =>
        /\ skipped = {} /\ summary.failed = 0
        /\ transfers = FileItems \cup DirItems
        /\ stored = Whole /\ final = Files

(* UploadFiles returns, unless an archive's attempt was refused before it was *)
(* sent: nobody reads that attempt's pipe.  With checksums, that is: without  *)
(* them GetFileDetailsFromReader returns at once, nobody reads the first      *)
(* zip's pipe to its end or closes it, and zipReadersWg.Wait waits for ever.  *)
CompletesUnlessRefused == <>(Ended \/ refused)
=============================================================================
