# A TLA+ verification of jfrog-client-go

`jfrog-client-go` is the Go client library for the JFrog products (Artifactory,
Xray, Distribution, Pipelines, Access).  Most of its services translate one call
into one REST request.  What makes the library hard to get right is underneath
and beside that: retry loops inside retry loops, a shared `http.Client`,
downloads split over goroutines, JSON files written and read by goroutines
behind a bounded channel, archives that are zipped while they are being sent,
calls that wait for a job that runs on a server, a token that threads share and
renew, lists of items that are sorted, merged and reduced before thousands of
requests delete, move or download what they name, and administrative calls whose
requests and answers get lost.  This directory models these parts, checks them
with TLC and proves the most important facts with TLAPS.

Line numbers below are those of the repository.  `PROJECT.json` maps every
definition to the lines it stands for.

## 1. The system: inventory

| component | state | operations | what is hard, and what must hold |
|---|---|---|---|
| Retry executor (`utils/retryexecutor.go`) | loop index, last error, the caller's context | `Execute` | cancellation during a run or a sleep; the verdict of an exhausted loop. Bounded runs, an honest nil. |
| Waiting for a job (`pollingexecutor.go`, Xray scans, Distribution) | the wait's counter, the last poll's body | scan, build scan, distribute, delete (remote, local) | the job ends between the last poll and the timeout; a dry run starts no job. The verdict matches the job. |
| HTTP client (`http/httpclient/client.go`) | one `http.Client` with its `CheckRedirect`, a context, the retry counts | `Send`, `SendGet`, `SendPost`, `ReadRemoteFile`, `DownloadFile…`, `UploadFile` | nested retries, redirects of a POST, threads that share `CheckRedirect`, bodies left open, a local file left by an earlier attempt |
| Chunked download (same file) | result lists indexed by chunk, shared `err` and `resp`, temp files | `DownloadFileConcurrently` | the main goroutine reads what the chunks' goroutines write; partial failure; the old local file |
| Retryable connection | retry counter, the monitor's goroutines and channel of capacity 1 | `Do` | the timer races the reader; stable connections give the retries back |
| Content writer, errors queue | bounded channel, temp file, bounded queue of errors | `Write`, `Close` | failures of every file operation; the worker that never starts |
| Content reader | bounded channel, `sync.Once`, length, files | `NextRecord`, `Reset`, `Length`, `Close`, merge and sort | a reset while a goroutine still reads; partial failure is told by `GetError` only |
| Upload service | queue of tasks, per-thread counters, writers of results, errors queue | `UploadFiles`, archives | errors from the producer, the consumers and the zips' goroutines; several generations of zips over one reader |
| Download service | the same, and the folders found and implied, the validated bundles | `DownloadFiles` | as above; files that share a local path, folders that must be made, links, disks that hold something already |
| SSH and token authentication (`auth/`) | token, headers, one mutex | interceptors before each request | several requests find the token about to expire at once; early returns that must unlock; a token that expires on its way |
| Search and delete | temp files of sorted results, threads | `GetPathsToDelete`, `DeleteFiles` | directories that hold protected files must survive; lists are merged and scanned by the order of texts; read errors |
| Move, copy, properties | the same; a reader that the caller uses twice | `MoveCopyServiceMoveFilesWrapper`, `SetProps`, `DeleteProps` | the lists of several specs overlap; a refused request is only counted; the reader must be reset |
| Git LFS clean | two readings, of Artifactory and of Git | `GetUnreferencedGitLfsFiles`, then `DeleteFiles` | somebody pushes meanwhile |
| Administration (repositories, users, groups, permissions, replication, keys, tokens, builds, projects, bundles, watches, policies, reports, pipelines, ...) | none in the client; the server's things | some hundred methods of five managers | requests and answers that are lost and repeated, late requests, other callers between a lookup and a write, statuses that are taken for absence |
| AQL builder, specs, patterns, VCS details, files, logger, configuration | none, or local | pure functions, file operations | text; not planned |

How they interact.  A service calls `JfrogHttpClient`, which runs the
interceptors (the token refresh is one) and then an `HttpClient` operation;
every such operation is a `RetryExecutor` loop around `http.Client.Do`.  A
search writes its results with a content writer, whose file a content reader
reads; uploads and downloads take their work from such readers.  The upload and
download services run producers and consumers (`gofrog/parallel`, external)
whose tasks share an errors queue and per-thread counters, and one `HttpClient`.
The Xray build scan and the Artifactory Xray scan use the polling executor and
the retryable connection.

## 2. The modules

| module | models | extends / instantiates |
|---|---|---|
| `RetryLoop` | what one iteration of `RetryExecutor.Execute` decides, as operators | |
| `RetryExecutor` | `Execute` step by step, beside the owner of the context | `RetryLoop` |
| `Polling` | the calls that wait for a server's job, and the job | extends `RetryExecutor` |
| `FileFetch` | abstract: what a download promises | |
| `HttpClient` (`_proofs`), `MCHttpClient` | the calls of threads that share one client | `RetryLoop`; implements `FileFetch` |
| `ConcurrentDownload` (`_proofs`) | the chunked download | `RetryLoop`; implements `FileFetch` |
| `RetryableConnection` | `Do`, the monitor, the timer | |
| `ContentWriter` | writers, worker, owner, the errors queue | |
| `WaitingCalls` | one call that waits: for a job, a response or a worker | extends `Polling`, `RetryableConnection`, `ContentWriter` |
| `ContentReader`, `MCContentReader` | readers, their goroutines, resets, lengths | |
| `Answers_proofs` | what is proved of the two readers above and of `Administration` | extends the three |
| `ZipUpload` | one archive that is zipped while it is sent | `RetryLoop` |
| `UploadService` (`_proofs`) | `UploadFiles`: producer, consumers, summary | extends `ZipUpload` |
| `SearchResults` (`_proofs`) | items, their keys, sorted buffers, merges, both reductions: operators | |
| `ItemTasks` | the producer and the threads that send a request per item | extends `SearchResults` |
| `DeleteService` | the delete service with the repository | extends `ItemTasks` |
| `MoveCopyService` | moves and copies of the items of one or two specs | extends `ItemTasks` |
| `PropsService` | `SetProps`, then `DeleteProps` with the same reader | extends `ItemTasks` |
| `GitLfsClean` | the LFS files no reference points to, beside a push | extends `ItemTasks` |
| `ItemServices` (`_proofs`), `MCItemServices` | one call of one of these services; the LFS clean with the deletion of its result | instantiates the four; its proofs extend those of `SearchResults` |
| `DownloadService` (`_proofs`), `MCDownloadService` | `DownloadFiles`: producer, consumers, disk, results | |
| `TokenRefresh` | the threads that share a token, the mutex, the clock | |
| `Waiting_proofs` | what is proved of the retry executor, of polling, of the token and of the content writer | extends `Polling`, `TokenRefresh`, `ContentWriter` |
| `RemoteOperation` | what a one-request method asks and what it makes of the answer: operators | |
| `ArtifactoryOperations`, `PlatformOperations` | every method in these terms | extend `RemoteOperation` |
| `Administration` | callers of these methods, the network and the server | extends both |

Each module's operators that begin with a comment `Changed:` are deliberate
faults: `PROJECT.json`, "mutants", pairs each property with one of them, and TLC
must find the property violated once the fault takes the place of the original.

### RetryExecutor, Polling

`pc` is the place in the loop: the test (`loop`), the running handler
(`handler`), `checkCancelled` (`check`), `time.Sleep` (`sleep`).  The handler is
any code: each run returns any `(shouldRetry, err)`.  `Cancel` and
`DeadlinePasses` may happen at any step; only `context.Canceled` stops the loop,
an expired deadline does not, as in the code.  `Polling` puts the five callers
around it.  The scans and `Distribute` use the executor (`Handler`, `Executor`);
the two deletions have a loop of their own (`DeletionPolls`, `DeletionWakes`,
`DeletionTimesOut`), of which `i` counts the intervals.  `job` belongs to the
server and ends, well or badly, at any time or never.  `JobEnds` is external.
The order in which `return finalResponse, retryExecutor.Execute()`
(pollingexecutor.go:35) evaluates its operands is left open by the language;
the model follows the compiler in use, which reads the variable after the call.

### HttpClient

`call[t]` is a record of the named results of the Go functions on the stack of
thread `t`.  `frames` holds the loop index of every `Send` that is active: a
POST answered with a redirect sends again from within `doRequest`.  `outer` is
the loop of `downloadFile` or `UploadFile` around it.  `Install`, `Answer`,
`Fail`, `Redirected` and `Reset` are the parts of `doRequest` between which
another thread can act on `checkRedirect`; `Verdict` is the handler of `Send`
with the loop's decision; `NotSaved`, `Save` the second half of
`doDownloadFile`; `UploadAnswer` and its neighbours the attempt of an upload.
Statuses are one of each class that the code tells apart.  What the threads
call, with which client and server, is the *workload*: one operation alone, with
every answer and two retries, or two that race on the shared closure.

### ConcurrentDownload

`chunk[k].pc` is the goroutine of range `k`: it fetches (all its retries are one
step, since nothing else reads what they do), stores its slot (`Store`) and
raises the shared flags (`Flag`) in a second step: the main goroutine reads the
flags without synchronisation and may (`Stop`) or may not end the loop.  `Wait`,
`Collect`, `Prepare`, `MergeNext`, `MergeFails`, `Check` and `Cleanup` follow
`DownloadFileConcurrently` after `wg.Wait`; `TempDirFails` is its first return.

### RetryableConnection

`Do` connects, and waits on `errChan`; the reader (`ReadLine`, `ReadStops`,
`ReaderSends`) and the timer (`TimerLooks`, `TimerSends`) race for its one slot.
Time is two flags: `quiet` (the read timeout has passed since the last line) and
`old` (the connection is older than the stability window).

### WaitingCalls

The three systems of this library in which one call waits for something that goes
on without it, side by side: `awaited` says which of them the behaviour is about, and
the others stay where they begin.  They share no variable of the code (a search
does not poll, a connection writes no records), so nothing is lost by not
interleaving them; `ItemServices` is put together in the same way.

### ContentWriter, ContentReader

A `Write` is `Begin` (sets `empty`), `Start` (the `sync.Once`) and `Send`, which
blocks on the full channel.  The worker opens (`Open`), takes records (`Take`),
writes the end (`End`) and syncs (`SyncFile`); each file operation named in
`Faults` may fail, and its error goes to the bounded queue, which drops what
does not fit.  In `ContentReader` a *generation* is one channel with its
`sync.Once`; `Reset` starts the next one and leaves the goroutine of the earlier
one alone, which sends to whatever channel it finds in the reader (`Push`).
`cr.length++` is two steps, as it is not atomic.

### ZipUpload, UploadService

`readFilesAsZip` starts a goroutine that takes records from the archive's reader,
adds each file to a zip and writes it to a pipe.  It runs once for the size and
the checksums and once per attempt of the upload: these are the generations
`Gens`.  All of them take from the same reader (`pos`), which `GetReader` resets
before an attempt.  `zip[g].buf` is what the zip writer holds back; `PipeRead`
is the rendezvous of a write and a read.  `UploadService` is the rest:
`Collect`, `EndGroups` and `AddArchive` are the producer, `Take` and the task
actions the consumers, `Summarize` the end of `UploadFiles`.

### SearchResults, ItemTasks and the services of items

Readers of sorted temp files are sequences; `SplitAndSort` cuts a list into
buffers of `BufferSize` items and sorts each, `Merge` merges them (for
`mergeSortedReadersByCalculatedKey` once per key), `FilterTopChainResults` drops
what is below a directory that stays, `FilterBottomChainResults` the directories
that lead to what stays.  Texts are compared as Go compares them, so names are
sequences of characters: which of `a-`, `a/` and `ab` comes first decides what is
deleted.  `ItemTasks` is the loop all services share: `Begins` starts it,
`Take` is the bounded runner, a task `Succeeds`, `Fails` or ends `Uncounted`.

In `DeleteService` `Search`, `Filter`, `SearchProtected` and `MergeDirs` are the
calls of `removeNotToBeDeletedDirs`; `SkipDir`, `WriteDir`, `NextArtifact`,
`WriteRemainCandidates` and `DirsOver` are the branches of one turn of the loop
in `WriteCandidateDirsToBeDeleted`, with the records at hand as the heads of
`dirs` and `guards`; `Reduce` is the sort and the top chain.  `tree` is what the
server holds.  `lost` remembers that a reader's error was taken for its end
(`contentreader.go`, lines 412-414; the loop at `deleteutils.go:60`), which the
properties exempt.  In `MoveCopyService` `GetPathsToMove` searches and reduces
one spec, `MergeReaders` puts the lists together and, for a move, reduces the
whole; `placed` says which item was put at the target of which spec.
`PropsService` follows one reader through two calls.  `GitLfsClean` has two
readings, `SearchLfsFiles` of Artifactory and `Collect` of a local repository, and
beside them a push in two steps (`PushFiles`, `PushRef`).  The code opens the local
repository and never fetches (`gitlfsclean.go:178`), so the pushed reference is in it
only if it was committed there before the push (`Commit`), or if somebody fetches it
after (`Fetch`).  `unaware` is a history: at which of the readings the file was on the
server and its reference not in the local repository.  The run lets `DeleteFiles`
work on the result.

### DownloadService

The producer (`pc`, `g`) verifies a bundle, searches, sorts, adds a task for
each file and link (`AddTask`), remembers folders, and at last adds tasks for
those folders that no file implies (`AddFolderTasks`).  A consumer's task passes
through `stage`s between which another task may act on the same path: `MakeDirs`,
`RemoveLink`, `IsEqual`, `Open`, `Written`, `Report`.  `disk` is the content at
every local path; a file that two threads write at once is `Mixed`.

### TokenRefresh

`step` of a thread is its place in `SshTokenRefreshPreRequestInterceptor`: the
unlocked look (`Check`), the mutex (`Lock`), the look under the mutex with the
sleep (`Recheck`, `WaitIsOver`), the authentication with each of its early returns
(`NoAgent`, `AgentFails`, `NoKey`, `KeyFails`), and `CopyToken`, after which
`Send` is the request.  `clock` is the time, `age` how long a thread has been at
its place: a thread that can go on does so within `MaxDelay`.

### Administration

A method is a record of what it asks (`lookup`, `request`, `sends`) and of what
it makes of the status (`accepts`, `missing`, `conflict`); `RemoteOperation` has
the shapes and the two `...Operations` modules one definition per method of the
services.  `Administration` runs two callers of methods for one kind of thing.
A request may be lost (`RequestLost`), its answer may be (`AnswerLost`), it may
be repeated (`Retries`), or arrive after its caller has given up (`Delayed`,
`Arrives`); `NotServed` are refusals and failures of the server.  An answer with an
accepted status may have a body that a method which `decodes` it cannot decode
(`Outcomes`): the server has done what was asked, and the call ends with an error
(`"garbled"`).  `saw` is a history of what the server held during a call.

## 3. What the runs check

Deadlock is not checked: every one of these systems stops when its calls have
returned.  That they do return is a liveness property instead.

| run | instance | shows |
|---|---|---|
| `WaitingCalls` | all six callers of `Polling` with 3 retries (a first, a middle and a last iteration); a retryable connection with 2 retries, 2 lines, 2 losses of stable connections; 2 writers of 2 records, capacity 2 (fewer than the records), all faults | at most one run after a cancellation; the verdict of a wait is the job's, and a completed job that was seen is reported; what `Do` returns is a whole response, or the error of exhausted retries; a nil from `Close` means a complete file, a skipped record leaves a JSON array, and the file is final after `Close`; every call returns, although the job may not end, the server may stall, and unless the worker was lost |
| `HttpClient` | one workload of `MCHttpClient`: each of seven operations alone with 2 retries, 1 nested redirect, statuses 200/302/404/503; four pairs of operations with 1 retry | with a nil error there is a response below 500; the number of requests is bounded; no body is left open; a download implements `FileFetch` through all its attempts |
| `HttpClient_RedirectRace` | a GET that must not follow redirects beside one that may | *violated*, see 6 |
| `ConcurrentDownload` | 7 bytes in 3 chunks (a remainder), 1 retry | the contract of the result; the old file is kept until the merge; `FileFetch` with its liveness |
| `ContentReader` | 2 consumers, files of 2 and 1 records, capacity 1, one reset, errors | an `EOF` without an error means that all records were received, and `Length` is their number or an error, when `Reset` and `Length` are called at the ends of readings (`Careful`); the calls return |
| `ContentReader_MidReset` | one consumer that resets while the goroutine reads (`Careful = FALSE`) | *violated*, see 6 |
| `UploadService` | with checksums: an archive of 2 files, a file and a directory, 2 consumers, 1 retry (three generations of zips) | a nil error means that nothing was skipped, nothing failed and the archive is whole; the summary counts what happened; `UploadFiles` returns, unless an interceptor refuses an archive's attempt |
| `UploadService_NoChecksums` | one archive of 2 files, no retry, `ChecksumsCalc = FALSE` | *violated*, see 6 |
| `DownloadService` | a group of a release bundle and a flat one, with files of one name, links and folders; empty and used disks; 2 consumers | a nil error means that everything is there; the summary is honest; what was reported is there and stays; `DownloadFiles` returns |
| `ItemServices` | deletions in three repositories (three directories at the top with names that sort around each other; a chain over two buffers; names with dashes); moves and copies of one or two specs that overlap; properties set and deleted with one reader; an LFS clean beside a commit, a push and a fetch; 2 threads | no protected file is deleted; nil means gone, or placed; no task takes another task's item; the properties follow the reader; no LFS file that a matching reference points to is deleted, nor one that is pushed meanwhile if the local repository had its reference in time |
| `Administration` | 2 callers of every method, on each kind of thing, 1 retry | nil means done; "exists" and "not there" are true; every thing that is issued is accounted for by a lost answer, by nil or by the one answer that could not be decoded; what a call may not touch is kept |
| `TokenRefresh` | 2 threads of 2 requests, a token of 9 ticks, minutes of 2 | a token is renewed only when it is about to expire; a request is sent with a valid token; every request ends |

Why these bounds are enough.  Retry loops differ in their first, middle and last
iterations only, hence 1 to 3 retries.  Two threads are what a race on one
variable needs; two files are what it takes to lose one *between* others;
channels and buffers (`Capacity`, `BufferSize`) are smaller than the number of
records, so that senders block and lists are merged.  `MaxAttempts`, `MaxStable`,
`MaxResets`, `MaxRedirects`, `MaxRequests`, `MaxTokens`, `MaxClock` and the
workloads' `cap` bound counters that the code does not bound or that are history
variables: the counters saturate, and the others bound the environment (a server
that redirects for ever, a connection that becomes stable again and again, a
caller that resets or asks for ever).  `MaxClock` lies beyond the end of the
first token's life.

Every module with state has a `TypeOK` (`PollTypeOK`, `ConnTypeOK`, `TokenTypeOK`, `WriterTypeOK`).  Those, and `RetryBudget`,
`NilMeansSuccess` and `LastErrorWins` of `RetryExecutor`, `JoinedBeforeUse`,
`NoNilResponseRead` and `WholeFile` of `ConcurrentDownload` (all of these are
proved), and `ClientLeftClean` of `HttpClient`, are stated in the modules and not
named in a configuration; adding them to the `INVARIANTS` of the cfg checks them.

### Fairness

Always weak, and always of what the scheduler or a returning system call gives:
a goroutine that can go on does; a handler, a request or a file operation
returns, with whatever result.  Nothing is assumed of servers (they may never
end a job, never send another line), of cancellation, or of the order of
goroutines.  In `RetryableConnection` and `TokenRefresh` time passes
(`WF` of `TimePasses` and of `Tick`), which is what the timer and the sleep are for.
`WaitingCalls` states the fairness of its three systems one by one (`JobFairness`,
`ResponseFairness`, `WorkerFairness`).
`DownloadService` and `UploadService` ask it of the producer, of every consumer
and of the summary separately: neither waits for the others' luck.
`ItemServices` and `Administration` have safety properties only.

## 4. What is proved

For all values of the constants, by `tlapm`:

* `Waiting_proofs`, first part: `Execute` for every `MaxRetries` (negative ones
  included) and any handler: types, `RetryBudget`, `NilMeansSuccess` with
  `LastErrorWins`, `CancelStopsRetries`; and the last one again for the callers of
  `Polling`, whose steps are those of `Execute` while a handler's loop runs
  (`CallersStopOnCancel`).  `RetryBudget` is not inductive: `IndexInv` ties the
  number of runs to the loop's index at each place of the loop, `SleepInv` the
  sleeps, `RetryInv` says that the loop goes round only after a run that asked
  for it, and `CancelInv` where the loop may stand after a cancellation.
* `Waiting_proofs`, second part: for every `MaxRetries`, caller and error of a
  handler `VerdictMatchesJob`.  While a call polls it has not seen the job over
  (except a deletion, which does not look at failures); `ExecutorStopped` and
  `DeletionStopped` say what each of the two kinds of loop has stopped for.
* `Waiting_proofs`, third part: `TokenRefresh` for every set of threads, life of
  a token, length of a minute, margin and wait: the mutex has one holder, and who
  authenticates has found the *shared* token about to expire (`OneHolderRenews`),
  hence a fresh token is never replaced (`FreshTokenKeptHolds`).  `RenewsOldToken`
  is the inductive part: the second look under the mutex is what makes it so.
* `HttpClient_proofs`.  For every set of threads that share the client, workload
  of operations and answers, number of retries and of redirects: `ResultContract`,
  `BodiesClosed`, `RequestBudget`, and that a download implements the safety part
  of `FileFetch`.  `CallInv` speaks of one call and of none of its registers that
  another thread can write (the redirect URL is the only one), so that
  `OthersKept` carries it over every step of another thread: what the race on the
  shared closure spoils is the number of requests and the status that is
  accepted, not the contract.  The budget is an invariant of a call that nobody
  disturbs: what it has sent and what the `Send`s on its stack may still send
  are at most the budget.  A POST may send again for each redirect, with all the
  attempts anew: with `n` attempts and no redirects `n` requests, with one
  more redirect `n` times one more than before (`PostRequests`).
* `ConcurrentDownload_proofs`.  For every file size, number of chunks and
  retries: the ranges partition the file (`RangesPartitionFile`) and are not
  empty if the file has a byte per chunk (`RangesUsable`); no nil response is
  read and no goroutine survives; the contract of the result; the whole file; the
  old file is kept; and the safety part of `FileFetch` is implemented by every
  step (`ImplementsFileFetch`).  The invariant says who owns each slot of the
  result lists (`SlotInv`), that the launched goroutines are those below the loop
  index (`LaunchInv`), that a raised flag has a failed or rejected chunk behind
  it (`FlagInv`, `StopInv`: leaving the loop early implies one), from which the scan of the
  lists is sound (`ScanIsSound`; the least index comes from the well-foundedness
  of `<` on the naturals).
* `Waiting_proofs`, fourth part: `ContentWriter` (whose names have a prefix here,
  `WriterInit`) for every set of writers, number of records, capacity and set of
  faults: types, `NilMeansComplete`, `ClosedIsFinal`,
  `SkippingKeepsJson`.  `ErrsInv`: an error stays in the queue from the first
  failure on, however many are dropped; `HeldInv`: until a failure the file and
  then the channel hold exactly what was sent; `TextInv`: the texts around it.
  For the skipped records `RecordsInOrder` takes the records of each writer
  through the file, the channel and the writer's own counter in one order, and
  `SkipInv` says where a comma stands when nothing but encodings has failed.
* `Answers_proofs`, first part: `ContentReader` for every number of files and of
  their records, every set of consumers, number of resets and capacity, when
  `Reset` and `Length` are called at the ends of a reading (`Careful`, an
  assumption of the theorem; without it the property is false): `ReadingsComplete`.
  That a reading comes from the start after *any* `Reset` is false of the code and
  no theorem (6, item 2).
  `WorkerAt`: only the goroutine of the present generation is under way and it
  sends to its own channel, which is closed only by it; `StreamAt`: what was
  received and then what the channel holds are, in order, the records before the
  goroutine's place, all of them unless an error was queued; `LengthInv`: the length
  is that of what was received, unless two consumers counted at a time.
* `Answers_proofs`, second part: `RetryableConnection` for every number of
  retries (-1 for unlimited included), window, handler and length of the response:
  `ResultHonest`.  `ReadInv`: a nil in the channel comes from a reader that has met
  the end and is the last thing that reader does; `RetryInv`: the attempts since
  the last stable connection are what `retry` has counted, one more while a
  connection is used (`RetriesCounted`).  The module extends all three
  specifications, so the names of this one and of the next have a prefix
  (`ConnInit`, `AdminInit`).
* `Answers_proofs`, third part: `Administration` for every set of callers, number
  of attempts and kinds: types, `NilMeansDone`, `AbsenceIsReal`, `IssuedOnce` and
  `OthersKept`.  `MethodsSound` first goes through every method of the 25 kinds and
  says what they have in common: they take no refusal for a success, for an
  absence (but for `IsRepoExists`) or for an existing thing; a 404 or an empty
  answer is an absence only to a request that needs the thing, and a conflict one
  only to a request that needs its absence; who keeps what exists either sends a
  strict creation or looks first.  `Good` is the invariant of one call: what its
  verdict claims it has seen, a look that found nothing stays seen until the
  request is sent and while it is late, and what was made is at most what was lost,
  less what is still to arrive, and the one answer that ended the call, with nil or
  because it could not be decoded.  Steps of other callers only add to
  what a call has seen, so it is kept by them (`Continues`).
* `SearchResults_proofs`: the operators, for every list of items and size of the
  buffers.  Each of them is a fold; `FoldExists` turns a fold into a function, from
  which the lemmas `...Runs` take the sequence of its steps, and what is proved of
  the result is proved along it.  `Less` is a strict
  total order of texts (`LessTransitive`, `LessTotal`) in which what lies between a
  text and one it is a prefix of has that prefix too (`Between`); a path is a
  prefix of another one exactly if its text with a slash is one of the other's
  (`WayPrefix`), so what sorts together below a folder is below it.  From these
  `SplitIs` (each buffer sorted, nothing lost), `MergeIs` and `MergeRises` (the merge
  has the readers' keys, in order if they are), `FilterTopIs` and `FilterBottomIs`,
  and the theorems `ReduceTopIs` and `ReduceBottomIs` of the whole reductions.
* `ItemServices_proofs`.  For every repository, kind of call, limit, size of the
  buffers and number of threads `TasksFindTheirItem`, `NilMeansGone` and
  `NilMeansPlaced`.  The invariants speak of the tree (or the specs) the call has
  found.  `DeleteInv`: an item that was found is on its way to the list
  of deletions at whatever place the call is, or may stay (`Gathered`); the list
  that was reduced is `Clear`, no item of it at or below another one, so no task
  takes what another one needs (`Targets`); unless one failed, the tasks that have
  ended have removed their items, and are counted (`Deleted`).  `MoveInv`: what a spec
  has found is in its reader, or below a folder of it (`HeldByReaders`), then at or
  below the item of a task (`HeldByTasks`); a move takes away only what is below the
  item of a task that has ended, so the others are still there (`TakenByEnded`); and
  there are at least as many tasks that were carried out as successes
  (`CountedAreCarried`), so that all were if all succeeded (`AllCarried`).
  `ProtectedKept` is proved under `Reliable`: the search has no limit, and the
  directories fit in one buffer or are sorted in the order they are merged in.
  Without either it is false of the code (6, items 5 and 6).  `KeptInv`: no item
  on its way to the list is at or above a protected file (`Harmless`); until the scan
  the protected files found are all of them and their merged list rises
  (`KeysRise`), as that of the directories does (`DirsRise`); and `GuardsLeft` is
  what the scan keeps: the protected files below the directories at hand are
  at hand.  A directory that is written comes before the location of the file at
  hand without leading to it, so a later file cannot be below it (`WriteDirSpares`);
  a file is passed only when the directory at hand comes after its location, as all
  that follow do (`PassedSpares`).
  For every repository, reader and number of threads also `PropsFollowReader`.
  `ListOfFound`: the tasks are the reader's items, all of them unless there is an
  error; `HasInv`: the tasks that have ended have done what was asked, unless there
  is an error.  For every set of LFS files and references and any push
  `ReferencedKept`.  `ThereInv`: what a reference points to is on the server, and so
  is what is pushed once its upload is over; `FoundInv` and `KeepInv` follow the push
  through the two readings: a pushed file that was found is also kept, unless its
  reference was in the local repository at neither reading; `TasksInv`: only what was
  found and is not kept is deleted.
* `UploadService_proofs`.  For every set of files and directories, number of files
  in the archive, of retries and of consumers: `SummaryHonest`, from `CountInv`
  (the total is the number of items a consumer has taken, the successes those that
  are reported and the archive once `Finish` has counted it) with `SetsInv` and
  `ArchiveInv` (where the archive stands as an item and as a task).  With checksums
  also `NilMeansAll` and `NilMeansWholeArchive`, from `WholeInv`: as long as the
  errors queue is empty, what has come out of the first pass's pipe, what its zip
  writer holds and what is listed are together the first `pos` files; after it,
  every later attempt either sends the same content or fails.
* `DownloadService_proofs`.  For every list of groups (with any finite sets of
  items), disk, set of consumers, signed or not, wherever it fails: types and
  `SummaryHonest`; and if no two groups put a file at one local path, and a group
  none where it has a folder (`TargetsApart`), `ReportedIsThere` and `NilMeansAll`.  Without that hypothesis the
  last two are false of the code: two tasks may write one local file at the same
  time (`Mixed`), which the code only avoids within a group.
  `ApartInv`: the tasks of a group lie apart, and apart from what its sorted reader
  still holds, because sorting leaves one item per local path; so a task is taken
  once (`OnceInv`) and counted once (`CountInv`).  `CoverInv`: unless there is an
  error, what a finished group has found is queued, a folder through a task at or
  below it (`LowestFolder`: below each folder is one that is on the way to no other).
  `DoneInv` and `FolderInv`: a task that was taken is at work, or done.  On the disk a
  step changes, beside its own path, only what was nothing into a directory, and it
  never replaces a directory (`Framed`), so that `WriteInv` and what was reported
  stay.  The groups of the run satisfy `TargetsApart` (`SeparateAssumption`).

The assumptions are those named in the modules (a capacity and a split count of
at least one, natural sizes, finite sets of items, `None` that is no status or
thread; in `SearchResults` that a slash is a character; in `ItemServices` that trees
and what a list of specs finds are finite sets of items that `Fit`, which is that
only folders have something below them, that an LFS file, which has its
checksum for a name, is never below another one, and that what is pushed is new);
they are what the builders, the callers and the servers guarantee.  TLC
evaluates each of them in a run.  `TargetsApart` and `Reliable` are hypotheses of single
theorems and no assumptions; that the runs' constants satisfy them is checked too
(`SeparateAssumption`, `ReliableAssumption`).

Where a proof needs induction over numbers or finite sets it takes a least
counterexample instead (`WFMin` with the order of the naturals), since the
induction theorems of the library have an operator for a parameter.

Only model-checked, and why:

* everything about liveness, the refinements' liveness included;
* `SentTokenValid` of `TokenRefresh`: how late a request is sent depends on how
  many threads queue for the mutex before it, so it holds when the delays, the
  number of threads and the wait fit together, as in its run;
* `NilMeansAll` of `UploadService` is neither checked nor proved without checksums.

## 5. What is abstracted, and what is not modelled

* Headers, URLs, query texts and response bodies: a body is what the caller does
  with it (a file's content as good, bad or partial; a job's state).
* `UploadService`: the archive's records are assumed to be in the reader's channel
  (fewer than `MaxBufferSize`, 50000); there is one archive, no dry run and no
  symbolic link.  What `CollectFilesForUpload` selects is a set.
* The goroutines of *earlier* connections in `RetryableConnection` (the timer's
  goroutine never ends) are not in its state.
* `DeleteService`: the pattern matches the whole repository, the server changes
  only by this client's requests, a search returns an item once; directories that
  have the exclude properties themselves are left out.
* `MoveCopyService`: of the orders in which a search may return its items one is
  taken (they are sorted next); the place of an item at its target is the spec
  that put it there, so the arithmetic of target paths is left out.
* `DownloadService`: placeholders in targets, archives that are extracted after
  the download, and the progress display.  A file download is what
  `HttpClient` and `ConcurrentDownload` promise of it.  `Report` counts a success and
  lists the file in one step, since nobody reads either before the summary; the
  errors of the results' writers are left out, and `DownloadFiles` itself drops them
  (`download.go:102`, `107`, `329`), so the listing may be shorter
  than the counters say without an error.
* `TokenRefresh`: the retries inside `HttpClient` do not run the interceptor again,
  so a request is sent once here; the server forgets a token once it has issued
  the next one.
* `Administration`: one thing per kind with two fields (a value and a list); the
  statuses a method accepts are those the code names; requests are delayed past
  the end of their call, but not into a third call.
* `gofrog/parallel`, `io.Pipe`, `net/http`, `sync` and the servers are external and
  modelled by how the code uses them.

Not modelled, and why:

* Several archives in one upload: their tasks append to one Go slice without a
  lock (`upload.go:1047`), whose outcomes the language does not define; a set of
  possible ones would be invented.
* `GetItemProperties`, `GetBuildInfo`, `ReadRemoteFile` of the storage service, the
  Go module publication, the usage report: one request (or three in a row) whose
  parts are in `HttpClient` and whose result is a body.
* AQL queries, file specs, patterns, placeholders, file system walks, zip and tar,
  Git and VCS files: text and files in, text and files out, no state that
  survives a call and no concurrency.
* Temporary files by age, certificates, the configuration builder, the logger.

## 6. Disagreements found

Shown by a run, listed in `PROJECT.json` under "findings":

1. `client.go:165`: `CheckRedirect` of the shared `http.Client` is set and
   cleared without a lock; a request that must not follow redirects follows one
   (`HttpClient_RedirectRace`).
2. `contentreader.go:91`: after a `Reset` in mid-reading the old goroutine goes on
   from where it is and sends to the new channel (line 172), so the reader is not
   prepared "to read the file all over again" (line 90).  The upload of an archive
   resets before each attempt, wherever the last reading is (`upload.go:799`)
   (`ContentReader_MidReset`).
3. `upload.go:811`: without checksums `GetFileDetailsFromReader` (`files.go:399`)
   returns at once.  It closes its pipe, the copying goroutine stops at its next
   write, and nobody reads or closes the pipe of the first zip: the zip's goroutine
   blocks and `zipReadersWg.Wait` never returns, though no request was refused or
   repeated (`UploadService_NoChecksums`).  An archive so small that its zip writer
   writes once escapes.

Shown by a change of a run's constants:

4. `files.go:424` with `upload.go:799`: without checksums the first zip goroutine
   keeps taking records after the reset, and an archive without some of its files
   is stored with success (with the constants of `UploadService_NoChecksums`
   `NilMeansWholeArchive` is violated as well).
5. `delete.go:243`: the search for the protected files has the spec's limit: a
   directory that holds a protected file beyond it is deleted (`ItemServices` with
   `Limit = 1` and `MayLose = FALSE` violates `ProtectedKept`, once
   `ReliableAssumption`, which rules this out, is taken out of `MCItemServices`).
6. `deleteutils.go:116` against `contentreader.go:424`: directories are sorted by
   `GetItemRelativePath` within a buffer and merged by `GetSortKey`.  They differ
   for directories at the top of a repository, so with more than 50000 of them the
   merged list may be out of order and a protected file's directory is deleted
   (`ItemServices` with `BufferSize = 2` and `MayLose = FALSE` violates
   `ProtectedKept`, again without `ReliableAssumption`).

Met while modelling.  Requests and retries:

* `retryexecutor.go:80` prints the number of retries as the number of attempts.
* `client.go:300` against 234 and `upload.go:530`: an upload rejected with a 4xx
  is sent again, although the comment says it should not.
* `client.go:386` against 357: a redirect that must not be followed "should not
  retry", but the inner `Send` has already retried.
* `client.go:356`: retries nest, so a download may send `(retries+1)^2` requests.
* `client.go:517` against 464: a failed merge returns an error *with* a response.
* `retryableconnection.go:50` against 27: after a stable connection is lost one
  attempt more than `RetriesNum` follows; line 135: the timer's goroutine loops for
  ever, one per connection.
* A create whose answer was lost is sent again and reports "already exists" for
  what it made itself; a token or a pipeline's run is made twice (`Retries` of
  `Administration`: `AbsenceIsReal` and `IssuedOnce` say what still holds).
* `security.go:123`: when the body of a 200 cannot be decoded `CreateToken` returns an
  error, and a token that nobody was told of stays (likewise `RefreshToken` and the
  other methods that decode what they made).

Readers, writers, uploads and downloads:

* `contentwriter.go:82`: if the temp file cannot be created or begun, nobody
  receives from the channel and `Write` blocks for ever once it is full
  (`WorkerCallReturns` exempts it; line 27 says that `Close` completes the operation).
* `contentreader.go:119` against 114: `Length` may be that of a partly read file;
  line 86: `cr.length++` is not synchronised.
* `contentreader.go:412`: an error in one of the readers that are merged counts as
  its end.
* `http/jfroghttpclient/client.go:106`: an interceptor's error leaves the zip's
  pipe unread and `zipReadersWg.Wait` (`upload.go:811`) waits for ever;
  `CompletesUnlessRefused` exempts this case (with checksums, as in its passing run,
  it is the only one; without them see item 3).
* `upload.go:818` against 843: the list of transferred files also gets the file
  that could not be added to the zip.
* `upload.go`: a retry that succeeds after a broken attempt still makes
  `UploadFiles` return an error, since the closed pipe's error of the first zip
  is in the queue.
* `upload.go:754`: the answer's status to a directory's creation is ignored.
* `download.go`: the tasks of folders count as successes, but a dry run does not
  expect them, so the number of failures is negative; in the flat mode a folder with a
  subfolder is skipped as implied and never made; groups that overlap write one
  file at the same time; a bundle group with a key before one without makes the
  latter fail.

Deletions, moves and properties:

* `deleteutils.go:80`: a directory `a` at the top is compared without a slash
  and is spared for a protected file in `ab`; `Spared` has the code's test.
* `delete.go:89`: the error of a build search is overwritten by that of `Length`,
  which is called on a nil reader.
* `movecopy.go:262`: a refused move returns nil, and the creation of a path that
  was refused is only logged; flat moves put files of one name over each other;
  the move of a folder takes along what the pattern did not match.
* `gitlfsclean.go:178`: the local repository is opened and not fetched, so a file whose
  reference others have pushed, even completely, is deleted if the reference is not
  in the local repository; so is that of a push in its midst (`ReferencedKept`
  exempts the files that were on the server with their references in the local
  repository at neither reading).

Administration and waiting:

* `users.go:96`: a user that another caller creates between the lookup and the PUT
  is replaced.  `IsRepoExists` takes every refusal for an absence.  A group's
  users cannot be emptied (`omitempty`).
* The Artifactory manager never passes its `DryRun` to export and import.
* `pipelines/services/resource.go:40`: nothing found is a nil resource without an
  error, which `SyncPipelineSource` and `GetSyncStatus` dereference.
* `deleteremote.go`: a synchronous dry run waits for a deletion that never
  happens, and times out; line 115: the loop sleeps once more after its last poll.
* `distribute.go:118`: the first element of a response is read without a look at
  its length.

## 7. What is left

The components with status `not_modelled` and `partly` in `PROJECT.json`, for the
reasons in section 5.  The one safety property of the passing runs that no theorem
states is `SentTokenValid` (section 4).  `ProtectedKept`, `ReportedIsThere` and `NilMeansAll` of
`DownloadService` are theorems under hypotheses that the code needs; a release that
gives the search for the protected files no limit and merges the directories by
the key they were sorted by would make `Reliable` unnecessary.
