------------------------------ MODULE ZipUpload ------------------------------
(* artifactory/services/upload.go, CreateUploadAsZipFunc: one upload task     *)
(* that packs files into a zip and streams it.  The zip is produced twice or  *)
(* more, each time by a goroutine of readFilesAsZip that writes to a pipe:    *)
(*   generation 0 for the size and the checksums (GetFileDetailsFromReader),  *)
(*   generation g + 1 for the upload's attempt with index g.                  *)
(* All of them take the records of the same ContentReader; before an attempt  *)
(* the reader is reset.  The records are assumed to be in the reader's        *)
(* channel (an archive of less than 50000 files, see ContentReader).          *)
EXTENDS RetryLoop, Sequences, FiniteSets

LOCAL INSTANCE SequencesExt

CONSTANTS NFiles,         \* files of the archive
          Retries,        \* the client's retries
          ChecksumsCalc   \* UploadParams.ChecksumsCalcEnabled

ASSUME NFilesAssumption == NFiles \in Nat \ {0}
ASSUME RetriesAssumption == Retries \in Nat
ASSUME CalcAssumption == ChecksumsCalc \in BOOLEAN

VARIABLES
    task,      \* where the task stands
    attempt,   \* the index of the executor's loop
    taskErr,   \* the task's error: Nil or "err"
    pos,       \* records taken in the current reading
    zip,       \* per generation: the goroutine's place and its zip writer's buffer
    pipe,      \* per generation: the reader's end
    got,       \* per generation: what came out of the pipe
    stored,    \* what the server has stored at the target
    uploaded,  \* what uploadFileFromReader said
    listed,    \* files in the archive's notFinalTransfersWriter
    final,     \* files in finalTransfersFilesPaths
    queued,    \* errorsQueue holds an error
    refused    \* history: an attempt ended before its request was made

zvars == <<task, attempt, taskErr, pos, zip, pipe, got, stored,
           uploaded, listed, final, queued, refused>>

Files == 1 .. NFiles
Gens  == 0 .. Retries + 1
Whole == [n \in Files |-> n]
None  == <<0>>     \* no content: no file has the number 0

ZipPlaces == {"idle", "next", "flush", "closing", "done"}

ZipTypeOK ==
    /\ task \in {"new", "details", "deploy", "attempt", "send", "sending", "finish", "wait", "done"}
    /\ attempt \in 0 .. Retries
    /\ taskErr \in {Nil, "err"}
    /\ pos \in 0 .. NFiles
    /\ zip \in [Gens -> [pc : ZipPlaces, buf : Seq(Files)]]
    /\ pipe \in [Gens -> {"none", "open", "orphan", "closed", "eof"}]
    /\ got \in [Gens -> Seq(Files)]
    /\ stored \in Seq(Files) \cup {None}
    /\ uploaded \in BOOLEAN
    /\ listed \subseteq Files /\ final \subseteq Files
    /\ queued \in BOOLEAN /\ refused \in BOOLEAN

ZipInit ==
    /\ task = "new" /\ attempt = 0 /\ taskErr = Nil
    /\ pos = 0
    /\ zip = [g \in Gens |-> [pc |-> "idle", buf |-> <<>>]]
    /\ pipe = [g \in Gens |-> "none"]
    /\ got = [g \in Gens |-> <<>>]
    /\ stored = None /\ uploaded = FALSE
    /\ listed = {} /\ final = {}
    /\ queued = FALSE /\ refused = FALSE

\* Generation g goes to pc, with buf in its zip writer.
Goes(g, pc, buf) == zip' = [zip EXCEPT ![g] = [pc |-> pc, buf |-> buf]]

(* readFilesAsZip: a pipe and a goroutine that writes to it.                  *)
Spawn(g) ==
    /\ Goes(g, "next", <<>>)
    /\ pipe' = [pipe EXCEPT ![g] = "open"]

-----------------------------------------------------------------------------
(* The goroutine of generation g *)

(* errorsQueue.AddError if b: the queue keeps one error and drops the others. *)
AddError(b) == queued' = (queued \/ b)

(* The first pass lists every file it has handled, added or not.              *)
Lists(g, f) == listed' = IF g = 0 THEN listed \cup {f} ELSE listed

\* Changed: a reader that fails ends the goroutine without closing the pipe.
ZipEndsUnclosed(g) ==
    /\ zip[g].pc = "next"
    /\ pos' = NFiles
    /\ IF pos = NFiles THEN Goes(g, "closing", zip[g].buf) /\ UNCHANGED queued
                       ELSE Goes(g, "done", zip[g].buf) /\ AddError(TRUE)
    /\ UNCHANGED <<task, attempt, taskErr, pipe, got, stored, uploaded, listed, final, refused>>

(* NextRecord gives no record: the end, or an error of the reader, which ends *)
(* the reading for everybody and is put into the queue.                       *)
ZipEnds(g) ==
    /\ zip[g].pc = "next"
    /\ pos' = NFiles
    /\ Goes(g, "closing", zip[g].buf)
    /\ AddError(pos < NFiles)
    /\ UNCHANGED <<task, attempt, taskErr, pipe, got, stored, uploaded, listed, final, refused>>

\* Changed: the error of a file that cannot be added is only logged.
FileFailsLogged(g, f) == Goes(g, "next", zip[g].buf) /\ Lists(g, f) /\ UNCHANGED queued

(* addFileToZip fails: the file has gone since it was listed, cannot be read, *)
(* or the pipe is closed.  The error is queued and the next file's turn comes.*)
FileFails(g, f) == Goes(g, "next", zip[g].buf) /\ Lists(g, f) /\ AddError(TRUE)

(* The file goes to the zip writer's buffer, which may have to be written out *)
(* before addFileToZip returns.                                               *)
FileAdded(g, f) ==
    /\ UNCHANGED queued
    /\ \/ Goes(g, "next", Append(zip[g].buf, f)) /\ Lists(g, f)
       \/ Goes(g, "flush", Append(zip[g].buf, f)) /\ UNCHANGED listed

(* NextRecord gives a record, whose file is added.                            *)
ZipFile(g) ==
    /\ zip[g].pc = "next" /\ pos < NFiles
    /\ pos' = pos + 1
    /\ FileFails(g, pos + 1) \/ FileAdded(g, pos + 1)
    /\ UNCHANGED <<task, attempt, taskErr, pipe, got, stored, uploaded, final, refused>>

(* A write to a pipe whose reader's end is closed fails: in the middle, or    *)
(* when the zip writer is closed.                                             *)
ZipWriteFails(g) ==
    /\ pipe[g] = "closed"
    /\ \/ zip[g].pc = "flush" /\ Goes(g, "next", <<>>)
       \/ zip[g].pc = "closing" /\ Goes(g, "done", <<>>)
    /\ AddError(TRUE)
    /\ UNCHANGED <<task, attempt, taskErr, pos, pipe, got, stored, uploaded, listed, final, refused>>

(* A write meets a read: whoever reads the pipe takes the buffer.             *)
PipeRead(g) ==
    /\ zip[g].pc \in {"flush", "closing"}
    /\ got' = [got EXCEPT ![g] = @ \o zip[g].buf]
    /\ Goes(g, IF zip[g].pc = "flush" THEN "next" ELSE "done", <<>>)
    /\ IF zip[g].pc = "flush" THEN Lists(g, Last(zip[g].buf)) ELSE UNCHANGED listed

Zipper(g) == ZipFile(g) \/ ZipEnds(g) \/ ZipWriteFails(g)

-----------------------------------------------------------------------------
(* GetFileDetailsFromReader *)

\* The copying goroutine and, once the stream ends, the details.
CopyReads ==
    /\ pipe[0] = "open" /\ PipeRead(0)
    /\ pipe' = [pipe EXCEPT ![0] =
                 IF zip[0].pc = "closing" THEN "eof"
                 ELSE IF ChecksumsCalc THEN "open" ELSE "orphan"]
    /\ UNCHANGED <<task, attempt, taskErr, pos, stored, uploaded, final, queued, refused>>

(* With checksums the task waits for the end of the stream; without, it       *)
(* returns at once, the copy's first write fails and nobody reads any more.   *)
Details ==
    /\ task = "details"
    /\ ChecksumsCalc => pipe[0] = "eof"
    /\ task' = "deploy"
    /\ UNCHANGED <<attempt, taskErr, pos, zip, pipe, got, stored, uploaded, listed, final, queued, refused>>

-----------------------------------------------------------------------------
(* The task *)

Begin ==
    /\ task = "new"
    /\ \/ task' = "details" /\ Spawn(0) /\ UNCHANGED taskErr
       \/ task' = "done" /\ taskErr' = "err" /\ UNCHANGED <<zip, pipe>>
    /\ queued' = (queued \/ taskErr' # Nil)
    /\ UNCHANGED <<attempt, pos, got, stored, uploaded, listed, final, refused>>

(* A checksum deploy is tried when there are checksums and the zip is large   *)
(* enough: the server has the content already, or not, or the request fails.  *)
Deploy ==
    /\ task = "deploy"
    /\ \/ task' = "attempt" /\ UNCHANGED <<stored, uploaded, taskErr>>
       \/ ChecksumsCalc /\ task' = "finish" /\ stored' = got[0] /\ uploaded' = TRUE /\ UNCHANGED taskErr
       \/ ChecksumsCalc /\ task' = "finish" /\ taskErr' = "err" /\ UNCHANGED <<stored, uploaded>>
    /\ UNCHANGED <<attempt, pos, zip, pipe, got, listed, final, queued, refused>>

(* getReaderFunc                                                              *)
GetReader ==
    /\ task = "attempt"
    /\ pos' = 0
    /\ task' = "send" /\ Spawn(attempt + 1)
    /\ UNCHANGED <<attempt, taskErr, got, stored, uploaded, listed, final, queued, refused>>

(* The handler's verdict, and the executor's loop.                            *)
Verdict(retry, e) ==
    IF RunsAgain(retry, "none", attempt, Retries)
      THEN task' = "attempt" /\ attempt' = attempt + 1 /\ UNCHANGED <<taskErr, uploaded>>
      ELSE /\ task' = "finish" /\ UNCHANGED attempt
           /\ LET r == LoopResult(retry, e, "none") IN
                taskErr' = r /\ uploaded' = (r = Nil)

(* An interceptor or the request's construction fails: nobody reads the pipe. *)
Refused ==
    /\ task = "send"
    /\ pipe' = [pipe EXCEPT ![attempt + 1] = "orphan"]
    /\ refused' = TRUE
    /\ Verdict(TRUE, "err")
    /\ UNCHANGED <<pos, zip, got, stored, listed, final, queued>>

Sends ==
    /\ task = "send" /\ task' = "sending"
    /\ UNCHANGED <<attempt, taskErr, pos, zip, pipe, got, stored, uploaded, listed, final, queued, refused>>

TransportReads ==
    /\ task = "sending"
    /\ LET g == attempt + 1 IN
         /\ pipe[g] = "open" /\ PipeRead(g)
         /\ pipe' = [pipe EXCEPT ![g] = IF zip[g].pc = "closing" THEN "eof" ELSE @]
    /\ UNCHANGED <<task, attempt, taskErr, pos, stored, uploaded, final, queued, refused>>

(* The connection breaks or the server answers early, with a failure: the     *)
(* transport drops what it has and closes the body.  UploadFileFromReader     *)
(* turns every status that is not a success into an error: this is retried.   *)
TransportFails ==
    /\ task = "sending"
    /\ LET g == attempt + 1 IN
         /\ pipe' = [pipe EXCEPT ![g] = IF @ = "eof" THEN @ ELSE "closed"]
         /\ got' = [got EXCEPT ![g] = <<>>]
    /\ Verdict(TRUE, "err")
    /\ UNCHANGED <<pos, zip, stored, listed, final, queued, refused>>

(* With the whole body sent the server stores it.  A body that is not the one *)
(* of the announced size and checksums is refused by the transport or the     *)
(* server; without checksums the size is 0, which announces nothing.          *)
Answered ==
    /\ task = "sending"
    /\ LET g == attempt + 1 IN
         /\ pipe[g] = "eof"
         /\ IF ChecksumsCalc /\ got[g] # got[0]
              THEN Verdict(TRUE, "err") /\ UNCHANGED stored
              ELSE stored' = got[g] /\ (Verdict(FALSE, Nil) \/ Verdict(TRUE, "err"))
    /\ got' = [got EXCEPT ![attempt + 1] = <<>>]
    /\ UNCHANGED <<pos, zip, pipe, listed, final, queued, refused>>

(* finalizeResult closes the archive's writer, which may fail.                *)
Finish ==
    /\ task = "finish" /\ task' = "wait"
    /\ IF uploaded
         THEN \/ final' = listed /\ UNCHANGED taskErr
              \/ taskErr' = "err" /\ UNCHANGED final
         ELSE UNCHANGED <<final, taskErr>>
    /\ UNCHANGED <<attempt, pos, zip, pipe, got, stored, uploaded, listed, queued, refused>>

(* zipReadersWg.Wait()                                                        *)
AllZipped == \A g \in Gens : zip[g].pc \in {"idle", "done"}

(* The task closes the reader, which may fail, and returns; its error goes to *)
(* the queue.                                                                 *)
Return ==
    /\ task = "wait" /\ AllZipped
    /\ task' = "done"
    /\ taskErr' \in {taskErr, "err"}
    /\ queued' = (queued \/ taskErr' # Nil)
    /\ UNCHANGED <<attempt, pos, zip, pipe, got, stored, uploaded, listed, final, refused>>

Task == Details \/ Deploy \/ GetReader \/ Refused \/ Sends \/ TransportFails
          \/ Answered \/ Finish \/ Return
Zipping == CopyReads \/ TransportReads \/ \E g \in Gens : Zipper(g)

-----------------------------------------------------------------------------
(* Properties *)

(* When the task has returned without an error anywhere, the server has the   *)
(* archive with every file, once and in order, and the summary lists exactly  *)
(* these files as transferred, whatever attempts and goroutines there were.   *)
NilMeansWholeArchive ==
    task = "done" /\ ~queued => stored = Whole /\ final = Files
=============================================================================
