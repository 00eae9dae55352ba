-------------------------- MODULE ConcurrentDownload -------------------------
(* http/httpclient/client.go: DownloadFileConcurrently.  A file is fetched in *)
(* SplitCount ranges, one goroutine per range with retries of its own, each   *)
(* into a temporary file; the main goroutine may stop launching when it sees, *)
(* without synchronisation, that a range failed; it then waits for all of     *)
(* them, decides what to return, and merges the temporary files.              *)
EXTENDS RetryLoop, FiniteSets, Sequences

CONSTANTS FileSize, SplitCount,  \* ConcurrentDownloadFlags
          Retries,               \* HttpClient.retries
          Checksum,              \* ExpectedSha1 is known, SkipChecksum is not set
          Explode                \* ConcurrentDownloadFlags.Explode

ASSUME SizeAssumption == FileSize \in Nat
ASSUME SplitAssumption == SplitCount \in Nat \ {0}
ASSUME RetriesAssumption == Retries \in Nat
ASSUME FlagsAssumption == Checksum \in BOOLEAN /\ Explode \in BOOLEAN

Chunks == 0 .. SplitCount - 1

None     == 0           \* no response
Partial  == 206         \* http.StatusPartialContent
Statuses == {None, Partial, 200, 404}

-----------------------------------------------------------------------------
(* The ranges: chunk k is [ChunkStart(k), ChunkEnd(k)).                       *)

chunkSize == FileSize \div SplitCount
mod       == FileSize % SplitCount

ChunkStart(k) == chunkSize * k

ChunkEnd(k) == chunkSize * (k + 1) + (IF k = SplitCount - 1 THEN mod ELSE 0)

(* The ranges, in order, are the file: they start at 0, meet, and end at its  *)
(* size.                                                                      *)
RangesPartition ==
    /\ ChunkStart(0) = 0
    /\ \A k \in Chunks : ChunkStart(k) <= ChunkEnd(k)
    /\ \A k \in Chunks \ {SplitCount - 1} : ChunkEnd(k) = ChunkStart(k + 1)
    /\ ChunkEnd(SplitCount - 1) = FileSize

(* "bytes=start-(end-1)" denotes bytes of the file unless the range is empty; *)
(* a server does not answer such a header with a 206.                         *)
RangeUsable(k) == ChunkStart(k) < ChunkEnd(k)

-----------------------------------------------------------------------------
VARIABLES pc,     \* of the main goroutine
          i,      \* its loop index, over chunks to launch, then to merge
          chunk,  \* chunk[k]: goroutine k
          lists,  \* lists[k]: respList[k], errorsList[k], the file at chunksPaths[k]
          err,    \* the error and the response shared "to break the loop earlier"
          resp,
          dest,   \* the local file
          result  \* what DownloadFileConcurrently returns

vars == <<pc, i, chunk, lists, err, resp, dest, result>>

Errors == {Nil, "failed", TimeoutErr, CanceledErr}
Fetched == [resp : Statuses, err : Errors, data : {"none", "whole", "bad"}]

TypeOK ==
    /\ pc \in {"launch", "wait", "collect", "prepare", "merge", "cleanup",
               "done", "panic"}
    /\ i \in 0 .. SplitCount
    /\ chunk \in [Chunks -> [pc : {"idle", "fetch", "store", "flag", "gone"},
                             try : Nat, got : Fetched]]
    /\ lists \in [Chunks -> Fetched]
    /\ err \in Errors
    /\ resp \in Statuses
    /\ dest \in [kind : {"old", "absent", "merged", "extracted"},
                 parts : Seq(Chunks), clean : BOOLEAN]
    /\ result \in [resp : Statuses, err : Errors]

Nothing == [resp |-> None, err |-> Nil, data |-> "none"]

Init ==
    /\ pc = "launch" /\ i = 0
    /\ chunk = [k \in Chunks |-> [pc |-> "idle", try |-> 0, got |-> Nothing]]
    /\ lists = [k \in Chunks |-> Nothing]
    /\ err = Nil /\ resp = None
    /\ dest = [kind |-> "old", parts |-> <<>>, clean |-> TRUE]
    /\ result = [resp |-> None, err |-> Nil]

-----------------------------------------------------------------------------
(* The goroutine of chunk k *)

Chunk(k, c) == chunk' = [chunk EXCEPT ![k] = c]
Moves(k, where) == Chunk(k, [chunk[k] EXCEPT !.pc = where])

(* What one doDownloadFileRange may come back with.  An error from the        *)
(* temporary file, from Send (whose nil error implies a status below 500) or  *)
(* from the copy; another status; the range, as the server sent it.  Closing  *)
(* the file or the body may fail after a response was kept.                   *)
Attempts(k) ==
    {[resp |-> None, err |-> "failed", data |-> "none"]}
    \cup [resp : {200, 404}, err : {Nil, "failed"}, data : {"none"}]
    \cup (IF RangeUsable(k)
            THEN [resp : {Partial}, err : {Nil, "failed"}, data : {"whole", "bad"}]
            ELSE {})

(* One round of downloadFileRange's retry loop.                               *)
Fetch(k, got) ==
    LET c     == chunk[k]
        retry == got.err # Nil
    IN  /\ c.pc = "fetch"
        /\ IF RunsAgain(retry, "none", c.try, Retries)
             THEN Chunk(k, [pc |-> "fetch", try |-> c.try + 1, got |-> got])
             ELSE Chunk(k, [pc |-> "store", try |-> c.try, got |->
                    [got EXCEPT !.err = LoopResult(retry, got.err, "none")]])
        /\ UNCHANGED <<pc, i, lists, err, resp, dest, result>>

(* chunksPaths[i], respList[i], errorsList[i] = ...                           *)
Store(k) ==
    /\ chunk[k].pc = "store"
    /\ Moves(k, "flag")
    /\ lists' = [lists EXCEPT ![k] = chunk[k].got]
    /\ UNCHANGED <<pc, i, err, resp, dest, result>>

(* The shared variables are written, then wg.Done().                          *)
Flag(k) ==
    /\ chunk[k].pc = "flag"
    /\ Moves(k, "gone")
    /\ err' = IF lists[k].err # Nil THEN lists[k].err ELSE err
    /\ resp' = IF lists[k].resp \notin {None, Partial} THEN lists[k].resp ELSE resp
    /\ UNCHANGED <<pc, i, lists, dest, result>>

-----------------------------------------------------------------------------
(* The main goroutine *)

(* There is no temporary directory: nothing is launched.                      *)
TempDirFails ==
    /\ pc = "launch" /\ i = 0
    /\ pc' = "done" /\ result' = [result EXCEPT !.err = "failed"]
    /\ UNCHANGED <<i, chunk, lists, err, resp, dest>>

(* go func(start, end int64, i int) { ... }(start, end, i).  The reads of err *)
(* and resp race with the goroutines: the loop may go on after a failure.     *)
Launch ==
    /\ pc = "launch" /\ i < SplitCount
    /\ Moves(i, "fetch")
    /\ i' = i + 1
    /\ UNCHANGED <<pc, lists, err, resp, dest, result>>

(* The loop ends, or breaks on a failure that it saw.                         *)
Stop ==
    /\ pc = "launch"
    /\ i = SplitCount \/ err # Nil \/ resp # None
    /\ pc' = "wait"
    /\ UNCHANGED <<i, chunk, lists, err, resp, dest, result>>

(* wg.Wait() returns.                                                         *)
Joined == \A k \in Chunks : chunk[k].pc \in {"idle", "gone"}

Wait ==
    /\ pc = "wait" /\ Joined
    /\ pc' = "collect"
    /\ UNCHANGED <<i, chunk, lists, err, resp, dest, result>>

Failed   == {k \in Chunks : lists[k].err # Nil}
Rejected == {k \in Chunks : lists[k].resp # Partial}
First(S) == CHOOSE k \in S : \A j \in S : k <= j

\* Changed: only the last response is looked at.
ScanLast ==
    IF Failed # {} THEN [resp |-> None, err |-> lists[First(Failed)].err]
    ELSE [resp |-> lists[SplitCount - 1].resp, err |-> Nil]

(* The error of the first chunk that has one, else the first response that is *)
(* not a 206, else the last response.                                         *)
Scan ==
    IF Failed # {} THEN [resp |-> None, err |-> lists[First(Failed)].err]
    ELSE IF Rejected # {} THEN [resp |-> lists[First(Rejected)].resp, err |-> Nil]
    ELSE [resp |-> lists[SplitCount - 1].resp, err |-> Nil]

(* The scan of respList reads r.StatusCode, which panics on a nil response.   *)
Collect ==
    /\ pc = "collect"
    /\ result' = Scan
    /\ pc' = IF Scan.err # Nil THEN "cleanup"
             ELSE IF Scan.resp = None THEN "panic"
             ELSE IF Scan.resp = Partial THEN "prepare"
             ELSE "cleanup"
    /\ UNCHANGED <<i, chunk, lists, err, resp, dest>>

(* MkdirAll, and the removal of an existing file, before the merge.           *)
Prepare(ok) ==
    /\ pc = "prepare"
    /\ IF ok THEN /\ pc' = "merge" /\ i' = 0
                  /\ dest' = [kind |-> "absent", parts |-> <<>>, clean |-> TRUE]
                  /\ UNCHANGED result
             ELSE /\ pc' = "cleanup" /\ result' = [result EXCEPT !.err = "failed"]
                  /\ UNCHANGED <<i, dest>>
    /\ UNCHANGED <<chunk, lists, err, resp>>

(* mergeChunks appends the next temporary file.                               *)
MergeNext ==
    /\ pc = "merge" /\ i < SplitCount
    /\ dest' = [kind |-> "merged", parts |-> Append(dest.parts, i),
                clean |-> dest.clean /\ lists[i].data = "whole"]
    /\ i' = i + 1
    /\ UNCHANGED <<pc, chunk, lists, err, resp, result>>

(* Opening the file or a temporary one, or copying, fails.                    *)
MergeFails ==
    /\ pc = "merge" /\ i < SplitCount
    /\ pc' = "cleanup"
    /\ result' = [result EXCEPT !.err = "failed"]
    /\ UNCHANGED <<i, chunk, lists, err, resp, dest>>

\* Changed: the checksum is computed but not compared.
ChecksumIgnored == TRUE

ChecksumMatches == Checksum => dest.clean

(* The checksum is compared after everything was written; then the archive is *)
(* extracted and removed, or kept if its kind is not known; either may fail.  *)
Check(archive) ==
    /\ pc = "merge" /\ i = SplitCount
    /\ pc' = "cleanup"
    /\ LET good == ChecksumMatches /\ ~(Explode /\ archive = "broken")
       IN  /\ result' = IF good THEN result ELSE [result EXCEPT !.err = "failed"]
           /\ dest' = IF good /\ Explode /\ archive = "known"
                        THEN [dest EXCEPT !.kind = "extracted"] ELSE dest
    /\ UNCHANGED <<i, chunk, lists, err, resp>>

(* The deferred RemoveTempDir; its error is returned if there is no other.    *)
Cleanup(ok) ==
    /\ pc = "cleanup"
    /\ pc' = "done"
    /\ result' = IF result.err = Nil /\ ~ok THEN [result EXCEPT !.err = "failed"]
                 ELSE result
    /\ UNCHANGED <<i, chunk, lists, err, resp, dest>>

-----------------------------------------------------------------------------
Main ==
    \/ TempDirFails \/ Launch \/ Stop \/ Wait \/ Collect
    \/ \E ok \in BOOLEAN : Prepare(ok) \/ Cleanup(ok)
    \/ MergeNext \/ MergeFails
    \/ \E archive \in {"known", "unknown", "broken"} : Check(archive)

Goroutine(k) == (\E got \in Attempts(k) : Fetch(k, got)) \/ Store(k) \/ Flag(k)

Next == Main \/ \E k \in Chunks : Goroutine(k)

Spec == Init /\ [][Next]_vars

(* Every goroutine is scheduled, and every attempt ends.                      *)
FairSpec == Spec /\ WF_vars(Main) /\ \A k \in Chunks : WF_vars(Goroutine(k))

-----------------------------------------------------------------------------
(* Properties *)

(* The scan of respList never meets the nil response of a chunk that failed   *)
(* or was never launched, whatever the main goroutine saw of the failures.    *)
NoNilResponseRead == pc # "panic"

(* wg.Wait: no goroutine of the download is left once its results are read,   *)
(* its temporary files are merged and their directory is removed.             *)
JoinedBeforeUse ==
    pc \in {"collect", "prepare", "merge", "cleanup", "done"} => Joined

(* The documented contract up to the merge: an error of any chunk is returned *)
(* without a response; otherwise the response of the first chunk that was not *)
(* answered with a 206; and 206 only when all were.                           *)
ChunksContract ==
    pc = "done" =>
        /\ Failed # {} => result.resp = None /\ result.err # Nil
        /\ result.err = Nil => result.resp # None
        /\ result.err = Nil /\ result.resp # Partial =>
             /\ Failed = {}
             /\ \E k \in Chunks : /\ result.resp = lists[k].resp
                                  /\ \A j \in 0 .. k - 1 : lists[j].resp = Partial
        /\ result.resp = Partial => \A k \in Chunks : lists[k].resp = Partial

InOrder(parts) == parts = [n \in 1 .. SplitCount |-> n - 1]

(* A nil error with a 206 means the whole file: every range once, in order,   *)
(* each completely received, with the checksum that was asked for.            *)
WholeFile ==
    pc = "done" /\ result.err = Nil /\ result.resp = Partial =>
        /\ dest.kind \in {"merged", "extracted"}
        /\ InOrder(dest.parts)
        /\ \A k \in Chunks : lists[k].data # "none"
        /\ Checksum => dest.clean

(* The local file of an earlier download is not touched before every range    *)
(* has arrived: a failed or rejected chunk leaves it alone.                   *)
OldFileKept ==
    [][dest' # dest => Failed = {} /\ Rejected = {}]_vars

-----------------------------------------------------------------------------
(* The download keeps the promise of FileFetch. *)

AbsFile ==
    IF dest.kind = "old" THEN "old"
    ELSE IF dest.kind # "absent" /\ InOrder(dest.parts) /\ (Checksum => dest.clean)
      THEN "whole" ELSE "dirty"

AbsAnswer ==
    IF pc # "done" THEN "pending"
    ELSE IF result.err # Nil THEN "failed"
    ELSE IF result.resp = Partial THEN "ok" ELSE "rejected"

Abstract == INSTANCE FileFetch WITH file <- AbsFile, answer <- AbsAnswer

(* Every behaviour of the chunked download is one of FileFetch.               *)
FetchesFile == Abstract!Spec
=============================================================================
