------------------------------- MODULE Polling -------------------------------
(* The calls that wait for a job of a server, beside any other handler:       *)
(*   scan, buildScan   Xray's scans (xray/services/scan.go, buildscan.go),    *)
(*                     through PollingExecutor                                *)
(*   distribute        a synchronous distribution, through RetryExecutor      *)
(*   deleteRemote, deleteLocal   a synchronous deletion, with a loop of its   *)
(*                     own that sleeps after its last poll too                *)
(*   handler           any other use of RetryExecutor                         *)
(* The job is the server's and ends, well or badly, at any time.              *)
EXTENDS RetryExecutor

VARIABLES caller,     \* which call
          sync,       \* its Sync option
          dryRun,     \* its DryRun option
          stage,      \* "request", "poll" or "done"
          job,        \* the server's job
          lastSeen,   \* history: the job as the last answered poll showed it
          finalResponse,  \* PollingExecutor's finalResponse
          answer      \* what the call returned

pollVars == <<caller, sync, dryRun, stage, job, lastSeen, finalResponse, answer>>
allVars  == <<vars, pollVars>>

Scans     == {"scan", "buildScan"}
Deletions == {"deleteRemote", "deleteLocal"}
Bodies    == {"none", "completed", "failed", "garbled"}
ASSUME PollErrsAssumption == {"send", "status", "parse", "failed"} \subseteq HandlerErrs

PollTypeOK ==
    /\ TypeOK
    /\ caller \in Scans \cup Deletions \cup {"handler", "distribute"}
    /\ sync \in BOOLEAN /\ dryRun \in BOOLEAN
    /\ stage \in {"request", "poll", "done"}
    /\ job \in {"none", "running", "completed", "failed"}
    /\ lastSeen \in {"none", "running", "completed", "failed"}
    /\ i \in 0 .. Max0(MaxRetries + 1)
    /\ finalResponse \in Bodies
    /\ answer \in HandlerErrs \cup {Nil, TimeoutErr, CanceledErr}

PollInit ==
    /\ Init
    /\ caller \in Scans \cup Deletions \cup {"handler", "distribute"}
    /\ sync \in BOOLEAN /\ dryRun \in BOOLEAN
    /\ caller \in Scans \cup {"handler"} => sync /\ ~dryRun
    /\ caller # "handler" => ctx = "none"
    /\ stage = IF caller = "handler" THEN "poll" ELSE "request"
    /\ job = "none" /\ lastSeen = "none"
    /\ finalResponse = "none" /\ answer = Nil

(* Whether the call waits once the server has taken the request: Distribute   *)
(* never does after a dry run, the remote deletion does.                      *)
Waits ==
    \/ caller \in Scans
    \/ caller \in {"distribute", "deleteLocal"} /\ sync /\ ~dryRun
    \/ caller = "deleteRemote" /\ sync

(* A call over before any poll.                                               *)
Ends(e) ==
    /\ stage' = "done" /\ answer' = e
    /\ UNCHANGED <<vars, caller, sync, dryRun, lastSeen, finalResponse>>

(* The local deletion answers a dry run itself.                               *)
LocalDryRun ==
    /\ stage = "request" /\ caller = "deleteLocal" /\ dryRun
    /\ Ends(Nil) /\ UNCHANGED job

(* The request is not sent, is refused, or its answer cannot be used; in the  *)
(* last case the server may have begun the job (ScanGraph and Scan parse the  *)
(* answer, Distribute its tracker id; the deletions do not parse it).         *)
RequestFails ==
    /\ stage = "request" /\ ~(caller = "deleteLocal" /\ dryRun)
    /\ \/ \E e \in {"send", "status"} : Ends(e) /\ UNCHANGED job
       \/ caller \notin Deletions /\ Ends("parse")
          /\ job' = IF dryRun THEN job ELSE "running"

(* The server takes the request.  A dry run begins no job.                    *)
RequestTaken ==
    /\ stage = "request" /\ ~(caller = "deleteLocal" /\ dryRun)
    /\ job' = IF dryRun THEN job ELSE "running"
    /\ IF Waits
         THEN stage' = "poll"
              /\ UNCHANGED <<vars, caller, sync, dryRun, lastSeen, finalResponse, answer>>
         ELSE Ends(Nil)

JobEnds ==
    /\ job = "running" /\ stage # "done"
    /\ job' \in {"completed", "failed"}
    /\ UNCHANGED <<vars, caller, sync, dryRun, stage, lastSeen, finalResponse, answer>>

\* Changed: 202 Accepted is taken for the scan's result.
ScanPolledEager ==
    \/ /\ lastSeen' = job /\ HandlerReturns(FALSE, Nil)
       /\ finalResponse' \in {IF job = "running" THEN "completed" ELSE job, "garbled"}
    \/ \E e \in {"send", "status"} :
          HandlerReturns(FALSE, e) /\ finalResponse' = "none" /\ UNCHANGED lastSeen

(* The scans' PollingAction: 202 while the job runs, 200 with the results,    *)
(* which may not parse, once it has ended.                                    *)
ScanPolled ==
    \/ job = "running" /\ lastSeen' = job
       /\ HandlerReturns(TRUE, Nil) /\ finalResponse' = "none"
    \/ job # "running" /\ lastSeen' = job
       /\ HandlerReturns(FALSE, Nil) /\ finalResponse' \in {job, "garbled"}
    \/ \E e \in {"send", "status"} :
          HandlerReturns(FALSE, e) /\ finalResponse' = "none" /\ UNCHANGED lastSeen

(* waitForDistribution's handler: GetStatus, which may fail, then the status. *)
DistributionPolled ==
    /\ UNCHANGED finalResponse
    /\ \/ lastSeen' = job /\ HandlerReturns(job = "running", IF job = "failed" THEN "failed" ELSE Nil)
       \/ \E e \in {"send", "status", "parse"} : HandlerReturns(FALSE, e) /\ UNCHANGED lastSeen

(* One run of the handler, of whichever caller.                               *)
Handler ==
    /\ stage = "poll" /\ caller \notin Deletions
    /\ UNCHANGED <<caller, sync, dryRun, stage, job, answer>>
    /\ \/ caller = "handler" /\ UNCHANGED <<lastSeen, finalResponse>>
          /\ \E retry \in BOOLEAN, e \in HandlerErrs \cup {Nil} : HandlerReturns(retry, e)
       \/ caller \in Scans /\ ScanPolled
       \/ caller = "distribute" /\ DistributionPolled

(* The executor's own steps.                                                  *)
Executor ==
    /\ stage = "poll" /\ caller \notin Deletions
    /\ StartRun \/ Exhausted \/ CheckCancelled \/ Wake
    /\ UNCHANGED pollVars

(* for timeElapsed := 0; timeElapsed < maxWaitMinutes*60; ...: i counts the   *)
(* intervals, MaxRetries of which make the wait.                              *)
DeletionLoops == i < MaxRetries

DeletionReturns(e) ==
    pc' = "done" /\ result' = e /\ shouldRetry' = FALSE /\ err' = e

(* GET of the release bundle's distribution: 404 means that the deletion is   *)
(* over, 200 that it is not (it never is after a failure or a dry run).       *)
DeletionPolls ==
    /\ stage = "poll" /\ caller \in Deletions
    /\ pc = "loop" /\ DeletionLoops
    /\ runs' = runs + 1
    /\ \/ \E e \in {"send", "status"} : DeletionReturns(e) /\ UNCHANGED lastSeen
       \/ lastSeen' = job /\ job = "completed" /\ DeletionReturns(Nil)
       \/ lastSeen' = job /\ job # "completed"
          /\ pc' = "sleep" /\ UNCHANGED <<shouldRetry, err, result>>
    /\ UNCHANGED <<i, ctx, sleeps, runsAtCancel, caller, sync, dryRun, stage, job, finalResponse, answer>>

DeletionTimesOut ==
    /\ stage = "poll" /\ caller \in Deletions
    /\ pc = "loop" /\ ~DeletionLoops
    /\ pc' = "done" /\ result' = TimeoutErr
    /\ UNCHANGED <<i, shouldRetry, err, ctx, runs, sleeps, runsAtCancel, pollVars>>

DeletionWakes ==
    /\ stage = "poll" /\ caller \in Deletions
    /\ Wake /\ UNCHANGED pollVars

(* return finalResponse, retryExecutor.Execute(): Go leaves open whether the  *)
(* variable is read before or after the call; gc reads it after the call.     *)
Returned == finalResponse

(* The scans parse the response and look for xrayScanStatusFailed in it.      *)
ParseErr(body) ==
    CASE body \in {"none", "garbled"} -> "parse"
      [] body = "failed" -> "failed"
      [] OTHER -> Nil

(* The call returns.                                                          *)
Answers ==
    /\ stage = "poll" /\ pc = "done"
    /\ stage' = "done"
    /\ answer' = IF result = Nil /\ caller \in Scans THEN ParseErr(Returned) ELSE result
    /\ UNCHANGED <<vars, caller, sync, dryRun, job, lastSeen, finalResponse>>

Caller ==
    \/ LocalDryRun \/ RequestFails \/ RequestTaken
    \/ Handler \/ Executor \/ DeletionPolls \/ DeletionTimesOut \/ DeletionWakes
    \/ Answers

PollNext ==
    \/ Caller \/ JobEnds
    \/ (Cancel \/ DeadlinePasses) /\ UNCHANGED pollVars

PollSpec == PollInit /\ [][PollNext]_allVars

-----------------------------------------------------------------------------
(* Properties *)

(* The verdict is the one of the last poll, and the job's state is final: a   *)
(* waiting call answers nil only for a job that has completed, "failed" only  *)
(* for one that has failed, and a timeout only after it had looked as often   *)
(* as the wait allows and never seen the job over.  A poll that has seen the  *)
(* job completed is not wasted: unless the results cannot be parsed the call  *)
(* answers nil.                                                               *)
VerdictMatchesJob ==
    /\ stage = "done" /\ caller # "handler" /\ Waits =>
         /\ answer = Nil => lastSeen = "completed" /\ job = "completed"
         /\ answer = "failed" => lastSeen = "failed" /\ job = "failed"
         /\ answer = TimeoutErr =>
               /\ lastSeen # "completed"
               /\ runs = Max0(IF caller \in Deletions THEN MaxRetries ELSE MaxRetries + 1)
    /\ stage = "done" /\ lastSeen = "completed" /\ finalResponse # "garbled" => answer = Nil

(* Every call returns, even when the job never ends.                          *)
Terminates == <>(stage = "done")
=============================================================================
