---------------------------- MODULE WaitingCalls ------------------------------
(* A call of the library waits for something that goes on without it: for a   *)
(* server's job (Polling), for the lines of a long response that a goroutine  *)
(* reads (RetryableConnection), or for a worker at the other end of a bounded *)
(* channel (ContentWriter).  They share no state, so a behaviour is that of   *)
(* one of them and the others stay where they begin.  What is asked of each   *)
(* is the same: the answer is what happened, and the call returns.            *)
EXTENDS Polling, RetryableConnection, ContentWriter

VARIABLE awaited \* what the call waits for

waitingVars == <<awaited, allVars, connVars, writerVars>>

NoPolling == PollInit /\ caller = "handler" /\ ctx = "none"

WaitingInit ==
    /\ ConnInit /\ WriterInit
    /\ \/ awaited = "job" /\ PollInit
       \/ awaited \in {"response", "worker"} /\ NoPolling

AwaitsJob      == awaited = "job" /\ UNCHANGED <<awaited, connVars, writerVars>>
AwaitsResponse == awaited = "response" /\ UNCHANGED <<awaited, allVars, writerVars>>
AwaitsWorker   == awaited = "worker" /\ UNCHANGED <<awaited, allVars, connVars>>

WaitingNext ==
    \/ AwaitsJob /\ PollNext
    \/ AwaitsResponse /\ ConnNext
    \/ AwaitsWorker /\ WriterNext

(* The caller's goroutine is scheduled and its requests return; neither the   *)
(* job's end nor a cancellation is promised.                                  *)
JobFairness == WF_waitingVars(AwaitsJob /\ Caller)

(* ConnectHandler returns, Do and the timer are scheduled and time goes on;   *)
(* nothing is assumed of the server, which may send nothing more.             *)
ResponseFairness ==
    /\ WF_waitingVars(AwaitsResponse /\ Do)
    /\ WF_waitingVars(AwaitsResponse /\ Timer)
    /\ WF_waitingVars(AwaitsResponse /\ TimePasses)

(* The writers, the worker and the owner are scheduled; file operations       *)
(* return.                                                                    *)
WorkerFairness ==
    /\ \A w \in Writers : WF_waitingVars(AwaitsWorker /\ Writer(w))
    /\ WF_waitingVars(AwaitsWorker /\ Worker)
    /\ WF_waitingVars(AwaitsWorker /\ Owner)

WaitingSpec ==
    /\ WaitingInit /\ [][WaitingNext]_waitingVars
    /\ JobFairness /\ ResponseFairness /\ WorkerFairness

-----------------------------------------------------------------------------
(* Properties *)

(* Every call that polls returns, even when the job never ends (Execute, and  *)
(* the deletions' own loop).                                                  *)
JobCallReturns == awaited = "job" => Terminates

(* Do returns, even from a server that stalls or drops stable connections.    *)
ResponseCallReturns == awaited = "response" => DoReturns

(* Write and Close return, unless the worker never came to receive.           *)
WorkerCallReturns == awaited = "worker" => CompletesUnlessLost
=============================================================================
