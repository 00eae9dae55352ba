------------------------------ MODULE RetryLoop ------------------------------
(* What one iteration of RetryExecutor.Execute decides, as operators: the     *)
(* components that run an operation "with retries" (HttpClient, the chunked   *)
(* download, the polling executor) embed the same loop and share them.        *)
(*   i          the loop's index, 0 .. maxRetries                             *)
(*   shouldRetry, err   what the execution handler returned                   *)
(*   ctx        the state of the executor's context                           *)
EXTENDS Integers

Nil         == "nil"           \* Go's nil, for an error or a response
TimeoutErr  == "timeout"       \* RetryExecutorTimeoutError
CanceledErr == "canceled"      \* context.Canceled

Contexts == {"none", "live", "canceled", "deadline"}

\* Changed: the wrong context error is compared.
CancelledOnDeadline(ctx) == ctx = "deadline"

(* checkCancelled: only context.Canceled stops the loop; a context whose      *)
(* deadline has passed does not.                                              *)
Cancelled(ctx) == ctx = "canceled"

\* Changed: one iteration too many.
HasNextOneMore(i, maxRetries) == i <= maxRetries

(* The for-loop's condition after the iteration with index i.                 *)
HasNext(i, maxRetries) == i + 1 <= maxRetries

(* The loop goes round once more.                                             *)
RunsAgain(shouldRetry, ctx, i, maxRetries) ==
    shouldRetry /\ ~Cancelled(ctx) /\ HasNext(i, maxRetries)

(* It sleeps before doing so, except after the last iteration.                *)
Sleeps(interval, i, maxRetries) == interval > 0 /\ i < maxRetries

(* What Execute returns once the loop has run out of iterations.              *)
ExhaustedResult(err) == IF err # Nil THEN err ELSE TimeoutErr

(* What Execute returns when the iteration is the last one.                   *)
LoopResult(shouldRetry, err, ctx) ==
    IF ~shouldRetry THEN err
    ELSE IF Cancelled(ctx) THEN CanceledErr
    ELSE ExhaustedResult(err)
=============================================================================
