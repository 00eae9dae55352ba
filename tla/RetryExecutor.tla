---------------------------- MODULE RetryExecutor ----------------------------
(* utils/retryexecutor.go: Execute runs a handler up to MaxRetries + 1 times, *)
(* sleeping between the runs, while another goroutine may cancel the context  *)
(* or its deadline may pass at any time.  The handler is any code that        *)
(* returns: each run gives some (shouldRetry, err).                           *)
EXTENDS RetryLoop

CONSTANTS MaxRetries,      \* RetryExecutor.MaxRetries; negative: no run at all
          Interval,        \* RetriesIntervalMilliSecs
          HandlerErrs      \* the non-nil errors a handler returns

ASSUME RetriesAssumption == MaxRetries \in Int
ASSUME IntervalAssumption == Interval \in Nat
ASSUME ErrsAssumption == HandlerErrs \cap {Nil, TimeoutErr, CanceledErr} = {}

VARIABLES pc,           \* where Execute stands
          i,            \* the loop's index
          shouldRetry,  \* what the last handler run returned
          err,
          ctx,          \* the context's state: "none" is a nil Context
          result,       \* what Execute returned, meaningful once pc = "done"
          runs,         \* history: handler runs started
          sleeps,       \* history: completed sleeps
          runsAtCancel  \* history: runs started before the cancellation, if any

vars == <<pc, i, shouldRetry, err, ctx, result, runs, sleeps, runsAtCancel>>

Max0(n) == IF n < 0 THEN 0 ELSE n

TypeOK ==
    /\ pc \in {"loop", "handler", "check", "sleep", "done"}
    /\ i \in Nat
    /\ shouldRetry \in BOOLEAN
    /\ err \in HandlerErrs \cup {Nil}
    /\ ctx \in Contexts
    /\ result \in HandlerErrs \cup {Nil, TimeoutErr, CanceledErr}
    /\ runs \in Nat
    /\ sleeps \in Nat
    /\ runsAtCancel \in Nat

Init ==
    /\ pc = "loop" /\ i = 0
    /\ shouldRetry = FALSE /\ err = Nil
    /\ ctx \in {"none", "live", "canceled", "deadline"}
    /\ result = Nil
    /\ runs = 0 /\ sleeps = 0
    /\ runsAtCancel = 0

(* for i := 0; i <= runner.MaxRetries; i++ *)
StartRun ==
    /\ pc = "loop" /\ i <= MaxRetries
    /\ pc' = "handler"
    /\ runs' = runs + 1
    /\ UNCHANGED <<i, shouldRetry, err, ctx, result, sleeps, runsAtCancel>>

(* The loop is over: the last error, or a timeout error if there is none.     *)
Exhausted ==
    /\ pc = "loop" /\ i > MaxRetries
    /\ pc' = "done"
    /\ result' = ExhaustedResult(err)
    /\ UNCHANGED <<i, shouldRetry, err, ctx, runs, sleeps, runsAtCancel>>

(* shouldRetry, err = runner.ExecutionHandler(); without a retry, return err. *)
HandlerReturns(retry, e) ==
    /\ pc = "handler"
    /\ shouldRetry' = retry
    /\ err' = e
    /\ IF retry THEN pc' = "check" /\ UNCHANGED result
                ELSE pc' = "done" /\ result' = e
    /\ UNCHANGED <<i, ctx, runs, sleeps, runsAtCancel>>

(* checkCancelled, then the sleep or the next iteration.                      *)
CheckCancelled ==
    /\ pc = "check"
    /\ IF Cancelled(ctx)
         THEN pc' = "done" /\ result' = CanceledErr /\ UNCHANGED i
         ELSE /\ UNCHANGED result
              /\ IF Sleeps(Interval, i, MaxRetries)
                   THEN pc' = "sleep" /\ UNCHANGED i
                   ELSE pc' = "loop" /\ i' = i + 1
    /\ UNCHANGED <<shouldRetry, err, ctx, runs, sleeps, runsAtCancel>>

\* Changed: the wait is a receive from ctx.Done() without a timer.
WakeOnCancel ==
    /\ pc = "sleep" /\ ctx = "canceled"
    /\ pc' = "loop" /\ i' = i + 1
    /\ sleeps' = sleeps + 1
    /\ UNCHANGED <<shouldRetry, err, ctx, result, runs, runsAtCancel>>

(* time.Sleep does not look at the context.                                   *)
Wake ==
    /\ pc = "sleep"
    /\ pc' = "loop" /\ i' = i + 1
    /\ sleeps' = sleeps + 1
    /\ UNCHANGED <<shouldRetry, err, ctx, result, runs, runsAtCancel>>

(* The owner of the context cancels it; its deadline passes.  The first of    *)
(* the two decides Context.Err() for good.                                    *)
Cancel ==
    /\ ctx = "live" /\ pc # "done"
    /\ ctx' = "canceled"
    /\ runsAtCancel' = runs
    /\ UNCHANGED <<pc, i, shouldRetry, err, result, runs, sleeps>>

DeadlinePasses ==
    /\ ctx = "live" /\ pc # "done"
    /\ ctx' = "deadline"
    /\ UNCHANGED <<pc, i, shouldRetry, err, result, runs, sleeps, runsAtCancel>>

Execute ==
    \/ StartRun \/ Exhausted \/ CheckCancelled \/ Wake
    \/ \E retry \in BOOLEAN, e \in HandlerErrs \cup {Nil} : HandlerReturns(retry, e)

Next == Execute \/ Cancel \/ DeadlinePasses

Spec == Init /\ [][Next]_vars

-----------------------------------------------------------------------------
(* Properties *)

(* Execute performs the run and at most MaxRetries retries of it (the tests   *)
(* count retriesToPerform+1 runs) and sleeps between two runs only, never     *)
(* after the last one: this bounds the time a caller waits.                   *)
RetryBudget ==
    /\ runs <= Max0(MaxRetries + 1)
    /\ sleeps <= Max0(MaxRetries)

(* Execute answers nil only when the last handler run asked for no retry and  *)
(* had no error: a run that never succeeded, or was cancelled, is an error.   *)
NilMeansSuccess ==
    pc = "done" /\ result = Nil => runs > 0 /\ ~shouldRetry /\ err = Nil

(* An error of the handler that Execute returns is the error of its last run, *)
(* and the last run's error is never lost, except to a cancellation.          *)
LastErrorWins ==
    pc = "done" =>
        /\ result \in HandlerErrs => result = err
        /\ err # Nil => result \in {err, CanceledErr}

(* A cancelled context lets at most one further run begin (the one that was   *)
(* already past checkCancelled), whatever the remaining budget.               *)
CancelStopsRetries ==
    ctx = "canceled" => runs <= runsAtCancel + 1
=============================================================================
