---------------------------- MODULE Waiting_proofs -----------------------------
(* Proofs about what waits.  For every number of retries, length of the wait  *)
(* and error of a handler: what Execute promises of any handler (Spec), and   *)
(* what the calls that wait for a server's job answer (PollSpec).  For every  *)
(* set of threads and all durations: which of the requests that wait for a    *)
(* token gets a new one (TokenSpec).  For every set of writers, number of     *)
(* records, channel capacity and set of faults: what Writes that wait for the *)
(* channel, and a Close that waits for the worker, leave behind (WriterSpec). *)
EXTENDS Polling, TokenRefresh, ContentWriter, SequenceTheorems, TLAPS

-----------------------------------------------------------------------------
(* Execute alone, for any handler (the specification Spec of RetryExecutor).  *)

(* The loop's index counts the runs: the run with index i is the (i+1)-th,    *)
(* and the index moves past MaxRetries only at the loop's test.               *)
IndexInv ==
    /\ pc = "loop" => runs = i /\ i <= Max0(MaxRetries + 1)
    /\ pc \in {"handler", "check", "sleep"} => runs = i + 1 /\ i <= MaxRetries
    /\ pc = "done" => runs <= Max0(MaxRetries + 1)

(* Every completed sleep belongs to an index below MaxRetries.                *)
SleepInv ==
    /\ sleeps <= i
    /\ sleeps <= Max0(MaxRetries)
    /\ pc = "sleep" => i < MaxRetries

(* The loop is left, or goes on because the last run asked for a retry.       *)
RetryInv ==
    /\ pc \in {"check", "sleep"} => shouldRetry
    /\ pc = "loop" /\ runs > 0 => shouldRetry
    /\ pc = "loop" /\ runs = 0 => err = Nil

(* After a cancellation only the run that was past checkCancelled can begin.  *)
CancelInv ==
    ctx = "canceled" =>
        \/ pc \in {"loop", "sleep"} /\ runs <= runsAtCancel
        \/ pc \in {"handler", "check", "done"} /\ runs <= runsAtCancel + 1

ExecIInv == TypeOK /\ IndexInv /\ SleepInv /\ RetryInv /\ CancelInv
              /\ NilMeansSuccess /\ LastErrorWins

(* The invariant holds before the first run.                                  *)
LEMMA ExecInit == Init => ExecIInv
<1> SUFFICES ASSUME Init PROVE ExecIInv
  OBVIOUS
<1> USE RetriesAssumption DEF Init
<1>1. TypeOK
  BY DEF TypeOK, Contexts, Nil
<1>2. IndexInv /\ SleepInv
  BY DEF IndexInv, SleepInv, Max0
<1>3. RetryInv /\ CancelInv /\ NilMeansSuccess /\ LastErrorWins
  BY DEF RetryInv, CancelInv, NilMeansSuccess, LastErrorWins
<1> QED
  BY <1>1, <1>2, <1>3 DEF ExecIInv

(* Every step of Execute and of the context's owner preserves it.             *)
LEMMA ExecNext == ExecIInv /\ [Next]_vars => ExecIInv'
<1> SUFFICES ASSUME ExecIInv, [Next]_vars PROVE ExecIInv'
  OBVIOUS
<1> USE RetriesAssumption, IntervalAssumption, ErrsAssumption
    DEF ExecIInv, TypeOK, IndexInv, SleepInv, RetryInv, CancelInv, NilMeansSuccess,
        LastErrorWins, Contexts, Max0, Nil, TimeoutErr, CanceledErr
<1>1. CASE StartRun
  BY <1>1 DEF StartRun
<1>2. CASE Exhausted
  BY <1>2 DEF Exhausted, ExhaustedResult
<1>3. ASSUME NEW retry \in BOOLEAN, NEW e \in HandlerErrs \cup {Nil},
             HandlerReturns(retry, e)
      PROVE  ExecIInv'
  BY <1>3 DEF HandlerReturns
<1>4. CASE CheckCancelled
  BY <1>4 DEF CheckCancelled, Cancelled, Sleeps
<1>5. CASE Wake
  BY <1>5 DEF Wake
<1>6. CASE Cancel
  BY <1>6 DEF Cancel
<1>7. CASE DeadlinePasses
  BY <1>7 DEF DeadlinePasses
<1>8. CASE UNCHANGED vars
  BY <1>8 DEF vars
<1> QED
  BY <1>1, <1>2, <1>3, <1>4, <1>5, <1>6, <1>7, <1>8 DEF Next, Execute

(* The invariant is one of every behaviour.                                   *)
LEMMA ExecSpec == Spec => []ExecIInv
  BY ExecInit, ExecNext, PTL DEF Spec

(* Execute's variables stay in their types.                                   *)
THEOREM TypeCorrect == Spec => []TypeOK
<1>1. ExecIInv => TypeOK BY DEF ExecIInv
<1> QED BY <1>1, ExecSpec, PTL

(* For every MaxRetries: at most MaxRetries + 1 runs, at most MaxRetries      *)
(* sleeps.                                                                    *)
THEOREM RetryBudgetHolds == Spec => []RetryBudget
<1>1. ExecIInv => RetryBudget
  BY RetriesAssumption DEF ExecIInv, TypeOK, IndexInv, SleepInv, RetryBudget, Max0
<1> QED BY <1>1, ExecSpec, PTL

(* A nil answer is a successful last run; an error of the last run is kept.   *)
THEOREM ResultIsHonest == Spec => [](NilMeansSuccess /\ LastErrorWins)
<1>1. ExecIInv => NilMeansSuccess /\ LastErrorWins BY DEF ExecIInv
<1> QED BY <1>1, ExecSpec, PTL

(* Whatever the remaining budget, a cancellation lets one more run begin.     *)
THEOREM CancelStopsRetriesHolds == Spec => []CancelStopsRetries
<1>1. ExecIInv => CancelStopsRetries
  BY DEF ExecIInv, TypeOK, CancelInv, CancelStopsRetries
<1> QED BY <1>1, ExecSpec, PTL

-----------------------------------------------------------------------------
(* The calls that wait.  While a call polls it has not seen the job over (a         *)
(* deletion may have seen it fail, which it does not look at); and where it   *)
(* has stopped, what it last saw is what it stopped for.                      *)

Final == {"completed", "failed"}
Refusals == {"send", "status", "parse"}

Types ==
    /\ pc \in {"loop", "handler", "check", "sleep", "done"}
    /\ i \in Nat /\ runs \in Nat
    /\ caller \in Scans \cup Deletions \cup {"handler", "distribute"}
    /\ sync \in BOOLEAN /\ dryRun \in BOOLEAN
    /\ stage \in {"request", "poll", "done"}
    /\ job \in {"none", "running", "completed", "failed"}
    /\ lastSeen \in {"none", "running", "completed", "failed"}
    /\ finalResponse \in Bodies

\* Nothing has been polled yet.
Fresh ==
    /\ pc = "loop" /\ i = 0 /\ runs = 0 /\ err = Nil
    /\ job = "none" /\ lastSeen = "none" /\ finalResponse = "none"

SeenInv ==
    /\ lastSeen \in Final => job = lastSeen
    /\ caller = "handler" => lastSeen = "none" /\ stage # "request"
    /\ caller # "handler" => ctx = "none"
    /\ caller \in Scans => ~dryRun
    /\ stage = "request" => Fresh
    /\ stage = "poll" /\ caller # "handler" => Waits

(* The scans and the distribution, which poll from within Execute.            *)
ExecutorStopped ==
    \/ caller \in Scans /\ result = Nil /\ lastSeen \in Final /\ finalResponse \in {lastSeen, "garbled"}
    \/ caller = "distribute" /\ result = Nil /\ lastSeen = "completed"
    \/ caller = "distribute" /\ result = "failed" /\ lastSeen = "failed"
    \/ lastSeen \notin Final /\ result \in Refusals
    \/ lastSeen \notin Final /\ result = TimeoutErr /\ runs = Max0(MaxRetries + 1)

ExecutorInv ==
    stage = "poll" /\ caller \in Scans \cup {"distribute"} =>
        /\ job # "none"
        /\ pc # "done" => lastSeen \notin Final /\ err = Nil
        /\ pc = "loop" => runs = i /\ i <= Max0(MaxRetries + 1)
        /\ pc \in {"handler", "check", "sleep"} => runs = i + 1 /\ i <= MaxRetries
        /\ pc = "done" => ExecutorStopped

(* The deletions, which poll in a loop of their own.                          *)
DeletionStopped ==
    \/ result = Nil /\ lastSeen = "completed"
    \/ result \in Refusals /\ lastSeen # "completed"
    \/ result = TimeoutErr /\ lastSeen # "completed" /\ runs = Max0(MaxRetries)

DeletionInv ==
    stage = "poll" /\ caller \in Deletions =>
        /\ pc \in {"loop", "sleep", "done"}
        /\ pc # "done" => lastSeen # "completed"
        /\ pc = "loop" => runs = i /\ i <= Max0(MaxRetries)
        /\ pc = "sleep" => runs = i + 1 /\ i < MaxRetries
        /\ pc = "done" => DeletionStopped

IInv == Types /\ SeenInv /\ ExecutorInv /\ DeletionInv /\ VerdictMatchesJob

-----------------------------------------------------------------------------
LEMMA ErrorsDiffer ==
    /\ \A e \in {"send", "status", "parse", "failed"} : e # Nil /\ e # TimeoutErr /\ e # CanceledErr
    /\ Nil # TimeoutErr /\ Nil # CanceledErr /\ TimeoutErr # CanceledErr
BY ErrsAssumption, PollErrsAssumption DEF Nil, TimeoutErr, CanceledErr

LEMMA Initially == PollInit => IInv
<1> SUFFICES ASSUME PollInit PROVE IInv
  OBVIOUS
<1> USE DEF PollInit, Init
<1>1. Types
  BY DEF Types, Bodies
<1>2. SeenInv
  BY DEF SeenInv, Fresh, Final, Scans, Deletions
<1>3. stage # "done" /\ (stage = "poll" => caller = "handler")
  OBVIOUS
<1>4. ExecutorInv /\ DeletionInv /\ VerdictMatchesJob
  BY <1>3 DEF ExecutorInv, DeletionInv, VerdictMatchesJob, Scans, Deletions
<1> QED BY <1>1, <1>2, <1>4 DEF IInv

(* The request is refused, dry or taken: a call that will not wait is over,   *)
(* one that will has polled nothing.                                          *)
LEMMA RequestKept ==
    ASSUME IInv, LocalDryRun \/ RequestFails \/ RequestTaken
    PROVE  IInv'
<1> USE DEF IInv
<1>1. /\ stage = "request" /\ Fresh /\ caller # "handler"
      /\ UNCHANGED <<vars, caller, sync, dryRun, lastSeen, finalResponse>>
  BY DEF LocalDryRun, RequestFails, RequestTaken, Ends, SeenInv
<1>2. /\ stage' \in {"poll", "done"} /\ job' \in {"none", "running"}
      /\ stage' = "poll" => Waits /\ (~dryRun => job' = "running")
      /\ stage' = "done" => ~Waits \/ answer' \in Refusals
  BY <1>1 DEF LocalDryRun, RequestFails, RequestTaken, Ends, Fresh, Refusals, Waits, Scans, Deletions
<1>3. Waits' = Waits /\ Fresh = (Fresh /\ lastSeen = "none")
  BY <1>1 DEF Waits, Fresh
<1>4. Types'
  BY <1>1, <1>2 DEF Types, vars
<1>5. SeenInv'
  BY <1>1, <1>2, <1>3 DEF SeenInv, Fresh, Final, vars
<1>6. ExecutorInv'
  <2>1. caller \in Scans \cup {"distribute"} /\ stage' = "poll" => job' # "none"
    BY <1>1, <1>2 DEF SeenInv, Waits, Scans, Deletions
  <2> QED BY <1>1, <2>1, RetriesAssumption DEF ExecutorInv, Fresh, Final, vars, Max0
<1>7. DeletionInv'
  BY <1>1, <1>2, RetriesAssumption DEF DeletionInv, Fresh, vars, Max0, Deletions
<1>8. VerdictMatchesJob'
  BY <1>1, <1>2, <1>3, ErrorsDiffer DEF VerdictMatchesJob, Fresh, Refusals, vars
<1> QED BY <1>4, <1>5, <1>6, <1>7, <1>8

(* What VerdictMatchesJob says of calls that are not over: nothing.           *)
LEMMA NotOver == stage # "done" => VerdictMatchesJob
BY DEF VerdictMatchesJob

(* A run of the handler: a poll.                                              *)
LEMMA HandlerKept == ASSUME IInv, Handler PROVE IInv'
<1> USE DEF IInv
<1>1. /\ stage = "poll" /\ caller \notin Deletions /\ pc = "handler"
      /\ UNCHANGED <<caller, sync, dryRun, stage, job, answer, i, ctx, runs>>
      /\ pc' \in {"check", "done"}
  BY DEF Handler, ScanPolled, DistributionPolled, HandlerReturns
<1>2. Waits' = Waits
  BY <1>1 DEF Waits
<1>3. CASE caller = "handler"
  <2>1. UNCHANGED <<lastSeen, finalResponse>>
    BY <1>3 DEF Handler, Scans
  <2>2. Types'
    BY <1>1, <2>1 DEF Types
  <2>3. SeenInv'
    BY <1>1, <1>2, <2>1 DEF SeenInv
  <2>4. ExecutorInv' /\ DeletionInv' /\ VerdictMatchesJob'
    BY <1>1, <1>3 DEF ExecutorInv, DeletionInv, VerdictMatchesJob, Scans, Deletions
  <2> QED BY <2>2, <2>3, <2>4
<1>4. CASE caller # "handler"
  <2>0. caller \in Scans \cup {"distribute"}
    BY <1>1, <1>4 DEF Types
  <2>1. lastSeen \notin Final /\ err = Nil /\ job # "none" /\ runs = i + 1 /\ i <= MaxRetries
    BY <1>1, <2>0 DEF ExecutorInv
  <2>2. /\ lastSeen' \in {lastSeen, job} /\ finalResponse' \in Bodies
        /\ pc' = "check" => err' = Nil /\ lastSeen' = "running"
        /\ pc' = "done" => ExecutorStopped'
    <3>1. CASE caller \in Scans
      <4>1. ScanPolled
        BY <3>1 DEF Handler, Scans
      <4>2. CASE job = "running" /\ lastSeen' = job /\ HandlerReturns(TRUE, Nil) /\ finalResponse' = "none"
        BY <4>2 DEF HandlerReturns, Bodies
      <4>3. CASE job # "running" /\ lastSeen' = job /\ HandlerReturns(FALSE, Nil) /\ finalResponse' \in {job, "garbled"}
        <5>1. job \in Final
          BY <2>1, <4>3 DEF Types, Final
        <5> QED BY <1>1, <3>1, <4>3, <5>1 DEF HandlerReturns, Bodies, Final, ExecutorStopped
      <4>4. CASE \E e \in {"send", "status"} :
                    HandlerReturns(FALSE, e) /\ finalResponse' = "none" /\ UNCHANGED lastSeen
        BY <2>1, <4>4 DEF HandlerReturns, Bodies, ExecutorStopped, Refusals
      <4> QED BY <4>1, <4>2, <4>3, <4>4 DEF ScanPolled
    <3>2. CASE caller = "distribute"
      <4>1. DistributionPolled
        BY <3>2 DEF Handler, Scans
      <4>2. CASE lastSeen' = job /\ HandlerReturns(job = "running", IF job = "failed" THEN "failed" ELSE Nil)
        <5>1. CASE job = "running"
          BY <4>1, <4>2, <5>1 DEF DistributionPolled, HandlerReturns, Types
        <5>2. CASE job # "running"
          <6>1. job \in Final
            BY <2>1, <5>2 DEF Types, Final
          <6>2. pc' = "done" /\ result' = IF job = "failed" THEN "failed" ELSE Nil
            BY <4>2, <5>2 DEF HandlerReturns
          <6> QED BY <1>1, <3>2, <4>1, <4>2, <6>1, <6>2 DEF DistributionPolled, Types, Final, ExecutorStopped
        <5> QED BY <5>1, <5>2
      <4>3. CASE \E e \in Refusals : HandlerReturns(FALSE, e) /\ UNCHANGED lastSeen
        BY <2>1, <4>1, <4>3 DEF DistributionPolled, HandlerReturns, Types, ExecutorStopped
      <4> QED BY <4>1, <4>2, <4>3 DEF DistributionPolled, Refusals
    <3> QED BY <2>0, <3>1, <3>2
  <2>3. Types'
    BY <1>1, <2>2 DEF Types
  <2>4. SeenInv'
    BY <1>1, <1>2, <1>4, <2>1, <2>2 DEF SeenInv
  <2>5. ExecutorInv'
    BY <1>1, <2>1, <2>2 DEF ExecutorInv, Final
  <2>6. DeletionInv' /\ VerdictMatchesJob'
    BY <1>1 DEF DeletionInv, VerdictMatchesJob
  <2> QED BY <2>3, <2>4, <2>5, <2>6
<1> QED BY <1>3, <1>4

(* Execute's own steps.                                                       *)
LEMMA ExecutorKept == ASSUME IInv, Executor PROVE IInv'
<1> USE DEF IInv
<1>1. /\ stage = "poll" /\ caller \notin Deletions
      /\ StartRun \/ Exhausted \/ CheckCancelled \/ Wake
      /\ UNCHANGED pollVars
  BY DEF Executor
<1>2. UNCHANGED <<err, ctx, caller, sync, dryRun, stage, job, lastSeen, finalResponse, answer>>
  BY <1>1 DEF StartRun, Exhausted, CheckCancelled, Wake, pollVars
<1>3. Types'
  BY <1>1, <1>2 DEF Types, StartRun, Exhausted, CheckCancelled, Wake
<1>4. SeenInv'
  BY <1>1, <1>2 DEF SeenInv, Waits
<1>5. ExecutorInv'
  <2> SUFFICES ASSUME caller \in Scans \cup {"distribute"} PROVE ExecutorInv'
    BY <1>2 DEF ExecutorInv
  <2> USE <1>1, <1>2, RetriesAssumption DEF Types, ExecutorInv, Max0
  <2>1. ctx = "none"
    BY DEF SeenInv, Scans
  <2>2. CASE StartRun
    BY <2>2 DEF StartRun
  <2>3. CASE Exhausted
    BY <2>3, ErrorsDiffer DEF Exhausted, ExhaustedResult, ExecutorStopped
  <2>4. CASE CheckCancelled
    BY <2>1, <2>4 DEF CheckCancelled, Cancelled
  <2>5. CASE Wake
    BY <2>5 DEF Wake
  <2> QED BY <2>2, <2>3, <2>4, <2>5
<1>6. DeletionInv' /\ VerdictMatchesJob'
  BY <1>1, <1>2 DEF DeletionInv, VerdictMatchesJob
<1> QED BY <1>3, <1>4, <1>5, <1>6

(* The loop of the deletions.                                                 *)
LEMMA DeletionKept ==
    ASSUME IInv, DeletionPolls \/ DeletionTimesOut \/ DeletionWakes
    PROVE  IInv'
<1> USE DEF IInv
<1>1. /\ stage = "poll" /\ caller \in Deletions
      /\ UNCHANGED <<ctx, caller, sync, dryRun, stage, job, finalResponse, answer>>
      /\ lastSeen' \in {lastSeen, job}
  BY DEF DeletionPolls, DeletionTimesOut, DeletionWakes, Wake, pollVars
<1>2. caller \notin Scans \cup {"handler", "distribute"}
  BY <1>1 DEF Deletions, Scans
<1>3. Types'
  BY <1>1 DEF Types, DeletionPolls, DeletionReturns, DeletionTimesOut, DeletionWakes, Wake, pollVars
<1>4. SeenInv'
  BY <1>1, <1>2 DEF SeenInv, Waits
<1>5. ExecutorInv' /\ VerdictMatchesJob'
  BY <1>1, <1>2 DEF ExecutorInv, VerdictMatchesJob
<1>6. DeletionInv'
  <2> USE <1>1, RetriesAssumption DEF Types, DeletionInv, DeletionLoops, DeletionStopped, Refusals, Max0
  <2>1. CASE DeletionPolls
    BY <2>1 DEF DeletionPolls, DeletionReturns
  <2>2. CASE DeletionTimesOut
    BY <2>2 DEF DeletionTimesOut, pollVars
  <2>3. CASE DeletionWakes
    BY <2>3 DEF DeletionWakes, Wake, pollVars
  <2> QED BY <2>1, <2>2, <2>3
<1> QED BY <1>3, <1>4, <1>5, <1>6

(* The call returns what it stopped for.                                      *)
LEMMA AnswerKept == ASSUME IInv, Answers PROVE IInv'
<1> USE DEF IInv
<1>1. /\ stage = "poll" /\ pc = "done" /\ stage' = "done"
      /\ answer' = IF result = Nil /\ caller \in Scans THEN ParseErr(finalResponse) ELSE result
      /\ UNCHANGED <<vars, caller, sync, dryRun, job, lastSeen, finalResponse>>
  BY DEF Answers, Returned
<1>2. Types'
  BY <1>1 DEF Types, vars
<1>3. SeenInv'
  BY <1>1 DEF SeenInv, vars
<1>4. ExecutorInv' /\ DeletionInv'
  BY <1>1 DEF ExecutorInv, DeletionInv
<1>5. lastSeen' = lastSeen /\ job' = job /\ runs' = runs /\ caller' = caller /\ finalResponse' = finalResponse
  BY <1>1 DEF vars
<1>6. VerdictMatchesJob'
  <2>1. CASE caller = "handler"
    BY <1>1, <1>5, <2>1 DEF VerdictMatchesJob, SeenInv
  <2>2. CASE caller \in Deletions
    <3>1. DeletionStopped /\ answer' = result
      BY <1>1, <2>2 DEF DeletionInv, Scans, Deletions
    <3> QED BY <1>1, <1>5, <2>2, <3>1, ErrorsDiffer
            DEF DeletionStopped, Refusals, VerdictMatchesJob, SeenInv, Final
  <2>3. CASE caller \in Scans
    <3>1. ExecutorStopped /\ caller \notin Deletions \cup {"distribute"}
      BY <1>1, <2>3 DEF ExecutorInv, Scans, Deletions
    <3>2. CASE result = Nil
      <4>1. lastSeen \in Final /\ finalResponse \in {lastSeen, "garbled"}
        BY <3>1, <3>2, ErrorsDiffer DEF ExecutorStopped, Refusals
      <4>2. answer' = IF finalResponse = "garbled" THEN "parse"
                      ELSE IF finalResponse = "failed" THEN "failed" ELSE Nil
        BY <1>1, <2>3, <3>2, <4>1 DEF ParseErr, Final
      <4> QED BY <1>1, <1>5, <4>1, <4>2, ErrorsDiffer DEF VerdictMatchesJob, SeenInv, Final
    <3>3. CASE result # Nil
      <4>1. lastSeen \notin Final /\ (result \in Refusals \/ (result = TimeoutErr /\ runs = Max0(MaxRetries + 1)))
        BY <3>1, <3>3 DEF ExecutorStopped
      <4>2. answer' = result
        BY <1>1, <3>3
      <4> QED BY <1>1, <1>5, <3>1, <3>3, <4>1, <4>2, ErrorsDiffer DEF VerdictMatchesJob, Final, Refusals
    <3> QED BY <3>2, <3>3
  <2>4. CASE caller = "distribute"
    <3>1. ExecutorStopped /\ answer' = result /\ caller \notin Deletions \cup Scans
      BY <1>1, <2>4 DEF ExecutorInv, Scans, Deletions
    <3> QED BY <1>1, <1>5, <2>4, <3>1, ErrorsDiffer
            DEF ExecutorStopped, Refusals, VerdictMatchesJob, SeenInv, Final
  <2> QED BY <2>1, <2>2, <2>3, <2>4 DEF Types
<1> QED BY <1>2, <1>3, <1>4, <1>6

(* The job ends; the owner of the context acts.                               *)
LEMMA OthersKeep ==
    ASSUME IInv, JobEnds \/ ((Cancel \/ DeadlinePasses) /\ UNCHANGED pollVars) \/ UNCHANGED allVars
    PROVE  IInv'
<1> USE DEF IInv
<1>1. CASE JobEnds
  <2>1. /\ job = "running" /\ job' \in Final /\ stage # "done"
        /\ UNCHANGED <<vars, caller, sync, dryRun, stage, lastSeen, finalResponse, answer>>
    BY <1>1 DEF JobEnds, Final
  <2>2. lastSeen \notin Final /\ stage # "request"
    BY <2>1 DEF SeenInv, Fresh, Final
  <2>3. Types'
    BY <2>1 DEF Types, vars, Final
  <2>4. SeenInv'
    BY <2>1, <2>2 DEF SeenInv, vars, Waits
  <2>5. ExecutorInv' /\ DeletionInv' /\ VerdictMatchesJob'
    BY <2>1, <2>2 DEF ExecutorInv, ExecutorStopped, DeletionInv, DeletionStopped, VerdictMatchesJob, vars, Final
  <2> QED BY <2>3, <2>4, <2>5
<1>2. CASE (Cancel \/ DeadlinePasses) /\ UNCHANGED pollVars
  <2>1. ctx = "live" /\ UNCHANGED <<pc, i, err, result, runs, pollVars>>
    BY <1>2 DEF Cancel, DeadlinePasses
  <2>2. caller = "handler"
    BY <2>1 DEF SeenInv
  <2> QED BY <2>1, <2>2 DEF pollVars, Types, SeenInv, Fresh, Waits, ExecutorInv, DeletionInv,
                            VerdictMatchesJob, Scans, Deletions
<1>3. CASE UNCHANGED allVars
  BY <1>3 DEF allVars, vars, pollVars, Types, SeenInv, Fresh, Waits, ExecutorInv, ExecutorStopped,
              DeletionInv, DeletionStopped, VerdictMatchesJob
<1> QED BY <1>1, <1>2, <1>3

LEMMA Inductive == IInv /\ [PollNext]_allVars => IInv'
BY RequestKept, HandlerKept, ExecutorKept, DeletionKept, AnswerKept, OthersKeep DEF PollNext, Caller

-----------------------------------------------------------------------------
(* For every number of polls: a nil answer is a completed job, "failed" is a  *)
(* failed one, a timeout comes after all the polls of the wait, and a job     *)
(* that a poll saw completed is reported.                                     *)
THEOREM VerdictMatchesJobHolds == PollSpec => []VerdictMatchesJob
<1>1. PollInit => IInv
  BY Initially
<1>2. IInv /\ [PollNext]_allVars => IInv'
  BY Inductive
<1>3. IInv => VerdictMatchesJob
  BY DEF IInv
<1> QED BY <1>1, <1>2, <1>3, PTL DEF PollSpec

-----------------------------------------------------------------------------
(* Every caller but the deletions, which have a loop of their own, runs       *)
(* Execute and nothing else on Execute's registers; a deletion has no         *)
(* context.  So what holds of Execute for any handler holds of their waits.   *)

ExecPart == caller \notin Deletions => ExecIInv
FixedInv == caller \in Deletions => ctx = "none"

LEMMA ExecuteSteps == PollNext /\ caller \notin Deletions => [Next]_vars
<1> SUFFICES ASSUME PollNext, caller \notin Deletions PROVE [Next]_vars
  OBVIOUS
<1>1. CASE LocalDryRun \/ RequestFails \/ RequestTaken \/ JobEnds \/ Answers
  BY <1>1 DEF LocalDryRun, RequestFails, RequestTaken, Ends, JobEnds, Answers, vars
<1>2. CASE Handler
  <2>1. \E retry \in BOOLEAN, e \in HandlerErrs \cup {Nil} : HandlerReturns(retry, e)
    <3>1. CASE caller = "handler"
      BY <1>2, <3>1 DEF Handler, Scans
    <3>2. CASE caller \in Scans
      BY <1>2, <3>2, PollErrsAssumption DEF Handler, Scans, ScanPolled
    <3>3. CASE caller = "distribute"
      <4>1. DistributionPolled
        BY <1>2, <3>3 DEF Handler, Scans
      <4>2. CASE HandlerReturns(job = "running", IF job = "failed" THEN "failed" ELSE Nil)
        <5>1. PICK retry \in BOOLEAN : retry = (job = "running")
          OBVIOUS
        <5>2. (IF job = "failed" THEN "failed" ELSE Nil) \in HandlerErrs \cup {Nil}
          BY PollErrsAssumption
        <5> QED BY <4>2, <5>1, <5>2
      <4>3. CASE \E e \in Refusals : HandlerReturns(FALSE, e)
        BY <4>3, PollErrsAssumption DEF Refusals
      <4> QED BY <4>1, <4>2, <4>3 DEF DistributionPolled, Refusals
    <3> QED BY <1>2, <3>1, <3>2, <3>3 DEF Handler
  <2> QED BY <2>1 DEF Next, Execute
<1>3. CASE Executor
  BY <1>3 DEF Executor, Next, Execute
<1>4. CASE DeletionPolls \/ DeletionTimesOut \/ DeletionWakes
  BY <1>4 DEF DeletionPolls, DeletionTimesOut, DeletionWakes
<1>5. CASE Cancel \/ DeadlinePasses
  BY <1>5 DEF Next
<1> QED BY <1>1, <1>2, <1>3, <1>4, <1>5 DEF PollNext, Caller

LEMMA CallerStays == [PollNext]_allVars => caller' = caller
BY DEF PollNext, Caller, LocalDryRun, RequestFails, RequestTaken, Ends, Handler, Executor,
       DeletionPolls, DeletionTimesOut, DeletionWakes, Answers, JobEnds, allVars, pollVars

LEMMA ExecPartKept ==
    ExecPart /\ FixedInv /\ [PollNext]_allVars => ExecPart' /\ FixedInv'
<1> SUFFICES ASSUME ExecPart, FixedInv, [PollNext]_allVars PROVE ExecPart' /\ FixedInv'
  OBVIOUS
<1>1. caller' = caller
  BY CallerStays
<1>2. CASE caller \notin Deletions
  <2>1. [Next]_vars
    BY <1>2, ExecuteSteps DEF allVars
  <2> QED BY <1>1, <1>2, <2>1, ExecNext DEF ExecPart, FixedInv
<1>3. CASE caller \in Deletions
  <2>1. ctx' = ctx
    BY <1>3 DEF FixedInv, PollNext, Caller, LocalDryRun, RequestFails, RequestTaken, Ends, Handler,
           Executor, DeletionPolls, DeletionTimesOut, DeletionWakes, Wake, Answers, JobEnds,
           Cancel, DeadlinePasses, allVars, pollVars, vars
  <2> QED BY <1>1, <1>3, <2>1 DEF ExecPart, FixedInv
<1> QED BY <1>2, <1>3

LEMMA ExecPartAlways == PollSpec => [](ExecPart /\ FixedInv)
<1>1. PollInit => ExecPart /\ FixedInv
  BY ExecInit DEF PollInit, ExecPart, FixedInv, Deletions
<1>2. ExecPart /\ FixedInv /\ [PollNext]_allVars => (ExecPart /\ FixedInv)'
  BY ExecPartKept
<1> QED BY <1>1, <1>2, PTL DEF PollSpec

(* For every caller: once its context is canceled, at most one run of its     *)
(* handler begins.                                                            *)
THEOREM CallersStopOnCancel == PollSpec => []CancelStopsRetries
<1>1. ExecPart /\ FixedInv => CancelStopsRetries
  BY DEF ExecPart, FixedInv, ExecIInv, TypeOK, CancelInv, CancelStopsRetries
<1> QED BY <1>1, ExecPartAlways, PTL

-----------------------------------------------------------------------------
(* The requests that share a token (TokenRefresh) *)

(* Whole minutes: at most k of them are left only if less than k + 1 are.     *)
LEMMA MinutesLeft ==
    ASSUME NEW a \in Nat, NEW m \in Nat \ {0}, NEW k \in Nat, a \div m <= k
    PROVE  a < (k + 1) * m
<1> DEFINE q == a \div m
<1> DEFINE r == a % m
<1>1. q \in Int /\ r \in Int /\ r < m /\ a = m * q + r
  OBVIOUS
<1> HIDE DEF q, r
<1>2. m * q <= m * k
  <2>1. q <= k
    BY DEF q
  <2>2. k - q \in Nat
    BY <1>1, <2>1
  <2>3. m * (k - q) >= 0
    BY <2>2
  <2> QED
    BY <1>1, <2>3
<1> QED
  BY <1>1, <1>2

Places == {"idle", "check", "lock", "recheck", "sleep", "agent", "key", "copy", "send"}

(* The part of the types the argument needs.                                  *)
TokenTypes ==
    /\ clock \in Nat /\ expires \in Seq(Nat) /\ shared \in 1 .. Issued
    /\ mutex \in Threads \cup {Nobody}
    /\ step \in [Threads -> Places]
    /\ token \in [Threads -> 1 .. Issued]

TokenInv == TokenTypes /\ OneHolder /\ RenewsOldToken

(* Nothing that the invariant says depends on ages, sleeps or counts.         *)
LEMMA TokenInitially == TokenInit => TokenInv
<1> SUFFICES ASSUME TokenInit PROVE TokenInv
  OBVIOUS
<1>1. expires \in Seq(Nat) /\ Len(expires) = 1
  BY TokenAssumption DEF TokenInit
<1> QED
  BY <1>1, TokenAssumption DEF TokenInit, TokenInv, TokenTypes, Places, OneHolder, RenewsOldToken, Holding, Renewing, Issued

(* A token that is issued leaves the older ones' expiry alone.                *)
LEMMA IssueKeeps ==
    ASSUME TokenTypes, Issue
    PROVE  /\ expires' \in Seq(Nat) /\ Issued' = Issued + 1
           /\ \A n \in 1 .. Issued : expires'[n] = expires[n]
<1>1. clock + Lifetime \in Nat
  BY TokenAssumption DEF TokenTypes
<1> QED
  BY <1>1 DEF TokenTypes, Issue, Issued

(* Tokens about to expire stay so.                                            *)
LEMMA AboutToExpireStays ==
    ASSUME TokenTypes, NEW n \in 1 .. Issued, AboutToExpire(n),
           clock' \in Nat, clock' >= clock, expires'[n] = expires[n]
    PROVE  AboutToExpire(n)'
<1>1. (Margin + 1) * Minute \in Int
  BY TokenAssumption
<1>2. expires[n] \in Nat /\ clock \in Nat
  BY DEF TokenTypes, Issued
<1> HIDE DEF TokenTypes
<1> QED
  BY <1>1, <1>2 DEF AboutToExpire

(* What the check finds about to expire is.                                   *)
LEMMA CheckIsSound ==
    ASSUME TokenTypes, NEW n \in 1 .. Issued, ~(GetTokenMinutesLeft(n) > Margin)
    PROVE  AboutToExpire(n)
<1>1. expires[n] \in Nat /\ clock \in Nat
  BY DEF TokenTypes, Issued
<1>2. (Margin + 1) * Minute \in Nat /\ (Margin + 1) * Minute > 0
  <2>1. Margin + 1 >= 1 /\ Minute >= 1 /\ Margin + 1 \in Nat /\ Minute \in Nat
    BY TokenAssumption
  <2> QED
    BY <2>1
<1>3. CASE expires[n] < clock
  BY <1>1, <1>2, <1>3 DEF AboutToExpire
<1>4. CASE ~(expires[n] < clock)
  <2>1. expires[n] - clock \in Nat
    BY <1>1, <1>4
  <2>2. (expires[n] - clock) \div Minute \in Int /\ (expires[n] - clock) \div Minute <= Margin
    BY <1>4, <2>1, TokenAssumption DEF GetTokenMinutesLeft
  <2>3. expires[n] - clock < (Margin + 1) * Minute
    BY <2>1, <2>2, MinutesLeft, TokenAssumption
  <2> QED
    BY <1>1, <1>2, <2>3 DEF AboutToExpire
<1> QED
  BY <1>3, <1>4

(* One step, one thread: what it has to show of itself and of the others.     *)
LEMMA TokenStep == TokenInv /\ [TokenNext]_tokenVars => TokenInv'
<1> SUFFICES ASSUME TokenInv, [TokenNext]_tokenVars PROVE TokenInv'
  OBVIOUS
<1> USE DEF TokenInv
<1>a. TokenTypes /\ OneHolder /\ RenewsOldToken
  OBVIOUS
<1>1. ASSUME NEW t \in Threads, Create(t) PROVE TokenInv'
  <2>1. UNCHANGED <<clock, expires, shared, mutex>> /\ step' = [step EXCEPT ![t] = "check"]
        /\ token' = [token EXCEPT ![t] = shared] /\ step[t] = "idle"
    BY <1>1 DEF Create, Goto
  <2> QED
    BY <2>1, <1>a DEF TokenTypes, Places, Issued, OneHolder, RenewsOldToken, Holding, Renewing, AboutToExpire
<1>2. ASSUME NEW t \in Threads, Check(t) PROVE TokenInv'
  <2>1. UNCHANGED <<clock, expires, shared, mutex, token>> /\ step[t] = "check"
        /\ step' = [step EXCEPT ![t] = IF GetTokenMinutesLeft(token[t]) > Margin THEN "send" ELSE "lock"]
    BY <1>2 DEF Check, Goto
  <2>2. token[t] \in 1 .. Issued
    BY <1>a DEF TokenTypes
  <2>3. step'[t] = "lock" => AboutToExpire(token[t])
    BY <2>1, <2>2, <1>a, CheckIsSound DEF TokenTypes
  <2> QED
    BY <2>1, <2>3, <1>a DEF TokenTypes, Places, Issued, OneHolder, RenewsOldToken, Holding, Renewing, AboutToExpire
<1>3. ASSUME NEW t \in Threads, CheckFails(t) \/ Send(t) PROVE TokenInv'
  <2>1. UNCHANGED <<clock, expires, shared, mutex, token>> /\ step' = [step EXCEPT ![t] = "idle"]
        /\ step[t] \in {"check", "send"}
    BY <1>3 DEF CheckFails, Send, Goto
  <2> QED
    BY <2>1, <1>a DEF TokenTypes, Places, Issued, OneHolder, RenewsOldToken, Holding, Renewing, AboutToExpire
<1>4. ASSUME NEW t \in Threads, Lock(t) PROVE TokenInv'
  <2>1. UNCHANGED <<clock, expires, shared, token>> /\ step' = [step EXCEPT ![t] = "recheck"]
        /\ step[t] = "lock" /\ mutex = Nobody /\ mutex' = t
    BY <1>4 DEF Lock, Goto
  <2>2. \A u \in Threads : ~Holding(u)
    BY <2>1, <1>a, TokenAssumption DEF OneHolder
  <2> QED
    BY <2>1, <2>2, <1>a DEF TokenTypes, Places, Issued, OneHolder, RenewsOldToken, Holding, Renewing, AboutToExpire
<1>5. ASSUME NEW t \in Threads, Recheck(t) \/ WaitIsOver(t) PROVE TokenInv'
  <2>1. /\ UNCHANGED <<clock, expires, shared, mutex, token>> /\ step[t] \in {"recheck", "sleep"}
        /\ \E p \in {"copy", "sleep", "agent"} :
             step' = [step EXCEPT ![t] = p] /\ (p # "copy" => token[t] = shared)
    BY <1>5, <1>a DEF Recheck, WaitIsOver, Goto, RenewsOldToken, Renewing
  <2> QED
    BY <2>1, <1>a DEF TokenTypes, Places, Issued, OneHolder, RenewsOldToken, Holding, Renewing, AboutToExpire
<1>6. ASSUME NEW t \in Threads, Authenticate(t) PROVE TokenInv'
  <2>1. UNCHANGED <<clock, mutex, token>> /\ step' = [step EXCEPT ![t] = "copy"] /\ Issue
        /\ step[t] \in {"agent", "key"} /\ shared' = Issued + 1
    BY <1>6 DEF Authenticate, Goto
  <2>2. /\ expires' \in Seq(Nat) /\ Issued' = Issued + 1 /\ Issued \in Nat
        /\ \A n \in 1 .. Issued : expires'[n] = expires[n]
    BY <2>1, <1>a, IssueKeeps DEF TokenTypes, Issued
  <2>3. \A u \in Threads : u # t => ~Holding(u)
    BY <2>1, <1>a DEF OneHolder, Holding
  <2>4. TokenTypes'
    BY <2>1, <2>2, <1>a DEF TokenTypes, Places
  <2>5. \A u \in Threads : step'[u] = step[u] \/ u = t
    BY <2>1, <1>a DEF TokenTypes
  <2>6. step'[t] = "copy"
    BY <2>1, <1>a DEF TokenTypes
  <2>7. OneHolder'
    BY <2>1, <2>5, <2>6, <1>a DEF OneHolder, Holding
  <2>8. \A u \in Threads : ~Renewing(u)'
    BY <2>3, <2>5, <2>6 DEF Holding, Renewing
  <2>9. \A u \in Threads : AboutToExpire(token[u]) => AboutToExpire(token[u])'
    <3> TAKE u \in Threads
    <3>1. token[u] \in 1 .. Issued /\ clock' = clock /\ token' = token /\ clock \in Nat
      BY <2>1, <1>a DEF TokenTypes
    <3> QED
      BY <3>1, <2>2 DEF AboutToExpire
  <2>10. \A u \in Threads : step'[u] = "lock" \/ Holding(u)' => step[u] = "lock" \/ Holding(u)
    BY <2>1, <2>5 DEF Holding
  <2> QED
    BY <2>1, <2>4, <2>7, <2>8, <2>9, <2>10, <1>a DEF RenewsOldToken
<1>7. ASSUME NEW t \in Threads, NoAgent(t) \/ AgentFails(t) \/ NoKey(t) \/ KeyFails(t) PROVE TokenInv'
  <2>1. /\ clock' = clock /\ token' = token /\ shared' = shared
        /\ Issue \/ UNCHANGED expires
        /\ step[t] \in {"agent", "key"}
        /\ \/ step' = [step EXCEPT ![t] = "key"] /\ mutex' = mutex
           \/ step' = [step EXCEPT ![t] = "idle"] /\ mutex' = Nobody
    <3>1. CASE NoAgent(t)
      BY <3>1 DEF NoAgent, Goto
    <3>2. CASE AgentFails(t)
      BY <3>2 DEF AgentFails, Goto
    <3>3. CASE NoKey(t)
      BY <3>3 DEF NoKey, Goto
    <3>4. CASE KeyFails(t)
      BY <3>4 DEF KeyFails, Goto
    <3> QED BY <1>7, <3>1, <3>2, <3>3, <3>4
  <2>2. /\ expires' \in Seq(Nat) /\ Issued' >= Issued /\ Issued' \in Nat /\ Issued \in Nat
        /\ \A n \in 1 .. Issued : expires'[n] = expires[n]
    <3>0. Issued \in Nat
      BY <1>a DEF TokenTypes, Issued
    <3>1. CASE Issue
      BY <3>0, <3>1, <1>a, IssueKeeps
    <3>2. CASE UNCHANGED expires
      BY <3>0, <3>2, <1>a DEF TokenTypes, Issued
    <3> QED BY <2>1, <3>1, <3>2
  <2>3. \A u \in Threads : u # t => ~Holding(u)
    BY <2>1, <1>a DEF OneHolder, Holding
  <2>4. TokenTypes'
    <3>1. shared' \in 1 .. Issued' /\ token' \in [Threads -> 1 .. Issued']
      BY <2>1, <2>2, <1>a DEF TokenTypes
    <3>2. step' \in [Threads -> Places] /\ mutex' \in Threads \cup {Nobody}
      BY <2>1, <1>a DEF TokenTypes, Places
    <3> QED
      BY <2>1, <2>2, <3>1, <3>2, <1>a DEF TokenTypes
  <2>5. \A u \in Threads : step'[u] = step[u] \/ u = t
    BY <2>1, <1>a DEF TokenTypes
  <2>6. step'[t] \in {"key", "idle"} /\ (step'[t] = "key" => mutex' = mutex)
    BY <2>1, <1>a DEF TokenTypes
  <2>7. OneHolder'
    BY <2>1, <2>3, <2>5, <2>6, <1>a DEF OneHolder, Holding
  <2>8. \A u \in Threads : AboutToExpire(token[u]) => AboutToExpire(token[u])'
    <3> TAKE u \in Threads
    <3>1. token[u] \in 1 .. Issued
      BY <1>a DEF TokenTypes
    <3>2. expires'[token[u]] = expires[token[u]]
      BY <3>1, <2>2
    <3> QED
      BY <2>1, <3>2 DEF AboutToExpire
  <2>9. \A u \in Threads :
            /\ step'[u] = "lock" \/ Holding(u)' => step[u] = "lock" \/ Holding(u)
            /\ Renewing(u)' => Renewing(u)
    BY <2>1, <2>5, <2>6 DEF Holding, Renewing
  <2>10. RenewsOldToken'
    <3> SUFFICES ASSUME NEW u \in Threads
                 PROVE  /\ step'[u] = "lock" \/ Holding(u)' => AboutToExpire(token[u])'
                        /\ Renewing(u)' => token'[u] = shared'
      BY DEF RenewsOldToken
    <3> QED
      BY <2>1, <2>8, <2>9, <1>a DEF RenewsOldToken
  <2> QED
    BY <2>4, <2>7, <2>10
<1>8. ASSUME NEW t \in Threads, CopyToken(t) PROVE TokenInv'
  <2>1. UNCHANGED <<clock, expires, shared>> /\ step' = [step EXCEPT ![t] = "send"]
        /\ token' = [token EXCEPT ![t] = shared] /\ mutex' = Nobody /\ step[t] = "copy"
    BY <1>8 DEF CopyToken, Goto
  <2>2. \A u \in Threads : u # t => ~Holding(u)
    BY <2>1, <1>a DEF OneHolder, Holding
  <2> QED
    BY <2>1, <2>2, <1>a DEF TokenTypes, Places, Issued, OneHolder, RenewsOldToken, Holding, Renewing, AboutToExpire
<1>9. ASSUME Tick PROVE TokenInv'
  <2>1. UNCHANGED <<expires, shared, mutex, step, token>> /\ clock' = clock + 1 /\ clock \in Nat
    BY <1>9, <1>a DEF Tick, TokenTypes
  <2>2. TokenTypes' /\ OneHolder'
    BY <2>1, <1>a DEF TokenTypes, Issued, OneHolder, Holding
  <2>3. \A u \in Threads : AboutToExpire(token[u]) => AboutToExpire(token[u])'
    <3> TAKE u \in Threads
    <3> SUFFICES ASSUME AboutToExpire(token[u]) PROVE AboutToExpire(token[u])'
      OBVIOUS
    <3>1. token[u] \in 1 .. Issued /\ clock' \in Nat /\ clock' >= clock /\ token' = token
          /\ expires'[token[u]] = expires[token[u]]
      BY <2>1, <1>a DEF TokenTypes
    <3> DEFINE n == token[u]
    <3>2. n \in 1 .. Issued /\ AboutToExpire(n) /\ expires'[n] = expires[n]
      BY <3>1
    <3>3. (Margin + 1) * Minute \in Int
      BY TokenAssumption
    <3>4. expires[n] \in Nat
      BY <3>2, <1>a DEF TokenTypes, Issued
    <3> QED
      BY <2>1, <3>1, <3>2, <3>3, <3>4 DEF AboutToExpire
  <2> QED
    BY <2>1, <2>2, <2>3, <1>a DEF RenewsOldToken, Holding, Renewing
<1>10. ASSUME UNCHANGED tokenVars PROVE TokenInv'
  BY <1>10, <1>a DEF tokenVars, TokenTypes, Places, Issued, OneHolder, RenewsOldToken, Holding, Renewing, AboutToExpire
<1> QED
  BY <1>1, <1>2, <1>3, <1>4, <1>5, <1>6, <1>7, <1>8, <1>9, <1>10 DEF TokenNext, Interceptor

(* One thread at a time is between the mutex's Lock and Unlock, and whoever   *)
(* is about to authenticate holds the shared token, which is about to expire. *)
THEOREM OneHolderRenews == TokenSpec => [](OneHolder /\ RenewsOldToken)
<1>1. TokenInv => OneHolder /\ RenewsOldToken
  BY DEF TokenInv
<1> QED
  BY TokenInitially, TokenStep, <1>1, PTL DEF TokenSpec

(* A token is replaced only when it is about to expire: the threads that      *)
(* found the same token old authenticate once, however they interleave.       *)
THEOREM FreshTokenKeptHolds == TokenSpec => FreshTokenKept
<1>1. TokenInv /\ [TokenNext]_tokenVars => [shared' # shared => expires[shared] < clock + (Margin + 1) * Minute]_tokenVars
  <2> SUFFICES ASSUME TokenInv, TokenNext, shared' # shared
               PROVE  expires[shared] < clock + (Margin + 1) * Minute
    OBVIOUS
  <2>1. PICK t \in Threads : Authenticate(t)
    BY DEF TokenNext, Tick, Create, Interceptor, Check, CheckFails, Lock, Recheck, WaitIsOver, NoAgent,
           AgentFails, NoKey, KeyFails, CopyToken, Send
  <2>2. Renewing(t) /\ Holding(t)
    BY <2>1 DEF Authenticate, Renewing, Holding
  <2> QED
    BY <2>2 DEF TokenInv, RenewsOldToken, AboutToExpire
<1> QED
  BY TokenInitially, TokenStep, <1>1, PTL DEF TokenSpec, FreshTokenKept

-----------------------------------------------------------------------------
(* ContentWriter (WriterSpec): who waits for the channel and for the worker. *)

LEMMA AppendNonEmpty ==
    ASSUME NEW S, NEW s \in Seq(S), NEW e PROVE Append(s, e) # <<>>
<1>1. s \in Seq(S \cup {e})
  BY SeqMonotonic
<1> QED BY <1>1, AppendProperties

(* An error waits in the queue from the first failure to Close.               *)
ErrsInv ==
    /\ owner # "closed" => (errs = 0 <=> bad = {})
    /\ owner = "closed" /\ gotNil /\ ~empty => bad = {}

(* Who has come how far: a Write sends after the start only, the start leaves *)
(* a worker unless it failed, and Close comes after the last Write.           *)
OrderInv ==
    /\ \A w \in Writers : wpc[w] = "send" => started
    /\ \A w \in Writers : wpc[w] # "idle" => wrote[w] < Records
    /\ empty => ~started /\ \A w \in Writers : wpc[w] = "idle"
    /\ ~empty => started \/ \E w \in Writers : wpc[w] = "begin"
    /\ ~started => worker = "none" /\ sent = <<>> /\ chan = <<>>
    /\ started /\ worker = "none" => bad # {}
    /\ owner # "open" => WritersDone
    /\ closed => owner # "open"
    /\ owner = "closed" /\ ~empty => worker \in {"none", "gone"}

(* As long as nothing has failed, the file and then the channel hold what was *)
(* sent.                                                                      *)
HeldInv ==
    bad = {} =>
        /\ Len(file.items) + Len(chan) = Len(sent)
        /\ \A n \in 1 .. Len(file.items) :
             file.items[n] = Numbered(n, sent[n])
        /\ \A n \in 1 .. Len(chan) : chan[n] = sent[Len(file.items) + n]

(* As long as nothing has failed, the texts are those of the worker's place.  *)
TextInv ==
    bad = {} =>
        /\ ~file.torn
        /\ first <=> file.items = <<>>
        /\ worker \in {"none", "open"} => file.items = <<>>
        /\ worker \in {"range", "sync", "gone"} => file.opened
        /\ worker \in {"sync", "gone"} => file.ended /\ closed /\ chan = <<>>

WriterInv == WriterTypeOK /\ ErrsInv /\ OrderInv /\ HeldInv /\ TextInv

-----------------------------------------------------------------------------
(* Queueing one more error leaves the queue non-empty and within its bound.   *)
LEMMA AddedBounds ==
    ASSUME NEW n \in 0 .. Capacity
    PROVE  Added(n) \in 1 .. Capacity
BY CapacityAssumption DEF Added

(* A failure of a named operation is remembered in the queue.                 *)
LEMMA FailsRemembers ==
    ASSUME WriterTypeOK, NEW what \in AllFaults, Fails(what)
    PROVE  errs' \in 1 .. Capacity /\ bad' # {} /\ bad' \subseteq AllFaults
BY AddedBounds DEF Fails, WriterTypeOK

(* The empty sequences are sequences of their kind.                           *)
LEMMA EmptyTypes == <<>> \in Seq(Record) /\ <<>> \in Seq(Items)
OBVIOUS

(* The invariant holds before the first Write.                                *)
LEMMA WriterInitially == WriterInit => WriterInv
<1> SUFFICES ASSUME WriterInit PROVE WriterInv
  OBVIOUS
<1> USE DEF WriterInit
<1>1. WriterTypeOK
  <2>1. file \in Files
    BY EmptyTypes DEF Files
  <2>2. chan \in Seq(Record) /\ Len(chan) <= Capacity /\ sent \in Seq(Record)
    BY EmptyTypes, CapacityAssumption
  <2>3. wrote \in [Writers -> 0 .. Records] /\ errs \in 0 .. Capacity
    BY RecordsAssumption, CapacityAssumption
  <2> QED BY <2>1, <2>2, <2>3 DEF WriterTypeOK
<1>2. ErrsInv /\ OrderInv
  BY DEF ErrsInv, OrderInv
<1>3. HeldInv /\ TextInv
  BY DEF HeldInv, TextInv
<1> QED
  BY <1>1, <1>2, <1>3 DEF WriterInv

(* A file operation leaves a file.                                            *)
LEMMA FileTypes ==
    ASSUME WriterTypeOK
    PROVE  /\ [file EXCEPT !.torn = TRUE] \in Files
           /\ [file EXCEPT !.opened = TRUE] \in Files
           /\ [file EXCEPT !.ended = TRUE] \in Files
           /\ \A r \in Record :
                [file EXCEPT !.items = Append(@, [prefix |-> IF first THEN "" ELSE ",", record |-> r])]
                  \in Files
<1>1. file \in Files /\ first \in BOOLEAN
  BY DEF WriterTypeOK
<1>2. ASSUME NEW r \in Record
      PROVE  [file EXCEPT !.items = Append(@, [prefix |-> IF first THEN "" ELSE ",", record |-> r])] \in Files
  <2>1. [prefix |-> IF first THEN "" ELSE ",", record |-> r] \in Items
    BY <1>1 DEF Items
  <2> DEFINE item == [prefix |-> IF first THEN "" ELSE ",", record |-> r]
  <2>a. item \in Items
    BY <2>1
  <2> HIDE DEF item
  <2>2. Append(file.items, item) \in Seq(Items)
    BY <1>1, <2>a DEF Files
  <2>3. [file EXCEPT !.items = Append(@, item)] \in Files
    BY <1>1, <2>2 DEF Files
  <2> QED BY <2>3 DEF item
<1> QED BY <1>1, <1>2 DEF Files

(* Each outcome of a file operation keeps errs, bad and file in their types.  *)
LEMMA OutcomeTypes ==
    ASSUME WriterTypeOK, NEW what \in AllFaults
    PROVE  /\ Succeeds => errs' \in 0 .. Capacity /\ bad' \subseteq AllFaults
           /\ Fails(what) => errs' \in 0 .. Capacity /\ bad' \subseteq AllFaults
           /\ WriteFails(what) => /\ errs' \in 0 .. Capacity /\ bad' \subseteq AllFaults
                                  /\ file' \in Files
<1>1. Succeeds => errs' \in 0 .. Capacity /\ bad' \subseteq AllFaults
  BY DEF Succeeds, WriterTypeOK
<1>2. Fails(what) => errs' \in 0 .. Capacity /\ bad' \subseteq AllFaults
  <2> SUFFICES ASSUME Fails(what)
               PROVE  errs' \in 0 .. Capacity /\ bad' \subseteq AllFaults
    OBVIOUS
  <2>1. errs' \in 1 .. Capacity /\ bad' \subseteq AllFaults
    BY FailsRemembers
  <2> QED BY <2>1, CapacityAssumption
<1>3. WriteFails(what) => file' \in Files
  BY FileTypes DEF WriteFails, WriterTypeOK
<1> QED BY <1>1, <1>2, <1>3 DEF WriteFails

(* Every step keeps the variables in their types.                             *)
LEMMA NextTypeOK == WriterTypeOK /\ OrderInv /\ [WriterNext]_writerVars => WriterTypeOK'
<1> SUFFICES ASSUME WriterTypeOK, OrderInv, [WriterNext]_writerVars PROVE WriterTypeOK'
  OBVIOUS
<1>a. {"create", "open", "encode", "write", "end", "sync"} = AllFaults
  BY DEF AllFaults
<1>1. ASSUME NEW w \in Writers, Begin(w) PROVE WriterTypeOK'
  BY <1>1 DEF Begin, WriterTypeOK
<1>2. ASSUME NEW w \in Writers, Start(w) PROVE WriterTypeOK'
  <2>1. errs' \in 0 .. Capacity /\ bad' \subseteq AllFaults
    BY <1>2, <1>a, OutcomeTypes DEF Start, Succeeds
  <2> QED BY <1>2, <2>1 DEF Start, WriterTypeOK
<1>3. ASSUME NEW w \in Writers, SendRecord(w) PROVE WriterTypeOK'
  <2>1. wrote[w] + 1 \in 1 .. Records
    BY <1>3, RecordsAssumption DEF SendRecord, WriterTypeOK, OrderInv
  <2>2. wrote' \in [Writers -> 0 .. Records]
    BY <1>3, <2>1, RecordsAssumption DEF SendRecord, WriterTypeOK
  <2>3. <<w, wrote[w] + 1>> \in Record
    BY <2>1 DEF Record
  <2>4. chan' \in Seq(Record) /\ sent' \in Seq(Record) /\ Len(chan') <= Capacity
    BY <1>3, <2>3, CapacityAssumption DEF SendRecord, WriterTypeOK
  <2> QED BY <1>3, <2>2, <2>4 DEF SendRecord, WriterTypeOK
<1>4. CASE Open
  <2>1. errs' \in 0 .. Capacity /\ bad' \subseteq AllFaults /\ file' \in Files
    BY <1>4, <1>a, OutcomeTypes, FileTypes DEF Open
  <2> QED BY <1>4, <2>1 DEF Open, WriterTypeOK
<1>5. CASE Take
  <2>1. Head(chan) \in Record /\ chan' \in Seq(Record) /\ Len(chan') <= Capacity
    BY <1>5, CapacityAssumption DEF Take, WriterTypeOK
  <2>2. errs' \in 0 .. Capacity /\ bad' \subseteq AllFaults
    BY <1>5, <1>a, OutcomeTypes DEF Take
  <2>3. file' \in Files
    BY <1>5, <1>a, <2>1, OutcomeTypes, FileTypes DEF Take, AppendItem, WriterTypeOK
  <2>4. first' \in BOOLEAN
    BY <1>5 DEF Take, WriterTypeOK
  <2> QED BY <1>5, <2>1, <2>2, <2>3, <2>4 DEF Take, WriterTypeOK
<1>6. CASE End
  <2>1. errs' \in 0 .. Capacity /\ bad' \subseteq AllFaults /\ file' \in Files
    BY <1>6, <1>a, OutcomeTypes, FileTypes DEF End
  <2> QED BY <1>6, <2>1 DEF End, WriterTypeOK
<1>7. CASE SyncFile
  <2>1. errs' \in 0 .. Capacity /\ bad' \subseteq AllFaults
    BY <1>7, <1>a, OutcomeTypes DEF SyncFile
  <2> QED BY <1>7, <2>1 DEF SyncFile, WriterTypeOK
<1>8. CASE Close
  BY <1>8 DEF Close, WriterTypeOK
<1>9. CASE CloseReturns
  BY <1>9, CapacityAssumption DEF CloseReturns, WriterTypeOK
<1>10. CASE UNCHANGED writerVars
  BY <1>10 DEF writerVars, WriterTypeOK
<1> QED
  BY <1>1, <1>2, <1>3, <1>4, <1>5, <1>6, <1>7, <1>8, <1>9, <1>10
     DEF WriterNext, Writer, Worker, Owner

-----------------------------------------------------------------------------
(* What each outcome means for the remembered errors.                         *)
LEMMA OutcomeErrs ==
    ASSUME WriterTypeOK, ErrsInv, owner # "closed", NEW what \in AllFaults
    PROVE  /\ Succeeds => bad' = bad /\ (errs' = 0 <=> bad' = {})
           /\ Fails(what) => bad' # {} /\ (errs' = 0 <=> bad' = {})
<1>1. Succeeds => bad' = bad /\ (errs' = 0 <=> bad' = {})
  BY DEF Succeeds, ErrsInv
<1>2. ASSUME Fails(what) PROVE bad' # {} /\ errs' # 0
  BY <1>2, FailsRemembers
<1> QED BY <1>1, <1>2

(* The worker's steps come before Close returns.                              *)
LEMMA WorkersTurn ==
    ASSUME WriterTypeOK, OrderInv, Worker
    PROVE  owner # "closed"
<1>1. worker \in {"open", "range", "sync"}
  BY DEF Worker, Open, Take, End, SyncFile
<1>2. empty => worker = "none"
  BY DEF OrderInv
<1> QED BY <1>1, <1>2 DEF OrderInv, WriterTypeOK

(* Errors are remembered until Close.                                         *)
LEMMA NextErrsInv == WriterTypeOK /\ ErrsInv /\ OrderInv /\ [WriterNext]_writerVars => ErrsInv'
<1> SUFFICES ASSUME WriterTypeOK, ErrsInv, OrderInv, [WriterNext]_writerVars PROVE ErrsInv'
  OBVIOUS
<1>a. {"create", "open", "encode", "write", "end", "sync"} = AllFaults
  BY DEF AllFaults
<1>1. ASSUME NEW w \in Writers, Begin(w) \/ SendRecord(w) PROVE ErrsInv'
  <2>1. owner # "closed"
    BY <1>1, RecordsAssumption DEF OrderInv, WritersDone, Begin, SendRecord, WriterTypeOK
  <2> QED BY <1>1, <2>1 DEF Begin, SendRecord, ErrsInv
<1>2. ASSUME NEW w \in Writers, Start(w) PROVE ErrsInv'
  <2>1. owner # "closed" /\ owner' = owner
    BY <1>2 DEF OrderInv, WritersDone, Start, WriterTypeOK
  <2>2. errs' = 0 <=> bad' = {}
    BY <1>2, <1>a, <2>1, OutcomeErrs DEF Start, ErrsInv
  <2> QED BY <2>1, <2>2 DEF ErrsInv
<1>3. CASE Worker
  <2>1. owner # "closed" /\ owner' = owner
    BY <1>3, WorkersTurn DEF Worker, Open, Take, End, SyncFile
  <2>2. errs' = 0 <=> bad' = {}
    BY <1>3, <1>a, <2>1, OutcomeErrs DEF Worker, Open, Take, End, SyncFile, WriteFails
  <2> QED BY <2>1, <2>2 DEF ErrsInv
<1>4. CASE Close
  BY <1>4 DEF Close, ErrsInv
<1>5. CASE CloseReturns
  BY <1>5 DEF CloseReturns, ErrsInv
<1>6. CASE UNCHANGED writerVars
  BY <1>6 DEF writerVars, ErrsInv
<1> QED
  BY <1>1, <1>2, <1>3, <1>4, <1>5, <1>6 DEF WriterNext, Writer, Owner

(* The order of the steps is kept.                                            *)
LEMMA NextOrderInv == WriterTypeOK /\ OrderInv /\ [WriterNext]_writerVars => OrderInv'
<1> SUFFICES ASSUME WriterTypeOK, OrderInv, [WriterNext]_writerVars PROVE OrderInv'
  OBVIOUS
<1>a. {"create", "open", "encode", "write", "end", "sync"} = AllFaults
  BY DEF AllFaults
<1>1. ASSUME NEW w \in Writers, Begin(w) PROVE OrderInv'
  <2>1. owner = "open"
    BY <1>1, RecordsAssumption DEF OrderInv, WritersDone, Begin, WriterTypeOK
  <2> QED BY <1>1, <2>1 DEF Begin, WriterTypeOK, OrderInv
<1>2. ASSUME NEW w \in Writers, Start(w) PROVE OrderInv'
  <2>1. owner = "open"
    BY <1>2 DEF OrderInv, WritersDone, Start, WriterTypeOK
  <2>2. started' /\ ~empty
    BY <1>2 DEF OrderInv, Start, WriterTypeOK
  <2>3. worker' = "none" => bad' # {}
    <3>1. CASE started
      BY <1>2, <3>1 DEF Start, OrderInv, Succeeds, Fails
    <3>2. CASE ~started /\ worker' # "none"
      BY <3>2
    <3>3. CASE Fails("create")
      BY <3>3, <1>a, FailsRemembers
    <3> QED BY <1>2, <3>1, <3>2, <3>3 DEF Start
  <2>4. \A v \in Writers : wpc'[v] # "idle" => wrote'[v] < Records
    BY <1>2 DEF Start, WriterTypeOK, OrderInv
  <2> QED BY <1>2, <2>1, <2>2, <2>3, <2>4 DEF Start, OrderInv, WriterTypeOK
<1>3. ASSUME NEW w \in Writers, SendRecord(w) PROVE OrderInv'
  <2>1. owner = "open" /\ started /\ ~empty
    BY <1>3 DEF OrderInv, WritersDone, SendRecord, WriterTypeOK
  <2>2. \A v \in Writers : wpc'[v] # "idle" => wrote'[v] < Records
    BY <1>3 DEF SendRecord, WriterTypeOK, OrderInv
  <2>3. \A v \in Writers : wpc'[v] = "begin" <=> wpc[v] = "begin"
    BY <1>3 DEF SendRecord, WriterTypeOK
  <2> QED BY <1>3, <2>1, <2>2, <2>3 DEF SendRecord, OrderInv
<1>4. CASE Worker
  <2>1. owner # "closed" /\ started /\ started'
    BY <1>4, WorkersTurn DEF Worker, Open, Take, End, SyncFile, OrderInv
  <2>2. UNCHANGED <<wpc, wrote, empty, started, closed, owner, sent>>
    BY <1>4 DEF Worker, Open, Take, End, SyncFile
  <2>3. worker' # "none"
    BY <1>4 DEF Worker, Open, Take, End, SyncFile
  <2> QED BY <2>1, <2>2, <2>3 DEF OrderInv, WritersDone
<1>5. CASE Close
  BY <1>5 DEF Close, OrderInv, WritersDone
<1>6. CASE CloseReturns
  BY <1>6 DEF CloseReturns, OrderInv, WritersDone
<1>7. CASE UNCHANGED writerVars
  BY <1>7 DEF writerVars, OrderInv, WritersDone
<1> QED
  BY <1>1, <1>2, <1>3, <1>4, <1>5, <1>6, <1>7 DEF WriterNext, Writer, Owner

(* The file and the channel hold what was sent.                               *)
LEMMA NextHeldInv ==
    WriterTypeOK /\ WriterTypeOK' /\ HeldInv /\ TextInv /\ [WriterNext]_writerVars => HeldInv'
<1> SUFFICES ASSUME WriterTypeOK, WriterTypeOK', HeldInv, TextInv, [WriterNext]_writerVars, bad' = {}
             PROVE  HeldInv'
  BY DEF HeldInv
<1>a. bad = {}
  BY DEF WriterNext, Writer, Worker, Owner, Begin, Start, SendRecord, Open, Take, End, SyncFile,
         Close, CloseReturns, Succeeds, Fails, WriteFails, writerVars
<1>b. ASSUME UNCHANGED <<chan, sent>>, file'.items = file.items PROVE HeldInv'
  BY <1>a, <1>b DEF HeldInv
<1>c. file \in Files /\ file.items \in Seq(Items) /\ chan \in Seq(Record) /\ sent \in Seq(Record)
  BY DEF WriterTypeOK, Files
<1>1. ASSUME NEW w \in Writers, Begin(w) \/ Start(w) PROVE HeldInv'
  BY <1>1, <1>b DEF Begin, Start
<1>2. ASSUME NEW w \in Writers, SendRecord(w) PROVE HeldInv'
  <2> DEFINE r == <<w, wrote[w] + 1>>
  <2>1. chan' = Append(chan, r) /\ sent' = Append(sent, r) /\ file' = file
    BY <1>2 DEF SendRecord
  <2>2. Len(chan') = Len(chan) + 1 /\ Len(sent') = Len(sent) + 1
    BY <1>c, <2>1
  <2>3. /\ \A n \in 1 .. Len(chan) : chan'[n] = chan[n]
        /\ chan'[Len(chan) + 1] = r
        /\ \A n \in 1 .. Len(sent) : sent'[n] = sent[n]
        /\ sent'[Len(sent) + 1] = r
    BY <1>c, <2>1
  <2> HIDE DEF r
  <2> DEFINE a == Len(file.items)
             b == Len(chan)
  <2>4. a \in Nat /\ b \in Nat /\ a + b = Len(sent) /\ Len(chan) = b
    BY <1>a, <1>c DEF HeldInv
  <2>h. a = Len(file.items) /\ b = Len(chan)
    OBVIOUS
  <2> HIDE DEF a, b
  <2>5. a + Len(chan') = Len(sent')
    BY <2>2, <2>4
  <2>6. ASSUME NEW n \in 1 .. a PROVE file.items[n] = Numbered(n, sent'[n])
    <3>1. file.items[n] = Numbered(n, sent[n])
      BY <1>a, <2>h DEF HeldInv
    <3>2. n \in 1 .. Len(sent)
      BY <2>4
    <3> QED BY <3>1, <3>2, <2>3
  <2>7. ASSUME NEW n \in 1 .. b + 1 PROVE chan'[n] = sent'[a + n]
    <3>1. CASE n = b + 1
      <4>1. chan'[b + 1] = r /\ sent'[a + b + 1] = r
        BY <2>3, <2>4
      <4>2. a + b + 1 = a + n
        BY <2>4, <3>1
      <4> QED BY <3>1, <4>1, <4>2
    <3>2. CASE n \in 1 .. b
      <4>1. chan[n] = sent[a + n]
        BY <1>a, <2>h, <3>2 DEF HeldInv
      <4>2. a + n \in 1 .. Len(sent)
        BY <2>4, <3>2
      <4> QED BY <4>1, <4>2, <3>2, <2>3, <2>h
    <3> QED BY <3>1, <3>2, <2>4
  <2>8. Len(chan') = b + 1 /\ file'.items = file.items
    BY <2>1, <2>2, <2>4
  <2> QED BY <2>h, <2>5, <2>6, <2>7, <2>8 DEF HeldInv
<1>3. CASE Take
  <2>1. chan # <<>> /\ chan' = Tail(chan) /\ sent' = sent /\ AppendItem(Head(chan))
    BY <1>3, <1>a DEF Take, Fails, WriteFails
  <2>2. file'.items = Append(file.items, [prefix |-> IF first THEN "" ELSE ",", record |-> Head(chan)])
    BY <1>c, <2>1 DEF AppendItem, Files
  <2>3. Head(chan) = chan[1] /\ Len(chan') = Len(chan) - 1 /\ Len(chan) > 0
    BY <1>c, <2>1
  <2>4. \A n \in 1 .. Len(chan') : chan'[n] = chan[n + 1]
    BY <1>c, <2>1
  <2>5. /\ Len(file'.items) = Len(file.items) + 1
        /\ \A n \in 1 .. Len(file.items) : file'.items[n] = file.items[n]
        /\ file'.items[Len(file.items) + 1] = [prefix |-> IF first THEN "" ELSE ",", record |-> Head(chan)]
    <3> DEFINE item == [prefix |-> IF first THEN "" ELSE ",", record |-> Head(chan)]
    <3>a. Head(chan) \in Record
      BY <1>c, <2>1
    <3>1. item \in Items
      BY <3>a DEF Items
    <3> HIDE DEF item
    <3>2. file'.items = Append(file.items, item)
      BY <2>2 DEF item
    <3>3. /\ Len(file'.items) = Len(file.items) + 1
          /\ \A n \in 1 .. Len(file.items) : file'.items[n] = file.items[n]
          /\ file'.items[Len(file.items) + 1] = item
      BY <1>c, <3>1, <3>2
    <3> QED BY <3>3 DEF item
  <2>6. ~first <=> Len(file.items) + 1 > 1
    BY <1>a, <1>c DEF TextInv
  <2> DEFINE a == Len(file.items)
             b == Len(chan)
  <2>8. a \in Nat /\ b \in Nat /\ b > 0 /\ a + b = Len(sent)
    BY <1>a, <1>c, <2>3 DEF HeldInv
  <2>h. a = Len(file.items) /\ b = Len(chan)
    OBVIOUS
  <2> HIDE DEF a, b
  <2>9. Head(chan) = sent[a + 1]
    <3>1. \A n \in 1 .. b : chan[n] = sent[a + n]
      BY <1>a, <2>h DEF HeldInv
    <3> QED BY <2>3, <2>8, <3>1
  <2>10. ASSUME NEW n \in 1 .. a + 1
         PROVE  file'.items[n] = Numbered(n, sent[n])
    <3>1. CASE n \in 1 .. a
      BY <1>a, <2>h, <2>5, <3>1 DEF HeldInv
    <3>2. CASE n = a + 1
      <4>1. file'.items[a + 1] = [prefix |-> IF first THEN "" ELSE ",", record |-> Head(chan)]
        BY <2>h, <2>5
      <4>2. first <=> n = 1
        BY <2>h, <2>6, <2>8, <3>2
      <4> QED BY <4>1, <4>2, <2>9, <3>2 DEF Numbered
    <3> QED BY <3>1, <3>2, <2>8
  <2>11. ASSUME NEW n \in 1 .. b - 1 PROVE chan'[n] = sent[a + 1 + n]
    <3>1. chan'[n] = chan[n + 1] /\ n + 1 \in 1 .. b
      BY <2>h, <2>3, <2>4, <2>8
    <3>2. chan[n + 1] = sent[a + (n + 1)]
      BY <1>a, <2>h, <3>1 DEF HeldInv
    <3>3. a + (n + 1) = a + 1 + n
      BY <2>8
    <3> QED BY <3>1, <3>2, <3>3
  <2>12. Len(file'.items) = a + 1 /\ Len(chan') = b - 1
    BY <2>h, <2>3, <2>5
  <2>13. (a + 1) + (b - 1) = Len(sent')
    BY <2>1, <2>8
  <2> QED BY <2>h, <2>1, <2>8, <2>10, <2>11, <2>12, <2>13 DEF HeldInv
<1>4. CASE Open \/ End \/ SyncFile
  <2>1. UNCHANGED <<chan, sent>>
    BY <1>4 DEF Open, End, SyncFile
  <2>2. file'.items = file.items
    BY <1>4, <1>c DEF Open, End, SyncFile, WriteFails, Files
  <2> QED BY <2>1, <2>2, <1>b
<1>5. CASE Close \/ CloseReturns
  BY <1>5, <1>b DEF Close, CloseReturns
<1>6. CASE UNCHANGED writerVars
  BY <1>6, <1>b DEF writerVars
<1> QED
  BY <1>1, <1>2, <1>3, <1>4, <1>5, <1>6 DEF WriterNext, Writer, Worker, Owner

(* The texts follow the worker.                                               *)
LEMMA NextTextInv ==
    WriterTypeOK /\ WriterTypeOK' /\ OrderInv /\ TextInv /\ [WriterNext]_writerVars => TextInv'
<1> SUFFICES ASSUME WriterTypeOK, WriterTypeOK', OrderInv, TextInv, [WriterNext]_writerVars, bad' = {}
             PROVE  TextInv'
  BY DEF TextInv
<1>a. bad = {}
  BY DEF WriterNext, Writer, Worker, Owner, Begin, Start, SendRecord, Open, Take, End, SyncFile,
         Close, CloseReturns, Succeeds, Fails, WriteFails, writerVars
<1>c. file \in Files /\ file.items \in Seq(Items) /\ chan \in Seq(Record)
  BY DEF WriterTypeOK, Files
<1>1. ASSUME NEW w \in Writers, Begin(w) \/ Start(w) PROVE TextInv'
  BY <1>1, <1>a DEF Begin, Start, TextInv, OrderInv
<1>2. ASSUME NEW w \in Writers, SendRecord(w) PROVE TextInv'
  <2>1. ~closed
    BY <1>2 DEF SendRecord, OrderInv, WritersDone, WriterTypeOK
  <2> QED BY <1>2, <1>a, <2>1 DEF SendRecord, TextInv
<1>3. CASE Take
  <2>1. AppendItem(Head(chan)) /\ first' = FALSE /\ UNCHANGED worker
    BY <1>3, <1>a DEF Take, Fails, WriteFails
  <2> DEFINE item == [prefix |-> IF first THEN "" ELSE ",", record |-> Head(chan)]
  <2>2. /\ file'.items = Append(file.items, item) /\ file'.torn = file.torn
        /\ file'.opened = file.opened
    BY <1>c, <2>1 DEF AppendItem, Files
  <2> HIDE DEF item
  <2>3. file'.items # <<>>
    <3>1. Append(file.items, item) # <<>>
      BY <1>c, AppendNonEmpty
    <3> QED BY <2>2, <3>1
  <2> QED BY <1>3, <1>a, <2>1, <2>2, <2>3 DEF Take, TextInv
<1>4. CASE Open
  <2>1. worker' = "range" /\ file' = [file EXCEPT !.opened = TRUE]
    BY <1>4, <1>a DEF Open, Fails, WriteFails
  <2>2. file'.opened /\ file'.torn = file.torn /\ file'.items = file.items
    BY <1>c, <2>1 DEF Files
  <2> QED BY <1>4, <1>a, <2>1, <2>2 DEF Open, TextInv
<1>5. CASE End
  <2>1. file' = [file EXCEPT !.ended = TRUE]
    BY <1>5, <1>a DEF End, Fails, WriteFails
  <2>2. file'.ended /\ file'.torn = file.torn /\ file'.items = file.items
        /\ file'.opened = file.opened
    BY <1>c, <2>1 DEF Files
  <2> QED BY <1>5, <1>a, <2>2 DEF End, TextInv
<1>6. CASE SyncFile
  BY <1>6, <1>a DEF SyncFile, TextInv
<1>7. CASE Close \/ CloseReturns
  BY <1>7, <1>a DEF Close, CloseReturns, TextInv
<1>8. CASE UNCHANGED writerVars
  BY <1>8, <1>a DEF writerVars, TextInv
<1> QED
  BY <1>1, <1>2, <1>3, <1>4, <1>5, <1>6, <1>7, <1>8 DEF WriterNext, Writer, Worker, Owner

(* The invariant is one of every behaviour.                                   *)
LEMMA WriterInvHolds == WriterSpec => []WriterInv
<1>1. WriterInv /\ [WriterNext]_writerVars => WriterInv'
  BY NextTypeOK, NextErrsInv, NextOrderInv, NextHeldInv, NextTextInv DEF WriterInv
<1> QED BY <1>1, WriterInitially, PTL DEF WriterSpec

-----------------------------------------------------------------------------
(* The variables stay in their types; the channel and the errors queue within *)
(* their capacity.                                                            *)
THEOREM WriterTypeCorrect == WriterSpec => []WriterTypeOK
<1>1. WriterInv => WriterTypeOK BY DEF WriterInv
<1> QED BY <1>1, WriterInvHolds, PTL

(* For any writers, records, capacity and faults: when Close answers nil, the *)
(* file is complete and holds every record, in the order of the sends.        *)
THEOREM NilMeansCompleteHolds == WriterSpec => []NilMeansComplete
<1>1. WriterInv => NilMeansComplete
  <2> SUFFICES ASSUME WriterInv, owner = "closed", gotNil, ~empty
               PROVE  worker = "gone" /\ file.opened /\ file.ended /\ ~file.torn
                      /\ file.items = Whole(sent)
    BY DEF NilMeansComplete
  <2>1. bad = {} /\ WritersDone
    BY DEF WriterInv, ErrsInv, OrderInv
  <2>2. worker = "gone"
    BY <2>1 DEF WriterInv, OrderInv, WritersDone
  <2>3. file.opened /\ file.ended /\ ~file.torn /\ chan = <<>>
    BY <2>1, <2>2 DEF WriterInv, TextInv
  <2>4. file.items \in Seq(Items) /\ sent \in Seq(Record)
    BY DEF WriterInv, WriterTypeOK, Files
  <2>5. Len(file.items) = Len(sent)
    BY <2>1, <2>3, <2>4 DEF WriterInv, HeldInv
  <2>6. \A n \in 1 .. Len(sent) : file.items[n] = Numbered(n, sent[n])
    BY <2>1, <2>5 DEF WriterInv, HeldInv
  <2>7. file.items = Whole(sent)
    <3>1. file.items \in [1 .. Len(sent) -> Items]
      BY <2>4, <2>5, LenProperties
    <3>2. file.items = [n \in 1 .. Len(sent) |-> file.items[n]]
      BY <3>1
    <3>3. [n \in 1 .. Len(sent) |-> file.items[n]] = [n \in 1 .. Len(sent) |-> Numbered(n, sent[n])]
      BY <2>6
    <3> QED BY <3>2, <3>3 DEF Whole
  <2> QED BY <2>2, <2>3, <2>7
<1> QED BY <1>1, WriterInvHolds, PTL

(* Once Close has returned, the file is not written any more.                 *)
THEOREM ClosedIsFinalHolds == WriterSpec => ClosedIsFinal
<1>1. WriterInv /\ [WriterNext]_writerVars => (owner = "closed" => file' = file)
  <2> SUFFICES ASSUME WriterInv, [WriterNext]_writerVars, owner = "closed" PROVE file' = file
    OBVIOUS
  <2>1. ~Worker
    BY WorkersTurn DEF WriterInv
  <2> QED BY <2>1 DEF WriterNext, Writer, Owner, Begin, Start, SendRecord, Close, CloseReturns, writerVars
<1> QED BY <1>1, WriterInvHolds, PTL DEF WriterSpec, ClosedIsFinal

-----------------------------------------------------------------------------
(* The items of the file and then the content s of the channel: each record   *)
(* is one that its goroutine has sent, and those of one goroutine are in the  *)
(* order of its Writes.                                                       *)
Precedes(r, s) == r[1] = s[1] => r[2] < s[2]

InOrder(items, s, sentBy) ==
    /\ \A n \in 1 .. Len(items) : items[n].record[2] <= sentBy[items[n].record[1]]
    /\ \A n \in 1 .. Len(s) : s[n][2] <= sentBy[s[n][1]]
    /\ \A m, n \in 1 .. Len(items) : m < n => Precedes(items[m].record, items[n].record)
    /\ \A m, n \in 1 .. Len(s) : m < n => Precedes(s[m], s[n])
    /\ \A m \in 1 .. Len(items), n \in 1 .. Len(s) : Precedes(items[m].record, s[n])

(* While nothing but encoding (and the Sync at the end) has failed, the texts *)
(* are those of the worker's place and only the first item lacks a comma.     *)
Harmless == bad \subseteq {"encode", "sync"}

SkipInv ==
    Harmless =>
        /\ ~file.torn
        /\ first <=> file.items = <<>>
        /\ \A n \in 1 .. Len(file.items) : file.items[n].prefix = IF n = 1 THEN "" ELSE ","
        /\ worker \in {"range", "sync", "gone"} => file.opened
        /\ worker \in {"sync", "gone"} => file.ended

(* What one round of the range does to the channel and to the items.          *)
LEMMA TakeCases ==
    ASSUME WriterTypeOK, Take
    PROVE  /\ chan \in Seq(Record) /\ chan # <<>> /\ file.items \in Seq(Items)
           /\ Len(chan') = Len(chan) - 1 /\ \A n \in 1 .. Len(chan') : chan'[n] = chan[n + 1]
           /\ wrote' = wrote /\ worker' = worker
           /\ \/ /\ file'.items = file.items /\ first' = first
                 /\ \/ "write" \in bad'
                    \/ file' = file
              \/ /\ first' = FALSE /\ bad' = bad
                 /\ file'.opened = file.opened /\ file'.ended = file.ended /\ file'.torn = file.torn
                 /\ file'.items # <<>> /\ Len(file'.items) = Len(file.items) + 1
                 /\ \A n \in 1 .. Len(file.items) : file'.items[n] = file.items[n]
                 /\ file'.items[Len(file.items) + 1].prefix = (IF first THEN "" ELSE ",")
                 /\ file'.items[Len(file.items) + 1].record = chan[1]
<1> DEFINE item == [prefix |-> IF first THEN "" ELSE ",", record |-> Head(chan)]
<1>1. /\ file \in Files /\ file.items \in Seq(Items) /\ chan \in Seq(Record) /\ chan # <<>>
      /\ chan' = Tail(chan) /\ wrote' = wrote /\ worker' = worker
  BY DEF WriterTypeOK, Files, Take
<1>2. /\ Len(chan') = Len(chan) - 1 /\ Head(chan) = chan[1] /\ Head(chan) \in Record
      /\ \A n \in 1 .. Len(chan') : chan'[n] = chan[n + 1]
  BY <1>1
<1>3. item \in Items
  BY <1>2 DEF Items
<1>4. CASE UNCHANGED <<file, first>>
  BY <1>1, <1>2, <1>4
<1>5. CASE UNCHANGED first /\ WriteFails("write")
  <2>1. file'.items = file.items /\ "write" \in bad'
    BY <1>1, <1>5 DEF WriteFails, Fails, Files
  <2> QED BY <1>1, <1>2, <1>5, <2>1
<1>6. CASE first' = FALSE /\ AppendItem(Head(chan)) /\ Succeeds
  <2>1. file' = [file EXCEPT !.items = Append(@, item)] /\ bad' = bad
    BY <1>6 DEF AppendItem, Succeeds
  <2> HIDE DEF item
  <2>2. /\ file'.opened = file.opened /\ file'.ended = file.ended /\ file'.torn = file.torn
        /\ file'.items = Append(file.items, item)
    BY <1>1, <2>1 DEF Files
  <2>3. /\ Len(Append(file.items, item)) = Len(file.items) + 1
        /\ \A n \in 1 .. Len(file.items) : Append(file.items, item)[n] = file.items[n]
        /\ Append(file.items, item)[Len(file.items) + 1] = item
    BY <1>1, <1>3, AppendProperties
  <2>4. Append(file.items, item) # <<>>
    BY <1>1, AppendNonEmpty
  <2>5. item.prefix = (IF first THEN "" ELSE ",") /\ item.record = chan[1]
    BY <1>2 DEF item
  <2> QED BY <1>1, <1>2, <1>6, <2>1, <2>2, <2>3, <2>4, <2>5
<1> QED BY <1>4, <1>5, <1>6 DEF Take

Counts == [Writers -> 0 .. Records]

LEMMA RecordFacts ==
    ASSUME NEW items \in Seq(Items), NEW s \in Seq(Record), NEW sentBy \in Counts
    PROVE  /\ \A n \in 1 .. Len(s) : s[n] \in Record
           /\ \A n \in 1 .. Len(items) : items[n].record \in Record
           /\ Len(s) \in Nat /\ Len(items) \in Nat
           /\ \A r \in Record : r[1] \in Writers /\ r[2] \in Nat /\ sentBy[r[1]] \in Nat
<1>1. \A n \in 1 .. Len(items) : items[n].record \in Record
  <2>1. \A n \in 1 .. Len(items) : items[n] \in Items
    OBVIOUS
  <2> QED BY <2>1 DEF Items
<1>2. \A r \in Record : r[1] \in Writers /\ r[2] \in Nat /\ sentBy[r[1]] \in Nat
  BY RecordsAssumption DEF Counts, Record
<1> QED BY <1>1, <1>2

(* One record more is sent.                                                   *)
LEMMA SentInOrder ==
    ASSUME NEW items \in Seq(Items), NEW s \in Seq(Record), NEW sentBy \in Counts,
           InOrder(items, s, sentBy), NEW w \in Writers, NEW r, r[1] = w, r[2] = sentBy[w] + 1,
           NEW s2, NEW sentBy2, sentBy2 = [sentBy EXCEPT ![w] = @ + 1],
           Len(s2) = Len(s) + 1, s2[Len(s) + 1] = r, \A n \in 1 .. Len(s) : s2[n] = s[n]
    PROVE  InOrder(items, s2, sentBy2)
<1> DEFINE k == Len(s)
           a == Len(items)
<1>1. k \in Nat /\ a \in Nat
  BY RecordFacts
<1>2. \A n \in 1 .. k + 1 : n \in 1 .. k \/ n = k + 1
  BY <1>1
<1>3. sentBy2[w] = sentBy[w] + 1 /\ \A v \in Writers \ {w} : sentBy2[v] = sentBy[v]
  BY DEF Counts
<1>4. ASSUME NEW q \in Record, q[2] <= sentBy[q[1]] PROVE q[2] <= sentBy2[q[1]] /\ Precedes(q, r)
  <2>1. q[1] \in Writers /\ q[2] \in Nat /\ sentBy[q[1]] \in Nat
    BY RecordFacts
  <2>2. CASE q[1] = w
    BY <1>3, <1>4, <2>1, <2>2 DEF Precedes
  <2>3. CASE q[1] # w
    BY <1>3, <1>4, <2>1, <2>3 DEF Precedes
  <2> QED BY <2>2, <2>3
<1>5. ASSUME NEW n \in 1 .. k PROVE s[n] \in Record /\ s[n][2] <= sentBy[s[n][1]] /\ s2[n] = s[n]
  BY RecordFacts DEF InOrder
<1>6. ASSUME NEW n \in 1 .. a PROVE items[n].record \in Record /\ items[n].record[2] <= sentBy[items[n].record[1]]
  BY RecordFacts DEF InOrder
<1>7. r[2] <= sentBy2[r[1]]
  <2>1. sentBy[w] \in Nat
    BY RecordsAssumption DEF Counts
  <2> QED BY <1>3, <2>1
<1>8. Len(s2) = k + 1 /\ s2[k + 1] = r
  OBVIOUS
<1>9. /\ \A m, n \in 1 .. a : m < n => Precedes(items[m].record, items[n].record)
      /\ \A m, n \in 1 .. k : m < n => Precedes(s[m], s[n])
      /\ \A m \in 1 .. a, n \in 1 .. k : Precedes(items[m].record, s[n])
  BY DEF InOrder
<1>10. a = Len(items)
  OBVIOUS
<1> HIDE DEF k, a
<1>11. ASSUME NEW m \in 1 .. k + 1, NEW n \in 1 .. k + 1, m < n PROVE Precedes(s2[m], s2[n])
  <2>1. m \in 1 .. k
    BY <1>1, <1>11
  <2>2. CASE n \in 1 .. k
    BY <1>5, <1>9, <1>11, <2>1, <2>2
  <2>3. CASE n = k + 1
    BY <1>4, <1>5, <1>8, <2>1, <2>3
  <2> QED BY <1>2, <2>2, <2>3
<1>12. ASSUME NEW m \in 1 .. a, NEW n \in 1 .. k + 1 PROVE Precedes(items[m].record, s2[n])
  BY <1>2, <1>4, <1>5, <1>6, <1>8, <1>9
<1>13. \A n \in 1 .. a : items[n].record[2] <= sentBy2[items[n].record[1]]
  BY <1>4, <1>6
<1>14. \A n \in 1 .. k + 1 : s2[n][2] <= sentBy2[s2[n][1]]
  BY <1>2, <1>4, <1>5, <1>7, <1>8
<1> QED BY <1>8, <1>9, <1>10, <1>11, <1>12, <1>13, <1>14 DEF InOrder

(* The first record of the channel is taken out and dropped, or becomes the   *)
(* last of the items.                                                         *)
LEMMA TakenInOrder ==
    ASSUME NEW items \in Seq(Items), NEW s \in Seq(Record), NEW sentBy \in Counts,
           InOrder(items, s, sentBy), NEW s2,
           Len(s) > 0, Len(s2) = Len(s) - 1, \A n \in 1 .. Len(s2) : s2[n] = s[n + 1],
           NEW items2,
           \/ items2 = items
           \/ /\ Len(items2) = Len(items) + 1
              /\ \A n \in 1 .. Len(items) : items2[n] = items[n]
              /\ items2[Len(items) + 1].record = s[1]
    PROVE  InOrder(items2, s2, sentBy)
<1> DEFINE k == Len(s2)
           a == Len(items)
<1>1. k \in Nat /\ a \in Nat /\ 1 \in 1 .. Len(s) /\ \A n \in 1 .. k : n + 1 \in 1 .. Len(s) /\ 1 < n + 1
  BY RecordFacts
<1>2. /\ \A n \in 1 .. a : items[n].record[2] <= sentBy[items[n].record[1]]
      /\ \A m, n \in 1 .. a : m < n => Precedes(items[m].record, items[n].record)
      /\ \A n \in 1 .. Len(s) : s[n][2] <= sentBy[s[n][1]]
      /\ \A m, n \in 1 .. Len(s) : m < n => Precedes(s[m], s[n])
      /\ \A m \in 1 .. a, n \in 1 .. Len(s) : Precedes(items[m].record, s[n])
  BY DEF InOrder
<1>3. a = Len(items) /\ k = Len(s2) /\ \A n \in 1 .. k : s2[n] = s[n + 1]
  OBVIOUS
<1> HIDE DEF k, a
<1>4. \A n \in 1 .. k : s2[n][2] <= sentBy[s2[n][1]]
  BY <1>1, <1>2, <1>3
<1>5. ASSUME NEW m \in 1 .. k, NEW n \in 1 .. k, m < n PROVE Precedes(s2[m], s2[n])
  <2>1. m + 1 < n + 1
    BY <1>1, <1>5
  <2> QED BY <1>1, <1>2, <1>3, <2>1
<1>6. \A m \in 1 .. a, n \in 1 .. k : Precedes(items[m].record, s2[n])
  BY <1>1, <1>2, <1>3
<1>7. CASE items2 = items
  BY <1>2, <1>3, <1>4, <1>5, <1>6, <1>7 DEF InOrder
<1>8. CASE /\ Len(items2) = a + 1 /\ \A n \in 1 .. a : items2[n] = items[n]
           /\ items2[a + 1].record = s[1]
  <2>1. \A n \in 1 .. a + 1 : n \in 1 .. a \/ n = a + 1
    BY <1>1
  <2>2. \A n \in 1 .. a + 1 : items2[n].record[2] <= sentBy[items2[n].record[1]]
    BY <1>1, <1>2, <1>8, <2>1
  <2>3. ASSUME NEW m \in 1 .. a + 1, NEW n \in 1 .. a + 1, m < n
        PROVE  Precedes(items2[m].record, items2[n].record)
    <3>1. m \in 1 .. a
      BY <1>1, <2>3
    <3> QED BY <1>1, <1>2, <1>8, <2>1, <2>3, <3>1
  <2>4. ASSUME NEW m \in 1 .. a + 1, NEW n \in 1 .. k PROVE Precedes(items2[m].record, s2[n])
    <3>1. CASE m \in 1 .. a
      BY <1>6, <1>8, <3>1
    <3>2. CASE m = a + 1
      BY <1>1, <1>2, <1>3, <1>8, <3>2
    <3> QED BY <2>1, <3>1, <3>2
  <2> QED BY <1>3, <1>4, <1>5, <1>8, <2>2, <2>3, <2>4 DEF InOrder
<1> QED BY <1>3, <1>7, <1>8

RecordsInOrder == InOrder(file.items, chan, wrote)

LEMMA NextInOrder == WriterTypeOK /\ RecordsInOrder /\ [WriterNext]_writerVars => RecordsInOrder'
<1> SUFFICES ASSUME WriterTypeOK, RecordsInOrder, [WriterNext]_writerVars PROVE RecordsInOrder'
  OBVIOUS
<1>1. file \in Files /\ file.items \in Seq(Items) /\ chan \in Seq(Record) /\ wrote \in Counts
  BY DEF WriterTypeOK, Files, Counts
<1>2. ASSUME UNCHANGED <<chan, wrote>>, file'.items = file.items PROVE RecordsInOrder'
  BY <1>2 DEF RecordsInOrder
<1>3. ASSUME NEW w \in Writers, SendRecord(w) PROVE RecordsInOrder'
  <2> DEFINE r == <<w, wrote[w] + 1>>
  <2>1. /\ file' = file /\ wrote' = [wrote EXCEPT ![w] = @ + 1] /\ chan' = Append(chan, r)
        /\ r[1] = w /\ r[2] = wrote[w] + 1
    BY <1>3 DEF SendRecord
  <2> HIDE DEF r
  <2>2. /\ Len(chan') = Len(chan) + 1 /\ chan'[Len(chan) + 1] = r
        /\ \A n \in 1 .. Len(chan) : chan'[n] = chan[n]
    BY <1>1, <2>1, AppendProperties
  <2>3. /\ file.items \in Seq(Items) /\ chan \in Seq(Record) /\ wrote \in Counts
        /\ InOrder(file.items, chan, wrote)
    BY <1>1 DEF RecordsInOrder
  <2>4. wrote' = [wrote EXCEPT ![w] = @ + 1] /\ r[1] = w /\ r[2] = wrote[w] + 1
    BY <2>1
  <2>5. InOrder(file.items, chan', wrote')
    BY ONLY <2>2, <2>3, <2>4, w \in Writers, SentInOrder
  <2> QED BY <2>1, <2>5 DEF RecordsInOrder
<1>4. CASE Take
  <2>1. Len(chan) > 0
    <3>1. chan # <<>>
      BY <1>4 DEF Take
    <3> QED BY <1>1, <3>1
  <2>2. InOrder(file'.items, chan', wrote)
    <3>1. CASE file'.items = file.items
      BY <1>1, <1>4, <2>1, <3>1, TakeCases, TakenInOrder DEF RecordsInOrder
    <3>2. CASE /\ Len(file'.items) = Len(file.items) + 1
               /\ \A n \in 1 .. Len(file.items) : file'.items[n] = file.items[n]
               /\ file'.items[Len(file.items) + 1].record = chan[1]
      BY <1>1, <1>4, <2>1, <3>2, TakeCases, TakenInOrder DEF RecordsInOrder
    <3> QED BY <1>4, <3>1, <3>2, TakeCases
  <2> QED BY <1>4, <2>2 DEF Take, RecordsInOrder
<1>5. CASE Open \/ End \/ SyncFile
  <2>1. UNCHANGED <<chan, wrote>>
    BY <1>5 DEF Open, End, SyncFile
  <2>2. file'.items = file.items
    BY <1>1, <1>5 DEF Open, End, SyncFile, WriteFails, Files
  <2> QED BY <1>2, <2>1, <2>2
<1>6. CASE Close \/ CloseReturns \/ UNCHANGED writerVars \/ \E w \in Writers : Begin(w) \/ Start(w)
  <2>1. UNCHANGED <<chan, wrote, file>>
    BY <1>6 DEF Close, CloseReturns, writerVars, Begin, Start
  <2> QED BY <1>2, <2>1
<1> QED BY <1>3, <1>4, <1>5, <1>6 DEF WriterNext, Writer, Worker, Owner

LEMMA NextSkipInv == WriterTypeOK /\ WriterTypeOK' /\ SkipInv /\ [WriterNext]_writerVars => SkipInv'
<1> SUFFICES ASSUME WriterTypeOK, WriterTypeOK', SkipInv, [WriterNext]_writerVars, Harmless' PROVE SkipInv'
  BY DEF SkipInv
<1>1. bad \subseteq bad' /\ Harmless
  BY DEF Harmless, WriterNext, Writer, Worker, Owner, Begin, Start, SendRecord, Open, Take, End, SyncFile,
         Close, CloseReturns, Succeeds, Fails, WriteFails, writerVars
<1>2. "open" \notin bad' /\ "write" \notin bad' /\ "end" \notin bad'
  BY DEF Harmless
<1>3. file \in Files
  BY DEF WriterTypeOK
<1>4. CASE Take
  <2> DEFINE k == Len(file.items)
  <2>1. CASE file' = file /\ first' = first
    BY <1>1, <1>4, <2>1, TakeCases DEF SkipInv
  <2>2. CASE /\ first' = FALSE
             /\ file'.opened = file.opened /\ file'.ended = file.ended /\ file'.torn = file.torn
             /\ file'.items # <<>> /\ Len(file'.items) = k + 1
             /\ \A n \in 1 .. k : file'.items[n] = file.items[n]
             /\ file'.items[k + 1].prefix = (IF first THEN "" ELSE ",")
    <3>1. k \in Nat /\ (file.items = <<>> <=> k = 0)
      <4>1. file.items \in Seq(Items)
        BY <1>4, TakeCases
      <4> QED BY <4>1
    <3>2. \A n \in 1 .. k + 1 : n \in 1 .. k \/ n = k + 1
      BY <3>1
    <3>3. first <=> k + 1 = 1
      <4>1. first <=> k = 0
        BY <1>1, <3>1 DEF SkipInv
      <4> QED BY <3>1, <4>1
    <3> HIDE DEF k
    <3>4. \A n \in 1 .. k : file'.items[n].prefix = IF n = 1 THEN "" ELSE ","
      BY <1>1, <2>2 DEF SkipInv, k
    <3>5. \A n \in 1 .. k + 1 : file'.items[n].prefix = IF n = 1 THEN "" ELSE ","
      BY <2>2, <3>2, <3>3, <3>4
    <3>6. worker' = worker
      BY <1>4, TakeCases
    <3> QED BY <1>1, <2>2, <3>5, <3>6 DEF SkipInv
  <2> QED BY <1>2, <1>4, <2>1, <2>2, TakeCases
<1>5. CASE Open
  <2>1. worker' = "range" /\ file' = [file EXCEPT !.opened = TRUE] /\ first' = first
    BY <1>2, <1>5 DEF Open, Fails, WriteFails
  <2>2. file'.opened /\ file'.torn = file.torn /\ file'.items = file.items
    BY <1>3, <2>1 DEF Files
  <2> QED BY <1>1, <2>1, <2>2 DEF SkipInv
<1>6. CASE End
  <2>1. file' = [file EXCEPT !.ended = TRUE] /\ first' = first /\ worker = "range"
    BY <1>2, <1>6 DEF End, Fails, WriteFails
  <2>2. file'.ended /\ file'.torn = file.torn /\ file'.items = file.items /\ file'.opened = file.opened
    BY <1>3, <2>1 DEF Files
  <2> QED BY <1>1, <2>1, <2>2 DEF SkipInv
<1>7. CASE SyncFile
  BY <1>1, <1>7 DEF SyncFile, SkipInv
<1>8. CASE Close \/ CloseReturns \/ UNCHANGED writerVars
  BY <1>1, <1>8 DEF Close, CloseReturns, writerVars, SkipInv
<1>9. ASSUME NEW w \in Writers, Begin(w) \/ Start(w) \/ SendRecord(w) PROVE SkipInv'
  BY <1>1, <1>9 DEF Begin, Start, SendRecord, SkipInv
<1> QED BY <1>4, <1>5, <1>6, <1>7, <1>8, <1>9 DEF WriterNext, Writer, Worker, Owner

(* Whatever number of records could not be encoded, between whatever others,  *)
(* the file is a JSON array with each goroutine's records in order.           *)
THEOREM SkippingKeepsJsonHolds == WriterSpec => []SkippingKeepsJson
<1>1. WriterInit => RecordsInOrder /\ SkipInv
  BY DEF WriterInit, RecordsInOrder, InOrder, SkipInv
<1>2. WriterInv => WriterTypeOK
  BY DEF WriterInv
<1>3. WriterTypeOK /\ RecordsInOrder /\ SkipInv => SkippingKeepsJson
  <2> SUFFICES ASSUME WriterTypeOK, RecordsInOrder, SkipInv PROVE SkippingKeepsJson
    OBVIOUS
  <2>1. DOMAIN file.items = 1 .. Len(file.items)
    BY DEF WriterTypeOK, Files
  <2> QED BY <2>1 DEF SkippingKeepsJson, RecordsInOrder, InOrder, SkipInv, Precedes, Harmless
<1> QED BY <1>1, <1>2, <1>3, WriterInvHolds, NextInOrder, NextSkipInv, PTL DEF WriterSpec
=============================================================================
