------------------------- MODULE RetryableConnection --------------------------
(* http/httpclient/retryableconnection.go: Do connects and reads the response *)
(* of a long-running request line by line, watched by a timer; a connection   *)
(* that is lost, times out or brings an error content is made again, and a    *)
(* connection that was stable gives the retries back.                         *)
EXTENDS Integers, Sequences

CONSTANTS RetriesNum,   \* the field of that name; -1: unlimited
          Window,       \* StableConnectionWindow > 0
          Lines,        \* how many lines the whole response has
          HasHandler,   \* ErrorHandler is set
          MaxStable,    \* bound: connections that become stable
          MaxAttempts   \* bound: connections attempted, counted up to it

ASSUME RetriesNumAssumption == RetriesNum \in Int /\ RetriesNum >= -1
ASSUME FlagsAssumption == Window \in BOOLEAN /\ HasHandler \in BOOLEAN
ASSUME BoundsAssumption == Lines \in Nat /\ MaxStable \in Nat
\* What is counted is counted beyond the number that must not be exceeded.
ASSUME AttemptsAssumption == MaxAttempts \in Nat /\ MaxAttempts > RetriesNum + 1

VARIABLES place,     \* of Do: "loop", "connect", "wait", "content", "done"
          retry,     \* its retry counter
          reader,    \* of the monitor: the goroutine that reads the body
          timer,     \* the goroutine that looks at lastRead
          errChan,   \* its channel, of capacity 1
          read,      \* how many lines are in result
          quiet,     \* lastRead + readTimeout is over
          old,       \* the connection is older than the window
          lastOld,   \* it was when lastRead was set
          stable,    \* what monitor.start returned
          response,  \* what Do returned
          attempts,  \* history: calls of ConnectHandler
          since,     \* history: those after the last loss of a stable connection
          stables    \* history: losses of a stable connection

connVars == <<place, retry, reader, timer, errChan, read, quiet, old, lastOld, stable,
              response, attempts, since, stables>>
monitor == <<reader, timer, errChan, read, quiet, old, lastOld>>

ConnTypeOK ==
    /\ place \in {"loop", "connect", "wait", "content", "done"}
    /\ retry \in Nat
    /\ reader \in {"read", "eof", "error", "gone"}
    /\ timer \in {"watch", "send"}
    /\ errChan \in Seq({"nil", "error", "timeout"}) /\ Len(errChan) <= 1
    /\ read \in 0 .. Lines
    /\ quiet \in BOOLEAN /\ old \in BOOLEAN /\ lastOld \in BOOLEAN /\ stable \in BOOLEAN
    /\ response \in {"none", "body", "exhausted"}
    /\ attempts \in 0 .. MaxAttempts /\ since \in 0 .. MaxAttempts
    /\ stables \in 0 .. MaxStable

ConnInit ==
    /\ place = "loop" /\ retry = 0
    /\ reader = "gone" /\ timer = "watch" /\ errChan = <<>> /\ read = 0
    /\ quiet = FALSE /\ old = FALSE /\ lastOld = FALSE /\ stable = FALSE
    /\ response = "none" /\ attempts = 0 /\ since = 0 /\ stables = 0

Tick(n) == IF n < MaxAttempts THEN n + 1 ELSE n

-----------------------------------------------------------------------------
(* Do *)

MayTry == RetriesNum = -1 \/ retry <= RetriesNum

Loop ==
    /\ place = "loop"
    /\ IF MayTry THEN place' = "connect" /\ UNCHANGED response
                 ELSE place' = "done" /\ response' = "exhausted"
    /\ UNCHANGED <<retry, stable, attempts, since, stables>>
    /\ UNCHANGED monitor

\* Changed: every loss gives the retries back.
CheckErrorsReset(isStable, tried) ==
    /\ place' = "loop"
    /\ retry' = 0
    /\ stables' = IF isStable THEN stables + 1 ELSE stables
    /\ since' = IF isStable THEN 0 ELSE tried

(* checkErrors with an error: after the sleep the counter starts anew if the  *)
(* connection was stable.                                                     *)
CheckErrors(isStable, tried) ==
    /\ place' = "loop"
    /\ retry' = IF isStable THEN 0 ELSE retry + 1
    /\ stables' = IF isStable THEN stables + 1 ELSE stables
    /\ since' = IF isStable THEN 0 ELSE tried

(* ConnectHandler returns an error, or a response without a body.             *)
ConnectFails ==
    /\ place = "connect"
    /\ attempts' = Tick(attempts)
    /\ CheckErrors(FALSE, Tick(since))
    /\ UNCHANGED <<stable, response>> /\ UNCHANGED monitor

(* A response: monitor.start starts its two goroutines.                       *)
Connected ==
    /\ place = "connect"
    /\ place' = "wait"
    /\ attempts' = Tick(attempts) /\ since' = Tick(since)
    /\ reader' = "read" /\ timer' = "watch" /\ errChan' = <<>> /\ read' = 0
    /\ quiet' = FALSE /\ old' = FALSE /\ lastOld' = FALSE
    /\ UNCHANGED <<retry, stable, response, stables>>

-----------------------------------------------------------------------------
(* The monitor's goroutines.  Those of an earlier connection have a channel   *)
(* of their own and are left behind.                                          *)

(* m.lastRead = time.Now(); result = append(result, line...)                  *)
ReadLine ==
    /\ place = "wait" /\ reader = "read" /\ read < Lines
    /\ read' = read + 1
    /\ quiet' = FALSE
    /\ lastOld' = old
    /\ UNCHANGED <<place, retry, reader, timer, errChan, old, stable, response, attempts,
                   since, stables>>

\* Changed: an end of the body before its last line is not told from the end.
ReadStopsShort ==
    /\ place = "wait" /\ reader = "read"
    /\ reader' \in {"eof", "error"}
    /\ UNCHANGED <<place, retry, timer, errChan, read, quiet, old, lastOld, stable, response,
                   attempts, since, stables>>

(* The end of the body, or an error: the connection is lost.                  *)
ReadStops ==
    /\ place = "wait" /\ reader = "read"
    /\ \/ reader' = "eof" /\ read = Lines
       \/ reader' = "error"
    /\ UNCHANGED <<place, retry, timer, errChan, read, quiet, old, lastOld, stable, response,
                   attempts, since, stables>>

(* errChan <- nil, errChan <- err: blocks while the channel is full.          *)
ReaderSends ==
    /\ place = "wait" /\ reader \in {"eof", "error"} /\ errChan = <<>>
    /\ errChan' = <<IF reader = "eof" THEN "nil" ELSE "error">>
    /\ reader' = "gone"
    /\ UNCHANGED <<place, retry, timer, read, quiet, old, lastOld, stable, response, attempts,
                   since, stables>>

(* The timer finds that lastRead is too long ago; it sends, then looks again. *)
TimerLooks ==
    /\ place = "wait" /\ timer = "watch" /\ quiet
    /\ timer' = "send"
    /\ UNCHANGED <<place, retry, reader, errChan, read, quiet, old, lastOld, stable, response,
                   attempts, since, stables>>

TimerSends ==
    /\ place = "wait" /\ timer = "send" /\ errChan = <<>>
    /\ errChan' = <<"timeout">>
    /\ timer' = "watch"
    /\ UNCHANGED <<place, retry, reader, read, quiet, old, lastOld, stable, response, attempts,
                   since, stables>>

(* The clock: readTimeout passes without a line, the window passes.           *)
TimePasses ==
    /\ place = "wait"
    /\ \/ ~quiet /\ quiet' = TRUE /\ UNCHANGED old
       \/ /\ ~old /\ Window /\ stables < MaxStable
          /\ old' = TRUE /\ UNCHANGED quiet
    /\ UNCHANGED <<place, retry, reader, timer, errChan, read, lastOld, stable, response, attempts,
                   since, stables>>

-----------------------------------------------------------------------------
(* err = <-errChan; whether the connection was stable; the body is closed,    *)
(* and an error of that is an error of the connection.                        *)
ReceiveErr(closeErr) ==
    /\ place = "wait" /\ errChan # <<>>
    /\ errChan' = <<>>
    /\ stable' = (Window /\ lastOld)
    /\ IF Head(errChan) # "nil" \/ closeErr
         THEN CheckErrors(stable', since)
         ELSE place' = "content" /\ UNCHANGED <<retry, since, stables>>
    /\ UNCHANGED <<reader, timer, read, quiet, old, lastOld, response, attempts>>

(* ErrorHandler(result) is an error, or the result is returned.               *)
Content(bad) ==
    /\ place = "content"
    /\ IF HasHandler /\ bad
         THEN CheckErrors(stable, since) /\ UNCHANGED response
         ELSE place' = "done" /\ response' = "body" /\ UNCHANGED <<retry, since, stables>>
    /\ UNCHANGED <<stable, attempts>> /\ UNCHANGED monitor

-----------------------------------------------------------------------------
Do == \/ Loop \/ ConnectFails \/ Connected
      \/ \E b \in BOOLEAN : ReceiveErr(b) \/ Content(b)

Timer == TimerLooks \/ TimerSends

ConnNext == Do \/ Timer \/ ReadLine \/ ReadStops \/ ReaderSends \/ TimePasses

ConnSpec == ConnInit /\ [][ConnNext]_connVars

-----------------------------------------------------------------------------
(* Properties *)

(* What Do returns: the whole response of the last connection, which neither  *)
(* the timer nor a lost connection can cut short; or, without one, the error  *)
(* of exhausted retries, when RetriesNum + 1 connections were attempted since *)
(* the last loss of a stable one, and no more.                                *)
ResultHonest ==
    /\ response = "body" => read = Lines
    /\ RetriesNum >= 0 => since <= RetriesNum + 1
    /\ response = "exhausted" => RetriesNum >= 0 /\ since = RetriesNum + 1

(* A stalled server does not keep Do waiting: it ends (RetriesNum is finite,  *)
(* and so are the losses of stable connections).                              *)
DoReturns == <>(place = "done")
=============================================================================
