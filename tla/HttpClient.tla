----------------------------- MODULE HttpClient ------------------------------
(* http/httpclient/client.go: the calls of one HttpClient that several        *)
(* threads share.  A call is Send with its retries, or a whole-file download  *)
(* or upload whose own retry loop runs around it.  The threads share the one  *)
(* http.Client, whose CheckRedirect field doRequest installs and resets       *)
(* around client.Do without a lock, and the context.                          *)
EXTENDS RetryLoop, Sequences, SequencesExt

CONSTANTS Threads,
          Workloads,     \* what the threads may call, with which client and server
          MaxRedirects,  \* bound: redirects of a POST that lead to a redirect
          None           \* Go's nil, for a response or a function; "", for a URL

AllOps == {"get", "getNoRedirect", "stream", "post",
           "download", "downloadNoRedirect", "upload"}

(* ops: each thread's operation, "none" for a thread that stays idle; retries *)
(* is HttpClient.retries; answers: the statuses the server may answer with;   *)
(* checksum: ExpectedSha1 is known and SkipChecksum is not set; explode:      *)
(* isExplode; cap is a bound: requests and dropped bodies are counted to it.  *)
Workload == [ops : [Threads -> AllOps \cup {"none"}], retries : Nat,
             answers : SUBSET {200, 302, 404, 503}, checksum : BOOLEAN, explode : BOOLEAN, cap : Nat]

ASSUME WorkloadsAssumption == Workloads \subseteq Workload /\ MaxRedirects \in Nat
ASSUME ThreadsAssumption == Threads # {}
ASSUME NoneAssumption == None \notin Threads \cup {200, 302, 404, 503}

VARIABLES load,           \* the workload
          call,           \* call[t]: the one call that thread t makes
          checkRedirect,  \* jc.client.CheckRedirect: None, or the thread whose
                          \*   doRequest installed its closure
          ctx             \* jc.ctx

vars == <<load, call, checkRedirect, ctx>>

Retries == load.retries
Answers == load.answers
Checksum == load.checksum
Explode == load.explode

(* A call's registers are the named results of the Go functions.  frames holds *)
(* the loop index of every Send on the stack (a redirected POST sends again    *)
(* from within doRequest), outer the index of the loop around Send.            *)
Calls == [op       : AllOps \cup {"none"},
          pc       : {"begin", "do", "returned", "verdict", "save", "put",
                      "outer", "done"},
          outer    : Nat,
          frames   : Seq(Nat),
          resp     : {None, 200, 302, 404, 503},
          err      : {Nil, "net", "redirect", "status", "io", "sha", "archive",
                      TimeoutErr, CanceledErr},
          url      : Threads \cup {None},   \* redirectUrl: whose redirect it is
          open     : BOOLEAN,               \* resp.Body is open
          file     : {"absent", "partial", "bad", "good", "extracted"},
          followed : BOOLEAN,               \* history: net/http followed a redirect
          requests : Nat,                   \* history: requests sent
          leaked   : Nat]                   \* history: bodies dropped while open

TypeOK ==
    /\ load \in Workloads
    /\ call \in [Threads -> Calls]
    /\ checkRedirect \in Threads \cup {None}
    /\ ctx \in {"live", "canceled"}

Downloads == {"download", "downloadNoRedirect"}

Begin(o) == CASE o = "upload" -> "put" [] o = "none" -> "done" [] OTHER -> "begin"

Init ==
    /\ load \in Workloads
    /\ call = [t \in Threads |->
                 [op |-> load.ops[t], pc |-> Begin(load.ops[t]), outer |-> 0, frames |-> <<0>>,
                  resp |-> None, err |-> Nil, url |-> None, open |-> FALSE,
                  file |-> "absent", followed |-> FALSE, requests |-> 0, leaked |-> 0]]
    /\ checkRedirect = None
    /\ ctx = "live"

-----------------------------------------------------------------------------
(* doRequest *)

Post(t)   == call[t].op = "post"
Follow(t) == call[t].op \notin {"getNoRedirect", "downloadNoRedirect"}

(* The closeBody argument: file downloads and streams read the body later.    *)
CloseBody(t) == call[t].op \notin Downloads \cup {"stream"}

(* !followRedirect || (followRedirect && req.Method == http.MethodPost)       *)
InstallsCheck(t) == ~Follow(t) \/ Post(t)

(* The histories count up to the cap.                                         *)
Tick(n) == IF n < load.cap THEN n + 1 ELSE n

(* The response variable is about to be overwritten: an open body is lost.    *)
Dropped(c) == [c EXCEPT !.leaked = IF c.open THEN Tick(@) ELSE @, !.open = FALSE]

(* client.Do comes back with a response or an error.                          *)
Replied(c, resp, err) ==
    [Dropped(c) EXCEPT !.requests = Tick(@), !.resp = resp, !.err = err,
                       !.open = (err = Nil)]

(* Only thread t's own registers change.                                      *)
Moves(t, c) == call' = [call EXCEPT ![t] = c] /\ UNCHANGED <<load, checkRedirect, ctx>>

(* The closure that blocks a redirect is installed in the shared client.      *)
Install(t) ==
    /\ call[t].pc = "begin"
    /\ checkRedirect' = IF InstallsCheck(t) THEN t ELSE checkRedirect
    /\ call' = [call EXCEPT ![t].pc = "do", ![t].url = None]
    /\ UNCHANGED <<load, ctx>>

(* client.Do returns a response.                                              *)
Answer(t, status) ==
    /\ call[t].pc = "do" /\ ctx = "live" /\ status # 302
    /\ Moves(t, [Replied(call[t], status, Nil) EXCEPT !.pc = "returned"])

(* client.Do fails: the connection broke, or the context is canceled.         *)
Fail(t) ==
    /\ call[t].pc = "do"
    /\ Moves(t, [Replied(call[t], None, "net") EXCEPT !.pc = "returned"])

(* The server redirects.  net/http asks the CheckRedirect that the shared     *)
(* client has at this moment: without one it follows; a closure stores the    *)
(* URL in the redirectUrl of the doRequest that installed it, and fails.      *)
Redirected(t) ==
    /\ call[t].pc \in {"do", "put"} /\ ctx = "live" /\ 302 \in Answers
    /\ \/ /\ checkRedirect = None /\ ~call[t].followed
          /\ call' = [call EXCEPT ![t].followed = TRUE]
       \/ /\ checkRedirect # None /\ Len(call[t].frames) <= MaxRedirects
          /\ LET pc == IF call[t].pc = "do" THEN "returned" ELSE "outer"
             IN  call' = [call EXCEPT
                   ![t] = [Replied(@, 302, "redirect") EXCEPT !.pc = pc],
                   ![checkRedirect].url = t]
    /\ UNCHANGED <<load, checkRedirect, ctx>>

(* jc.client.CheckRedirect = nil                                              *)
Removed == None

\* Changed: only the body of a success is read and closed.
ClosesSuccess(c, t) == c.resp = 200 /\ CloseBody(t)

(* doRequest reads and closes the body of every response.                     *)
Closes(c, t) == c.err = Nil /\ CloseBody(t)

(* After client.Do: the closure is removed, a redirected POST is sent again   *)
(* to the new URL with a Send of its own, a body to be closed is; closing it  *)
(* may fail.                                                                  *)
Reset(t, closeErr) ==
    LET c == call[t] IN
    /\ c.pc = "returned"
    /\ checkRedirect' = Removed
    /\ call' = [call EXCEPT ![t] =
         IF c.err # Nil /\ c.url # None /\ Follow(t) /\ Post(t)
           THEN [c EXCEPT !.frames = Append(@, 0), !.pc = "begin"]
           ELSE [c EXCEPT !.pc = "verdict", !.open = @ /\ ~Closes(c, t),
                          !.err = IF Closes(c, t) /\ closeErr THEN "io" ELSE @]]
    /\ UNCHANGED <<load, ctx>>

-----------------------------------------------------------------------------
(* Send's handler and retry loop *)

\* Changed: a 5xx response is returned, only an error is retried.
RetriesErrors(c) == c.err # Nil

(* An error or a status from 500 on asks for a retry.                         *)
ShouldRetry(c) == c.err # Nil \/ (c.resp # None /\ c.resp >= 500)

(* The loop's i++.                                                            *)
NextIndex(i) == i + 1

(* The Send on top of the stack goes round again or returns: to doRequest of  *)
(* the Send below it, which clears redirectUrl, or to the operation.          *)
Verdict(t) ==
    LET c      == call[t]
        i      == Last(c.frames)
        nested == Len(c.frames) > 1
    IN  /\ c.pc = "verdict"
        /\ Moves(t,
             IF RunsAgain(ShouldRetry(c), ctx, i, Retries)
               THEN [c EXCEPT !.frames = Append(Front(@), NextIndex(i)), !.pc = "begin"]
               ELSE [c EXCEPT !.frames = Front(@),
                              !.err = LoopResult(ShouldRetry(c), c.err, ctx),
                              !.url = IF nested THEN None ELSE @,
                              !.pc = IF nested THEN "verdict"
                                     ELSE IF c.op \in Downloads THEN "save"
                                     ELSE "done"])

-----------------------------------------------------------------------------
(* downloadFile and UploadFile: the loop around *)

(* doDownloadFile without a 200: a response is closed, which may fail; an     *)
(* error returns at once, before the deferred close is in place.              *)
NotSaved(t, closeErr) ==
    LET c == call[t] IN
    /\ c.pc = "save" /\ (c.err # Nil \/ c.resp # 200)
    /\ Moves(t, [c EXCEPT !.pc = "outer", !.open = @ /\ c.err # Nil,
                          !.err = IF c.err = Nil /\ closeErr THEN "io" ELSE @])

\* Changed: a checksum that differs is not an error.
SaveErrUnchecked(copied) == IF copied \in {"absent", "partial"} THEN "io" ELSE Nil

(* saveToFile: creating or copying failed, or the checksum differs.           *)
SaveErr(copied) ==
    CASE copied \in {"absent", "partial"} -> "io"
      [] copied = "bad" /\ Checksum       -> "sha"
      [] OTHER                            -> Nil

(* saveToFile creates (or truncates) the file and copies the body; the        *)
(* archive is extracted and then removed, or is of no known kind and kept.    *)
(* Closing the body may still fail.                                           *)
Save(t, copied, archive, closeErr) ==
    LET c      == call[t]
        failed == SaveErr(copied) # Nil
    IN  /\ c.pc = "save" /\ c.err = Nil /\ c.resp = 200
        /\ Moves(t, [c EXCEPT
             !.pc = "outer", !.open = FALSE,
             !.err = CASE failed -> SaveErr(copied)
                       [] ~failed /\ Explode /\ archive = "broken" -> "archive"
                       [] OTHER -> IF closeErr THEN "io" ELSE Nil,
             !.file = CASE copied = "absent" -> @
                        [] ~failed /\ Explode /\ archive = "known" -> "extracted"
                        [] OTHER -> copied])

(* doUploadFile: the local file cannot be opened.                             *)
UploadOpenFails(t) ==
    /\ call[t].pc = "put"
    /\ Moves(t, [Dropped(call[t]) EXCEPT !.pc = "outer", !.resp = None, !.err = "io"])

(* UploadFileFromReader: client.Do fails.                                     *)
UploadFail(t) ==
    /\ call[t].pc = "put"
    /\ Moves(t, [Replied(call[t], None, "net") EXCEPT !.pc = "outer"])

(* UploadFileFromReader: a status other than 200 (201, 202) is an error,      *)
(* returned before the deferred close of the body is in place; otherwise the  *)
(* body is read, which may fail, and closed.                                  *)
UploadAnswer(t, status, readErr) ==
    /\ call[t].pc = "put" /\ ctx = "live" /\ status # 302
    /\ Moves(t, [Replied(call[t], status, Nil) EXCEPT
                   !.pc = "outer", !.open = (status # 200),
                   !.err = IF status # 200 THEN "status"
                           ELSE IF readErr THEN "io" ELSE Nil])

(* downloadFile does not retry a redirect that it was told not to follow.     *)
BlockedRedirect(t) == call[t].err # Nil /\ ~Follow(t) /\ call[t].url # None

(* The handler and the loop of downloadFile and of UploadFile; their          *)
(* executors have no Context.                                                 *)
OuterVerdict(t) ==
    LET c     == call[t]
        retry == ShouldRetry(c) /\ ~BlockedRedirect(t)
    IN  /\ c.pc = "outer"
        /\ Moves(t,
             IF RunsAgain(retry, "none", c.outer, Retries)
               THEN [c EXCEPT !.outer = @ + 1, !.frames = <<0>>, !.pc = Begin(c.op)]
               ELSE [c EXCEPT !.pc = "done", !.frames = <<>>,
                              !.err = LoopResult(retry, c.err, "none")])

(* The owner of the context cancels it.                                       *)
Cancel ==
    /\ ctx = "live" /\ \E t \in Threads : call[t].pc # "done"
    /\ ctx' = "canceled"
    /\ UNCHANGED <<load, call, checkRedirect>>

-----------------------------------------------------------------------------
Step(t) ==
    \/ Install(t) \/ Fail(t) \/ Redirected(t) \/ Verdict(t)
    \/ \E closeErr \in BOOLEAN : Reset(t, closeErr)
    \/ \E status \in Answers : Answer(t, status)
    \/ \E status \in Answers, readErr \in BOOLEAN : UploadAnswer(t, status, readErr)
    \/ \E closeErr \in BOOLEAN : NotSaved(t, closeErr)
    \/ \E copied \in {"absent", "partial", "bad", "good"},
          archive \in {"known", "unknown", "broken"}, closeErr \in BOOLEAN :
         Save(t, copied, archive, closeErr)
    \/ UploadOpenFails(t) \/ UploadFail(t)
    \/ OuterVerdict(t)

Next == Cancel \/ \E t \in Threads : Step(t)

Spec == Init /\ [][Next]_vars

(* Every request ends, answered or failed, and every thread is scheduled.     *)
FairSpec == Spec /\ \A t \in Threads : WF_vars(Step(t))

-----------------------------------------------------------------------------
(* Properties *)

Done(t) == call[t].pc = "done"

(* What every caller of Send, of a download and of an upload relies on: with  *)
(* a nil error there is a response, and its status is below 500, however the  *)
(* attempts, the nested Sends and a cancellation interleaved.  A nil error of *)
(* an upload means that the server accepted the file.                         *)
ResultContract ==
    \A t \in Threads : Done(t) /\ call[t].op # "none" /\ call[t].err = Nil =>
        /\ call[t].resp # None /\ call[t].resp < 500
        /\ call[t].op = "upload" => call[t].resp = 200

(* The calls that read the body themselves leave no response body open, over  *)
(* all their attempts and redirects; so does a download if no attempt met a   *)
(* 5xx.                                                                       *)
BodiesClosed ==
    \A t \in Threads :
        (Done(t) /\ (\/ call[t].op \in {"get", "getNoRedirect", "post"}
                     \/ call[t].op \in Downloads /\ 503 \notin Answers))
        => ~call[t].open /\ call[t].leaked = 0

(* How many requests a POST may send that is redirected d times in a row: each  *)
(* of its n attempts is a request and a Send with one redirect less to come.  *)
PostRequests(n) ==
    LET requests[d \in 0 .. MaxRedirects] ==
          IF d = 0 THEN n ELSE n * (1 + requests[d - 1])
    IN  requests

(* The number of requests an operation alone may send: a file download        *)
(* retries a Send that has retried.                                           *)
Budget(o) ==
    LET n == Retries + 1 IN
    CASE o \in Downloads -> n * n
      [] o = "post" -> PostRequests(n)[MaxRedirects]
      [] OTHER -> n

Alone(t) == \A u \in Threads \ {t} : load.ops[u] = "none"

RequestBudget ==
    \A t \in Threads : Alone(t) /\ call[t].op # "none" => call[t].requests <= Budget(call[t].op)

(* While no request is under way the shared client has no redirect closure:   *)
(* a later request is never stopped by the closure of an earlier one.         *)
ClientLeftClean ==
    (\A t \in Threads : call[t].pc \notin {"do", "returned"}) => checkRedirect = None

(* A file download keeps the promise of FileFetch.  The destination is        *)
(* created, truncated and filled within Save.  An operation that is not a     *)
(* download has no local file, and no "ok" to answer.                         *)
AbsFile(t) ==
    CASE call[t].file = "absent" -> "old"
      [] call[t].file = "partial" \/ (call[t].file = "bad" /\ Checksum) -> "dirty"
      [] OTHER -> "whole"

AbsAnswer(t) ==
    IF ~Done(t) THEN "pending"
    ELSE IF call[t].err # Nil THEN "failed"
    ELSE IF call[t].op \in Downloads /\ call[t].resp = 200 THEN "ok" ELSE "rejected"

AThread == CHOOSE t \in Threads : TRUE

Abstract == INSTANCE FileFetch WITH file <- AbsFile(AThread), answer <- AbsAnswer(AThread)

(* A download, whatever its attempts left behind, implements FileFetch: it    *)
(* answers, and "ok" only with the whole file in place.                       *)
FetchesFile == Abstract!Spec

(* The comment on a download that must not follow redirects: "an error is     *)
(* returned and redirectUrl receives the redirect address".                   *)
NoRedirectIsNotFollowed ==
    \A t \in Threads : ~Follow(t) => ~call[t].followed
=============================================================================
