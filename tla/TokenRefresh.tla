---------------------------- MODULE TokenRefresh ------------------------------
(* auth/servicedetails.go with auth/sshlogin.go, auth/authutils.go and        *)
(* http/jfroghttpclient/client.go: requests of several threads that share one *)
(* service's details.  Before a request is sent the interceptor looks at the  *)
(* token in the request's own headers and, if it is about to expire, gets a   *)
(* new one under a mutex, unless another thread just did.                     *)
(*                                                                            *)
(* Time is counted in ticks, Minute of them in a minute.  Tokens are numbered *)
(* in the order the server issues them; a token that is issued makes the one  *)
(* before it invalid (servicedetails.go, line 251).                           *)
EXTENDS Integers, Sequences

CONSTANTS
    Threads,
    MaxRequests, \* bound: requests of a thread
    Lifetime,    \* ticks a token lives
    Minute,      \* ticks in a minute
    Margin,      \* RefreshBeforeExpiryMinutes
    Wait,        \* WaitBeforeRefreshSeconds, in ticks
    MaxDelay,    \* ticks a thread that can run may take to go on
    MaxClock,    \* bound: no request begins later
    MaxTokens,   \* bound: tokens the server issues
    Nobody

ASSUME TokenAssumption ==
    /\ Lifetime \in Nat /\ Minute \in Nat \ {0} /\ Margin \in Nat
    /\ Wait \in Nat /\ MaxDelay \in Nat /\ MaxClock \in Nat
    /\ Nobody \notin Threads

VARIABLES
    clock,
    expires,   \* expires[n]: when token n does; the server accepts the last one
    shared,    \* the token in SshAuthHeaders
    mutex,     \* expiryHandleMutex: the thread that holds it, or Nobody
    step,
    token,     \* the token in a request's own headers; curToken
    timeLeft,  \* minutes left of it, when they were looked at
    asleep,    \* since when a thread sleeps
    age,       \* ticks a thread that can run has let pass
    requests   \* requests begun

tokenVars == <<clock, expires, shared, mutex, step, token, timeLeft, asleep, age, requests>>

Issued == Len(expires)

TokenTypeOK ==
    /\ clock \in Nat /\ expires \in Seq(Nat) /\ shared \in 1 .. Issued
    /\ mutex \in Threads \cup {Nobody}
    /\ step \in [Threads -> {"idle", "check", "lock", "recheck", "sleep", "agent", "key", "copy",
                           "send"}]
    /\ token \in [Threads -> 1 .. Issued]
    /\ timeLeft \in [Threads -> Nat] /\ asleep \in [Threads -> Nat]
    /\ age \in [Threads -> Nat] /\ requests \in [Threads -> Nat]

(* InitSsh: the first token is there before the interceptor is.               *)
TokenInit ==
    /\ clock = 0 /\ expires = <<Lifetime>> /\ shared = 1 /\ mutex = Nobody
    /\ step = [t \in Threads |-> "idle"] /\ token = [t \in Threads |-> 1]
    /\ timeLeft = [t \in Threads |-> 0] /\ asleep = [t \in Threads |-> 0]
    /\ age = [t \in Threads |-> 0] /\ requests = [t \in Threads |-> 0]

Goto(t, place) == step' = [step EXCEPT ![t] = place] /\ age' = [age EXCEPT ![t] = 0]

GetTokenMinutesLeft(n) ==
    IF expires[n] < clock THEN 0 ELSE (expires[n] - clock) \div Minute

-----------------------------------------------------------------------------
(* CreateHttpClientDetails copies the shared headers.                         *)
Create(t) ==
    /\ step[t] = "idle" /\ requests[t] < MaxRequests /\ clock < MaxClock
    /\ token' = [token EXCEPT ![t] = shared]
    /\ requests' = [requests EXCEPT ![t] = @ + 1]
    /\ Goto(t, "check")
    /\ UNCHANGED <<clock, expires, shared, mutex, timeLeft, asleep>>

(* The interceptor looks at the request's token.                              *)
Check(t) ==
    /\ step[t] = "check"
    /\ timeLeft' = [timeLeft EXCEPT ![t] = GetTokenMinutesLeft(token[t])]
    /\ Goto(t, IF GetTokenMinutesLeft(token[t]) > Margin THEN "send" ELSE "lock")
    /\ UNCHANGED <<clock, expires, shared, mutex, token, asleep, requests>>

\* An access token that cannot be parsed: the request is not sent.
CheckFails(t) ==
    /\ step[t] = "check"
    /\ Goto(t, "idle")
    /\ UNCHANGED <<clock, expires, shared, mutex, token, timeLeft, asleep, requests>>

Lock(t) ==
    /\ step[t] = "lock" /\ mutex = Nobody
    /\ mutex' = t
    /\ Goto(t, "recheck")
    /\ UNCHANGED <<clock, expires, shared, token, timeLeft, asleep, requests>>

\* Changed: the shared token is not looked at again.
RecheckNothing(t) ==
    /\ step[t] = "recheck"
    /\ Goto(t, IF timeLeft[t] # 0 THEN "sleep" ELSE "agent")
    /\ asleep' = [asleep EXCEPT ![t] = IF step'[t] = "sleep" THEN clock ELSE 0]
    /\ UNCHANGED <<clock, expires, shared, mutex, token, timeLeft, requests>>

\* Changed: the requests that use the old token are not waited for.
RecheckNoWait(t) ==
    /\ step[t] = "recheck"
    /\ Goto(t, IF shared # token[t] THEN "copy" ELSE "agent")
    /\ UNCHANGED <<clock, expires, shared, mutex, token, timeLeft, asleep, requests>>

(* With the mutex held: the token is renewed only if it is still the shared   *)
(* one, and after a while if it has time left.                                *)
Recheck(t) ==
    /\ step[t] = "recheck"
    /\ Goto(t, IF shared # token[t] THEN "copy" ELSE IF timeLeft[t] # 0 THEN "sleep" ELSE "agent")
    /\ asleep' = [asleep EXCEPT ![t] = IF step'[t] = "sleep" THEN clock ELSE 0]
    /\ UNCHANGED <<clock, expires, shared, mutex, token, timeLeft, requests>>

WaitIsOver(t) ==
    /\ step[t] = "sleep" /\ clock >= asleep[t] + Wait
    /\ asleep' = [asleep EXCEPT ![t] = 0]
    /\ Goto(t, "agent")
    /\ UNCHANGED <<clock, expires, shared, mutex, token, timeLeft, requests>>

(* The server runs jfrog-authenticate and issues a token.                     *)
Issue == Issued < MaxTokens /\ expires' = Append(expires, clock + Lifetime)

(* SshAuthentication tries the agent, then the key; the headers it returns    *)
(* take the place of the shared ones.                                         *)
Authenticate(t) ==
    /\ step[t] \in {"agent", "key"}
    /\ Issue
    /\ shared' = Issued + 1
    /\ Goto(t, "copy")
    /\ UNCHANGED <<clock, mutex, token, timeLeft, asleep, requests>>

\* No agent runs.
NoAgent(t) ==
    /\ step[t] = "agent"
    /\ Goto(t, "key")
    /\ UNCHANGED <<clock, expires, shared, mutex, token, timeLeft, asleep, requests>>

(* The agent's key is refused, or the answer is lost or malformed.            *)
AgentFails(t) ==
    /\ step[t] = "agent"
    /\ Issue \/ UNCHANGED expires
    /\ Goto(t, "key")
    /\ UNCHANGED <<clock, shared, mutex, token, timeLeft, asleep, requests>>

(* There is no key, or it cannot be read or needs a passphrase: the request   *)
(* is not sent.                                                               *)
NoKey(t) ==
    /\ step[t] = "key"
    /\ mutex' = Nobody
    /\ Goto(t, "idle")
    /\ UNCHANGED <<clock, expires, shared, token, timeLeft, asleep, requests>>

\* Changed: the mutex is not unlocked when the authentication fails.
KeyFailsLocked(t) ==
    /\ step[t] = "key"
    /\ Issue \/ UNCHANGED expires
    /\ Goto(t, "idle")
    /\ UNCHANGED <<clock, shared, mutex, token, timeLeft, asleep, requests>>

(* The key is refused, or the answer is lost or malformed.                    *)
KeyFails(t) ==
    /\ step[t] = "key"
    /\ Issue \/ UNCHANGED expires
    /\ mutex' = Nobody
    /\ Goto(t, "idle")
    /\ UNCHANGED <<clock, shared, token, timeLeft, asleep, requests>>

(* MergeMaps, and the mutex is unlocked.                                      *)
CopyToken(t) ==
    /\ step[t] = "copy"
    /\ token' = [token EXCEPT ![t] = shared]
    /\ mutex' = Nobody
    /\ Goto(t, "send")
    /\ UNCHANGED <<clock, expires, shared, timeLeft, asleep, requests>>

(* The interceptors have returned nil: the HTTP client's call begins.         *)
Send(t) ==
    /\ step[t] = "send"
    /\ Goto(t, "idle")
    /\ UNCHANGED <<clock, expires, shared, mutex, token, timeLeft, asleep, requests>>

(* Time passes, but a thread that can run is not kept from it for more than   *)
(* MaxDelay ticks.                                                            *)
CanRun(t) ==
    \/ step[t] \in {"check", "recheck", "agent", "key", "copy", "send"}
    \/ step[t] = "lock" /\ mutex = Nobody
    \/ step[t] = "sleep" /\ clock >= asleep[t] + Wait

Tick ==
    /\ clock < MaxClock \/ \E t \in Threads : step[t] \notin {"idle", "lock"}
    /\ \A t \in Threads : CanRun(t) => age[t] < MaxDelay
    /\ clock' = clock + 1
    /\ age' = [t \in Threads |-> IF CanRun(t) THEN age[t] + 1 ELSE age[t]]
    /\ UNCHANGED <<expires, shared, mutex, step, token, timeLeft, asleep, requests>>

Interceptor(t) ==
    \/ Check(t) \/ CheckFails(t) \/ Lock(t) \/ Recheck(t) \/ WaitIsOver(t)
    \/ Authenticate(t) \/ NoAgent(t) \/ AgentFails(t) \/ NoKey(t) \/ KeyFails(t)
    \/ CopyToken(t)

TokenNext == Tick \/ \E t \in Threads : Create(t) \/ Interceptor(t) \/ Send(t)

TokenSpec == TokenInit /\ [][TokenNext]_tokenVars /\ WF_tokenVars(Tick) /\ \A t \in Threads : WF_tokenVars(Interceptor(t) \/ Send(t))

-----------------------------------------------------------------------------
(* Properties *)

(* "Lock expiryHandleMutex to make sure only one authentication is made": a   *)
(* token is replaced only when at most Margin minutes and a fraction are left *)
(* of it, so the threads that found the same token about to expire do not     *)
(* replace one another's new tokens.                                          *)
FreshTokenKept ==
    [][shared' # shared => expires[shared] < clock + (Margin + 1) * Minute]_tokenVars

\* The server accepts the token: nothing was issued after it, and it has not expired.
Valid(n) == n = Issued /\ clock <= expires[n]

(* "make sure requests using the current token are sent before it is refreshed *)
(* and becomes invalid": a request is never sent with a token that another    *)
(* thread has had replaced or that has expired, if threads that can run are   *)
(* not kept from it for as long as the wait is.                               *)
SentTokenValid == [][\A t \in Threads : Send(t) => Valid(token[t])]_tokenVars

(* Every request is sent or refused: no thread keeps the mutex, whatever      *)
(* fails.                                                                     *)
RequestsEnd == \A t \in Threads : step[t] # "idle" ~> step[t] = "idle"

(* The invariant behind FreshTokenKept: the mutex has one holder, and who is  *)
(* about to authenticate has found the shared token about to expire.          *)
Holding(t) == step[t] \in {"recheck", "sleep", "agent", "key", "copy"}
Renewing(t) == step[t] \in {"sleep", "agent", "key"}
AboutToExpire(n) == expires[n] < clock + (Margin + 1) * Minute

OneHolder == \A t \in Threads : Holding(t) => mutex = t
RenewsOldToken ==
    \A t \in Threads :
        /\ step[t] = "lock" \/ Holding(t) => AboutToExpire(token[t])
        /\ Renewing(t) => token[t] = shared
=============================================================================
