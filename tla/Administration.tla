--------------------------- MODULE Administration ----------------------------
(* Callers of the services' managers, a server that keeps one thing of some   *)
(* kind, and a network that loses requests and answers.  A call is one of the *)
(* methods of ArtifactoryOperations and PlatformOperations: a lookup if the   *)
(* method has one, then its request, which the HTTP client sends again after  *)
(* an error or a 5xx, and a verdict from the status.                          *)
EXTENDS ArtifactoryOperations, PlatformOperations, FiniteSets, Functions

CONSTANTS
    Callers,
    Attempts,  \* HttpRetries + 1
    Kinds,     \* of things
    Absent,
    Zero       \* the value of a field that was never set

VARIABLES
    kind,
    dryRun,  \* the DryRun of the manager's configuration
    thing,   \* what the server keeps: Absent, or the value of every field
    call     \* call[c]: what c does

adminVars == <<kind, dryRun, thing, call>>

Fields == {"text", "list"}

Values == [Fields -> Callers \cup {Zero}]

ASSUME AbsentAssumption == Absent \notin Values


AllKinds ==
    {"user", "group", "repository", "permission", "replication", "key", "token", "encryption", "storage",
     "federation", "system", "build", "project", "assignment", "projectGroup", "access", "bundle",
     "signingKey", "watch", "policy", "report", "scan", "integration", "source", "pipeline"}

ASSUME KindsAssumption == Kinds \subseteq AllKinds

Methods(k) ==
    [user |-> UserMethods, group |-> GroupMethods, repository |-> RepositoryMethods,
     permission |-> PermissionMethods, replication |-> ReplicationMethods, key |-> KeyMethods,
     token |-> TokenMethods, encryption |-> EncryptionMethods, storage |-> StorageMethods,
     federation |-> FederationMethods, system |-> SystemMethods, build |-> BuildMethods(dryRun),
     project |-> ProjectMethods, assignment |-> AssignmentMethods,
     projectGroup |-> ProjectGroupMethods, access |-> AccessMethods,
     bundle |-> BundleMethods(dryRun), signingKey |-> {SetSigningKey}, watch |-> WatchMethods,
     policy |-> PolicyMethods, report |-> ReportMethods, scan |-> ScanMethods,
     integration |-> IntegrationMethods, source |-> SourceMethods,
     pipeline |-> PipelineMethods][k]

-----------------------------------------------------------------------------
(* The body of a request *)

(* What a caller asks for: its own value for both fields, or for the text.    *)
Arguments(c) == {[f \in Fields |-> c], [f \in Fields |-> IF f = "text" THEN c ELSE Zero]}

(* json.Marshal leaves out the fields that are not set, if their tag says     *)
(* omitempty.                                                                 *)
Sent(method, arg) ==
    {f \in Fields : method.sends # "nothing" /\ (arg[f] # Zero \/ method.sends = "all")}
        \cup (IF method.sends = "clear" THEN {"list"} ELSE {})

Body(method, arg) ==
    [f \in Sent(method, arg) |-> IF method.sends = "clear" /\ f = "list" THEN Zero ELSE arg[f]]

-----------------------------------------------------------------------------
(* The server *)

Present == thing # Absent

(* The thing when the server has done what a request asks.                    *)
Done(request, body) ==
    CASE request \in {"put", "create", "overwrite"} ->
            [f \in Fields |-> IF f \in DOMAIN body THEN body[f] ELSE Zero]
      [] request = "merge" -> [f \in Fields |-> IF f \in DOMAIN body THEN body[f] ELSE thing[f]]
      [] request \in {"delete", "decrypt"} -> Absent
      [] OTHER -> thing

(* Whether it does it, with which of the statuses that mean success to the    *)
(* method, and what it says otherwise.                                        *)
Able(request) ==
    CASE request = "create" -> ~Present
      [] request \in {"get", "find", "merge", "overwrite", "delete", "decrypt"} -> Present
      [] OTHER -> TRUE

Success(method) == method.accepts \cap {200, 201, 202, 204}

Unable(request) ==
    CASE request = "create" -> {400, 404, 409, Already}
      [] request = "find" -> {Empty}
      [] request = "decrypt" -> {409}
      [] OTHER -> {404}

\* A status that changes nothing, whatever was asked.
Refusals == {400, 401, 403, 503}

(* A dry run that is the server's.                                            *)
Effective(method) == method.dry # "on"

-----------------------------------------------------------------------------
(* Calls *)

NoMethod == Method("none", {})
NoCall == [at |-> "idle", method |-> NoMethod, arg |-> [f \in Fields |-> Zero], tries |-> 0,
           lost |-> 0, late |-> FALSE, issued |-> 0, done |-> FALSE, saw |-> {}]

\* "garbled" is the error of an accepted answer that could not be decoded.
Places == {"idle", "lookup", "request", "nil", "absent", "exists", "error", "garbled", "panic"}
Sights == SUBSET {"gone", "there"}

AdminTypeOK ==
    /\ kind \in Kinds /\ dryRun \in BOOLEAN
    /\ thing \in {Absent} \cup Values
    /\ call \in [Callers -> [at : Places, method : Methods(kind) \cup {NoMethod}, arg : Values,
                             tries : Nat, lost : Nat, late : BOOLEAN, issued : Nat, done : BOOLEAN,
                             saw : Sights]]

(* What a call has seen of the thing, and whether it was as the call asks.    *)
AsAsked(method, arg, t) ==
    CASE method.request \in {"put", "create", "overwrite", "merge"} ->
            t # Absent /\ \A f \in Sent(method, arg) : t[f] = Body(method, arg)[f]
      [] method.request \in {"delete", "decrypt"} -> t = Absent
      [] method.request \in {"get", "find"} -> t # Absent
      [] OTHER -> TRUE

Watch(k, t) ==
    [k EXCEPT !.saw = @ \cup {IF t = Absent THEN "gone" ELSE "there"},
              !.done = @ \/ AsAsked(k.method, k.arg, t)]

(* A step of c's call, after which the thing is t.                            *)
Continue(c, next, t) ==
    /\ thing' = t
    /\ call' = [d \in Callers |-> IF d = c THEN Watch(next, t)
                                  ELSE IF call[d].at \in {"lookup", "request"} THEN Watch(call[d], t)
                                  ELSE call[d]]
    /\ UNCHANGED <<kind, dryRun>>

End(c, verdict) == Continue(c, [call[c] EXCEPT !.at = verdict], thing)

AdminInit ==
    /\ kind \in Kinds
    /\ dryRun \in BOOLEAN
    /\ thing \in {Absent, [f \in Fields |-> Zero]}
    /\ call = [c \in Callers |-> NoCall]

(* The method builds its request, if its parameters allow, and sends it       *)
(* unless this is a dry run of its own.                                       *)
PreviewsItself(method) == method.dry = "on" /\ method.request \in {"put", "delete"}

Begin(c) ==
    /\ call[c].at = "idle"
    /\ \E method \in Methods(kind), arg \in Arguments(c) :
         \E at \in {"error", IF PreviewsItself(method) THEN "nil"
                             ELSE IF method.lookup # "no" THEN "lookup" ELSE "request"} :
            Continue(c, [NoCall EXCEPT !.at = at, !.method = method, !.arg = arg,
                                       !.done = PreviewsItself(method)], thing)

(* The lookup's answer; without one there is an error.                        *)
Lookup(c) ==
    /\ call[c].at = "lookup"
    /\ \E at \in {"error",
                  CASE call[c].method.lookup = "absent" -> IF Present THEN "exists" ELSE "request"
                    [] call[c].method.lookup = "there" -> IF Present THEN "request" ELSE "panic"} :
         End(c, at)

(* What the method makes of a status.                                         *)
Verdict(method, status) ==
    IF status \in method.accepts THEN "nil"
    ELSE IF status \in method.missing THEN "absent"
    ELSE IF status \in method.conflict THEN "exists"
    ELSE "error"

\* Changed: whatever is not a 200 is tried again.
RetriesUnlessOK(status) == status # 200
Retries(status) == status >= 500

(* The attempt fails with an error or with a status that is worth another.    *)
Again(c) == [call[c] EXCEPT !.tries = @ + 1,
                            !.at = IF call[c].tries + 1 < Attempts THEN "request" ELSE "error"]

Issued(method) == IF method.request = "issue" /\ Effective(method) THEN 1 ELSE 0

After(c, status) ==
    IF Retries(status) THEN Again(c) ELSE [call[c] EXCEPT !.at = Verdict(call[c].method, status)]

(* What comes of an answer.  Its body may not be what the method expects.     *)
Outcomes(c, status) ==
    LET next == After(c, status)
    IN  {next} \cup IF next.at = "nil" /\ call[c].method.decodes
                       THEN {[next EXCEPT !.at = "garbled"]} ELSE {}

(* The request arrives; the server does what it asks, and answers.            *)
Served(c) ==
    LET m == call[c].method
    IN  /\ call[c].at = "request"
        /\ Able(m.request)
        /\ \E status \in Success(m) : \E outcome \in Outcomes(c, status) :
              LET next == [outcome EXCEPT !.issued = @ + Issued(m), !.done = @ \/ m.dry = "on"]
              IN  Continue(c, next, IF Effective(m) THEN Done(m.request, Body(m, call[c].arg)) ELSE thing)

(* It does not, because of the thing or for a reason of its own.              *)
NotServed(c) ==
    LET m == call[c].method
    IN  /\ call[c].at = "request"
        /\ \E status \in Refusals \cup (IF Able(m.request) THEN {} ELSE Unable(m.request)) :
              Continue(c, After(c, status), thing)

(* It does, and the connection is lost before the answer.                     *)
AnswerLost(c) ==
    LET m == call[c].method
    IN  /\ call[c].at = "request"
        /\ Able(m.request)
        /\ Continue(c, [Again(c) EXCEPT !.issued = @ + Issued(m), !.lost = @ + 1],
                    IF Effective(m) THEN Done(m.request, Body(m, call[c].arg)) ELSE thing)

(* The connection is lost before the request.                                 *)
RequestLost(c) ==
    /\ call[c].at = "request"
    /\ Continue(c, Again(c), thing)

(* The connection is lost and the request is not: it may still arrive, while  *)
(* the client tries again or after it has given up.                           *)
Delayed(c) ==
    /\ call[c].at = "request" /\ ~call[c].late
    /\ Continue(c, [Again(c) EXCEPT !.late = TRUE, !.lost = @ + 1], thing)

Arrives(c) ==
    LET m == call[c].method
        next == [call[c] EXCEPT !.late = FALSE]
    IN  /\ call[c].late
        /\ IF Able(m.request)
           THEN Continue(c, [next EXCEPT !.issued = @ + Issued(m)],
                         IF Effective(m) THEN Done(m.request, Body(m, call[c].arg)) ELSE thing)
           ELSE Continue(c, next, thing)

Step(c) == Begin(c) \/ Lookup(c) \/ Served(c) \/ NotServed(c) \/ AnswerLost(c) \/ RequestLost(c)
           \/ Delayed(c) \/ Arrives(c)

AdminNext == \E c \in Callers : Step(c)

AdminSpec == AdminInit /\ [][AdminNext]_adminVars

-----------------------------------------------------------------------------
(* Properties *)

\* The step is c's.
Moves(c) ==
    \/ call'[c].at # call[c].at
    \/ call'[c].tries # call[c].tries
    \/ call'[c].late # call[c].late

(* A nil error is not a guess: during the call the server held what the call  *)
(* asked for, or it made one more thing of its kind, whatever was lost, tried *)
(* again or done by another caller (users.go, groups.go and the others).      *)
NilMeansDone ==
    \A c \in Callers :
        call[c].at = "nil" =>
            /\ call[c].done
            /\ call[c].method.request = "issue" /\ Effective(call[c].method) => call[c].issued > 0

(* "Not there" and "already exists" are what the server had during the call:  *)
(* GetUser, GetPermissionTarget and their like, and the AlreadyExists errors. *)
(* IsRepoExists is not among them: it takes every refusal for an absence.     *)
AbsenceIsReal ==
    \A c \in Callers :
        /\ call[c].at = "absent" /\ call[c].method # IsRepoExists => "gone" \in call[c].saw
        /\ call[c].at = "exists" => "there" \in call[c].saw

(* A request that makes something whenever it arrives (a token, a scan, a     *)
(* pipeline's run) is repeated only for a lost answer.  What was made is      *)
(* thing by thing accounted for: by an answer that was lost, by nil, or by    *)
(* the one answer that arrived and could not be decoded, which ends the call  *)
(* with an error although the thing was made (CreateToken, ScanGraph, ...).   *)
IssuedOnce ==
    \A c \in Callers :
        call[c].issued <= call[c].lost + (IF call[c].at \in {"nil", "garbled"} THEN 1 ELSE 0)

(* What a call may not touch.  Without ReplaceIfExists, and in the creations  *)
(* of permission targets, watches and so on: a thing that was there all       *)
(* along.  In an update of a user or a group: the fields that its caller has  *)
(* not set, but for the list when it is cleared.  In a dry run: anything (not *)
(* so in an export or import, whose service the manager does not tell).       *)
OthersKept ==
    [][\A c \in Callers : Moves(c) =>
         /\ call[c].method.keeps = "existing" /\ call[c].saw = {"there"} /\ Present => thing' = thing
         /\ kind \in {"user", "group"} /\ call[c].method.request = "merge" /\ thing # Absent =>
              /\ call[c].method.sends # "clear" => \A f \in Fields : call[c].arg[f] = Zero => thing'[f] = thing[f]
              /\ thing' # thing /\ call[c].method.sends = "clear" => thing'["list"] = Zero
         /\ dryRun /\ kind # "system" /\ call'[c].method.dry # "none" => thing' = thing /\ call'[c].issued = 0]_adminVars
=============================================================================
