-------------------------- MODULE RemoteOperation ----------------------------
(* What the one-request services of this library have in common.  A service's *)
(* method builds a body, sends one request through the HTTP client, compares  *)
(* the status of the answer with those it accepts and returns nil or an       *)
(* error; some look the thing up first.  A method is described here by        *)
(*                                                                            *)
(*   lookup    whether it first asks for the thing: it must be "absent" or    *)
(*             "there", or there is "no" lookup                               *)
(*   request   what the request asks of the server                            *)
(*   sends     the fields in the body: those that are "set" (omitempty),      *)
(*             "all" of them, those that are set with the list "clear", or    *)
(*             "nothing"                                                      *)
(*   accepts   the statuses that make it return nil                           *)
(*   missing   the statuses it reports as "not there", without an error       *)
(*   conflict  the statuses it reports as "already exists"                    *)
(*   keeps     whether the caller asked it to leave an "existing" thing alone *)
(*   dry       the DryRun field of the service: "on", "off", or it has "none" *)
(*   decodes   whether it decodes the body of an accepted answer, and returns *)
(*             an error if that fails                                         *)
(*                                                                            *)
(* The modules that extend this one give every service's methods in these     *)
(* terms; Administration runs them.                                           *)
EXTENDS Integers

Method(request, accepts) ==
    [lookup |-> "no", request |-> request, sends |-> "set", accepts |-> accepts,
     missing |-> {}, conflict |-> {}, keeps |-> "nothing", dry |-> "none",
     decodes |-> FALSE]

Decoding(method) == [method EXCEPT !.decodes = TRUE]

(* An answer of 200 that says that there is no such thing, and one of 404     *)
(* that says that there is one already.                                       *)
Empty == 0
Already == 1

(* A GET of one thing, of a collection, of one thing in a collection, and the *)
(* requests that change them:                                                 *)
(* PUT creates or replaces, a strict POST creates, POST changes the fields it *)
(* has, PUT of what exists replaces it, a POST without a body acts on a thing *)
(* that is there, and some requests make something new whenever they arrive.  *)
Get(missing)             == [Method("get", {200}) EXCEPT !.missing = missing, !.decodes = TRUE]
List                     == Decoding(Method("list", {200}))
Find(missing)            == [Method("find", {200}) EXCEPT !.missing = missing, !.decodes = TRUE]
Put(accepts)             == Method("put", accepts)
Merge(accepts)           == Method("merge", accepts)
Overwrite(accepts)       == Method("overwrite", accepts)
Act(accepts)             == [Merge(accepts) EXCEPT !.sends = "nothing"]
Delete(accepts)          == Method("delete", accepts)
Issue(accepts)           == Method("issue", accepts)
Create(accepts, conflict) ==
    [Method("create", accepts) EXCEPT !.conflict = conflict, !.keeps = "existing"]

\* A GET whose answer is of no interest but for its status.
Probe                    == Method("list", {200})

WithDryRun(method, on) == [method EXCEPT !.dry = IF on THEN "on" ELSE "off"]
=============================================================================
