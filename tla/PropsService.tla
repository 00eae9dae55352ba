----------------------------- MODULE PropsService -----------------------------
(* artifactory/services/props.go: the caller searches once and uses the same  *)
(* reader for SetProps and, when that has returned, for DeleteProps.  Each    *)
(* item gets a request of its own, which must not reach what is below it.     *)
EXTENDS ItemTasks

CONSTANT Trees   \* what the repository may hold

VARIABLES
    tree,      \* the items on the server
    found,     \* what the reader holds
    pc,        \* "set" or "delete", "returned" in between, "done"
    drained,   \* whether the reader is at its end instead of its beginning
    has,       \* the items that have the property
    err

vars == <<tree, found, pc, drained, tasks, has, err>>

TypeOK ==
    /\ tree \in Trees /\ ToSet(found) \subseteq tree /\ has \subseteq tree
    /\ pc \in {"ready", "set", "returned", "delete", "done"} /\ drained \in BOOLEAN
    /\ err \in {"none", "nil", "err"}

Init ==
    /\ tree \in Trees
    /\ \E S \in SUBSET tree : found = InOrder(S)
    /\ pc = "ready" /\ drained = FALSE /\ has = {} /\ err = "none"
    /\ list = <<>> /\ next = 1 /\ running = {} /\ succeeded = 0 /\ failed = FALSE

(* performRequest: the producer begins where the reader is.                   *)
Calls(operation) ==
    /\ Begins(IF drained THEN <<>> ELSE found)
    /\ pc' = operation /\ err' = "none"
    /\ UNCHANGED <<tree, found, drained, has>>

SetProps == pc = "ready" /\ Calls("set")

DeleteProps == pc = "returned" /\ Calls("delete")

\* The properties cannot be parsed: there are no requests.
BadProps ==
    /\ pc = "ready"
    /\ pc' = "returned" /\ err' = "err"
    /\ UNCHANGED <<tree, found, drained, tasks, has>>

Working == pc \in {"set", "delete"}

StartTask == Working /\ Take /\ UNCHANGED <<tree, found, pc, drained, has, err>>

\* What the server does: recursive=0.
Apply(i) == has' = IF pc = "set" THEN has \cup {list[i]} ELSE has \ {list[i]}

UnchangedInTasks == <<tree, found, pc, drained, err>>

PropsSet(i) == Working /\ Succeeds(i) /\ Apply(i) /\ UNCHANGED UnchangedInTasks

\* The request fails or is not answered with a 204; it may have been carried out.
PropsFail(i) == Working /\ Fails(i) /\ (Apply(i) \/ UNCHANGED has) /\ UNCHANGED UnchangedInTasks

ListFails == Working /\ ProducerFails /\ UNCHANGED <<has, UnchangedInTasks>>

\* Changed: the reader is left at its end.
ReturnDrained ==
    /\ Working /\ AllEnded
    /\ drained' = TRUE
    /\ err' = IF failed THEN "err" ELSE "nil"
    /\ pc' = IF pc = "set" THEN "returned" ELSE "done"
    /\ UNCHANGED <<tree, found, tasks, has>>

(* The producer has reset the reader before the last task ends.               *)
Return ==
    /\ Working /\ AllEnded
    /\ drained' = FALSE
    /\ err' = IF failed THEN "err" ELSE "nil"
    /\ pc' = IF pc = "set" THEN "returned" ELSE "done"
    /\ UNCHANGED <<tree, found, tasks, has>>

Next ==
    \/ SetProps \/ DeleteProps \/ BadProps
    \/ StartTask \/ ListFails \/ Return
    \/ \E i \in running : PropsSet(i) \/ PropsFail(i)

Spec == Init /\ [][Next]_vars

-----------------------------------------------------------------------------
(* Properties *)

(* "we do not want the action itself to be recursive": only items of the      *)
(* reader ever get the property; when SetProps returns nil all of them have   *)
(* it, and when DeleteProps, called with the same reader, returns nil none    *)
(* has.                                                                       *)
PropsFollowReader ==
    /\ has \subseteq ToSet(found)
    /\ err = "nil" => has = (IF pc = "returned" THEN ToSet(found) ELSE {})
=============================================================================
