------------------------------ MODULE ItemTasks -------------------------------
(* The loop that deletes, moves, copies and sets properties share: a producer *)
(* reads the items of a list, and a runner's threads send a request for each  *)
(* of them.  The errors queue keeps one error; nothing stops at an error.     *)
EXTENDS SearchResults

CONSTANT Threads

ASSUME ThreadsAssumption == Threads \in Nat \ {0}

VARIABLES
    list,      \* the items, with what their tasks need
    next,      \* the next item a thread takes
    running,   \* the items whose task a thread runs
    succeeded, \* the sum of the threads' success counters
    failed     \* whether errorsQueue has an error

tasks == <<list, next, running, succeeded, failed>>

Begins(items) ==
    list' = items /\ next' = 1 /\ running' = {} /\ succeeded' = 0 /\ failed' = FALSE

Take ==
    /\ next <= Len(list) /\ Cardinality(running) < Threads
    /\ next' = next + 1 /\ running' = running \cup {next}
    /\ UNCHANGED <<list, succeeded, failed>>

Ends(i) == i \in running /\ running' = running \ {i} /\ UNCHANGED <<list, next>>

Succeeds(i) == Ends(i) /\ succeeded' = succeeded + 1 /\ UNCHANGED failed

\* The task returns nil without counting.
Uncounted(i) == Ends(i) /\ UNCHANGED <<succeeded, failed>>

Fails(i) == Ends(i) /\ failed' = TRUE /\ UNCHANGED succeeded

(* Reading the list fails: the rest of it has no tasks, and there is an error.*)
ProducerFails ==
    /\ next <= Len(list)
    /\ list' = SubSeq(list, 1, next - 1) /\ failed' = TRUE
    /\ UNCHANGED <<next, running, succeeded>>

AllEnded == next > Len(list) /\ running = {}

Unfinished == running \cup next .. Len(list)
=============================================================================
