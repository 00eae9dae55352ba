--------------------------- MODULE MoveCopyService ----------------------------
(* artifactory/services/movecopy.go: the specs' items are searched one spec   *)
(* after the other and, for patterns, reduced; all of them are merged, each   *)
(* with the number of its spec; for a move the whole is reduced once more,    *)
(* since a moved folder takes along what is below it.                         *)
(*                                                                            *)
(* Where an item lands is abstracted to the spec whose target it is.          *)
EXTENDS ItemTasks

CONSTANTS SpecLists, \* the specs of a call: sequences of [type, flat, into, found]
          MayLose    \* whether a merge may end early because of a read error

(* type is "pattern" or "direct" (AQL and builds); flat, or a pattern whose   *)
(* placeholders the target uses; into: the destination of a folder ends with  *)
(* "/"; found is what the server finds.                                       *)

VARIABLES
    tree,      \* the items on the server
    moveType,  \* "move" or "copy"
    dryRun,
    specs,
    pc,
    readers,   \* moveReaders
    prepared,  \* the running folder tasks that are done with their path
    placed,    \* <<path, s>>: the item was put at the target of spec s
    lost,      \* history: a read error that was taken for the end of a reader
    err

input == <<moveType, dryRun, specs>>
vars == <<tree, input, pc, readers, tasks, prepared, placed, lost, err>>

TypeOK ==
    /\ moveType \in {"move", "copy"} /\ dryRun \in BOOLEAN /\ specs \in SpecLists
    /\ pc \in {"search", "move", "done"}
    /\ Len(readers) <= Len(specs)
    /\ prepared \subseteq running
    /\ \A p \in placed : p[2] \in DOMAIN specs
    /\ err \in {"none", "nil", "err", "failures"}

Init ==
    /\ moveType \in {"move", "copy"} /\ dryRun \in BOOLEAN /\ specs \in SpecLists
    /\ tree = UNION {specs[s].found : s \in DOMAIN specs}
    /\ pc = "search" /\ readers = <<>>
    /\ list = <<>> /\ next = 1 /\ running = {} /\ succeeded = 0 /\ failed = FALSE
    /\ prepared = {} /\ placed = {} /\ lost = FALSE /\ err = "none"

Return(e) == pc' = "done" /\ err' = e

-----------------------------------------------------------------------------
(* reduceMovePaths: a target that does not keep the path takes the items      *)
(* themselves, not the folders that lead to them.                             *)
ReduceMovePaths(items, flat) ==
    LET buffers == SortedBuffers(items, ~flat)
    IN {[items |-> IF flat THEN ReduceBottomChain(seen) ELSE ReduceTopChain(seen),
         lost |-> seen # buffers] : seen \in Readable(buffers, MayLose)}

AsTheyAre(items) == {[items |-> items, lost |-> FALSE]}

(* getPathsToMove: a pattern's results, folders included, are reduced; those  *)
(* of a build or an AQL query are not.                                        *)
GetPathsToMove ==
    /\ pc = "search" /\ Len(readers) < Len(specs)
    /\ LET spec == specs[Len(readers) + 1]
           found == InOrder(spec.found)
       IN \E r \in IF spec.type = "pattern" THEN ReduceMovePaths(found, spec.flat) ELSE AsTheyAre(found) :
            readers' = Append(readers, r.items) /\ lost' = (lost \/ r.lost)
    /\ UNCHANGED <<tree, input, pc, tasks, prepared, placed, err>>

\* A search, a reduction or the merge of the readers fails: nothing is moved.
SearchFails ==
    /\ pc = "search"
    /\ Return("err")
    /\ UNCHANGED <<tree, input, readers, tasks, prepared, placed, lost>>

\* mergeReaders: each item keeps the number of its spec.
Merged ==
    LET OfSpec(s) == [n \in DOMAIN readers[s] |->
                        [path |-> readers[s][n].path, type |-> readers[s][n].type, spec |-> s]]
    IN FoldLeft(LAMBDA all, s : all \o OfSpec(s), <<>>, [s \in DOMAIN readers |-> s])

\* Changed: what is moved is not reduced as a whole.
MergeReadersOnly ==
    /\ pc = "search" /\ Len(readers) = Len(specs)
    /\ Begins(Merged)
    /\ pc' = "move"
    /\ UNCHANGED <<tree, input, readers, prepared, placed, lost, err>>

\* The merged readers and, for a move, what the last reduction leaves of them.
MergeReaders ==
    /\ pc = "search" /\ Len(readers) = Len(specs)
    /\ \E r \in IF moveType = "move" THEN ReduceMovePaths(Merged, FALSE) ELSE AsTheyAre(Merged) :
         Begins(r.items) /\ lost' = (lost \/ r.lost)
    /\ pc' = "move"
    /\ UNCHANGED <<tree, input, readers, prepared, placed, err>>

-----------------------------------------------------------------------------
(* moveFiles: the tasks of createMoveCopyFileHandlerFunc *)

UnchangedInTasks == <<input, pc, readers, lost, err>>

StartTask == pc = "move" /\ Take /\ UNCHANGED <<tree, prepared, placed, UnchangedInTasks>>

NeedsPath(i) == list[i].type = "folder" /\ specs[list[i].spec].into /\ i \notin prepared

(* A folder's destination that ends with "/" is created before the request;   *)
(* the server's refusal is only logged.                                       *)
CreatePath(i) ==
    /\ i \in running /\ NeedsPath(i)
    /\ prepared' = prepared \cup {i}
    /\ UNCHANGED <<tree, tasks, placed, UnchangedInTasks>>

Affected(i) == {item \in tree : IsPrefix(list[i].path, item.path)}

(* The server does what is asked: the item, with everything below it, is put  *)
(* at the target, and for a move it is gone where it was.                     *)
Carry(i) ==
    IF dryRun THEN UNCHANGED <<tree, placed>>
    ELSE /\ placed' = placed \cup {<<item.path, list[i].spec>> : item \in Affected(i)}
         /\ tree' = IF moveType = "move" THEN tree \ Affected(i) ELSE tree

Request(i) == i \in running /\ ~NeedsPath(i) /\ prepared' = prepared \ {i} /\ UNCHANGED UnchangedInTasks

MoveItem(i) ==
    /\ Request(i) /\ \E item \in tree : item.path = list[i].path
    /\ Carry(i) /\ Succeeds(i)

\* The server refuses: the status is logged and the task returns nil.
MoveRefused(i) == Request(i) /\ Uncounted(i) /\ UNCHANGED <<tree, placed>>

\* The request fails; it may have been carried out.
MoveFails(i) == Request(i) /\ Fails(i) /\ (Carry(i) \/ UNCHANGED <<tree, placed>>)

\* The destination cannot be built, or the request that creates it fails.
PathFails(i) ==
    /\ i \in running /\ i \notin prepared /\ Fails(i)
    /\ UNCHANGED <<tree, prepared, placed, UnchangedInTasks>>

ListFails == pc = "move" /\ ProducerFails /\ UNCHANGED <<tree, prepared, placed, UnchangedInTasks>>

(* performTasks, MoveCopyServiceMoveFilesWrapper: without an error, what was  *)
(* not counted as success is an error of its own.                             *)
Finish ==
    /\ pc = "move" /\ AllEnded
    /\ Return(IF failed THEN "err" ELSE IF succeeded < Len(list) THEN "failures" ELSE "nil")
    /\ UNCHANGED <<tree, input, readers, tasks, prepared, placed, lost>>

Task == \E i \in running : CreatePath(i) \/ MoveItem(i) \/ MoveRefused(i) \/ MoveFails(i) \/ PathFails(i)

Next ==
    \/ GetPathsToMove \/ SearchFails \/ MergeReaders
    \/ StartTask \/ Task \/ ListFails \/ Finish

Spec == Init /\ [][Next]_vars

-----------------------------------------------------------------------------
(* Properties *)

FilesFound(s) == {item \in specs[s].found : item.type = "file"}

(* A nil error means that every file a spec found was copied to that spec's   *)
(* target, and, for a move, that it is gone where it was and was put in one   *)
(* place only: the target of a spec that found it or a folder above it.       *)
NilMeansPlaced ==
    err = "nil" /\ ~lost /\ ~dryRun =>
        \A s \in DOMAIN specs : \A file \in FilesFound(s) :
            IF moveType = "copy" THEN <<file.path, s>> \in placed
            ELSE /\ file \notin tree
                 /\ \E t \in DOMAIN specs :
                      /\ {p \in placed : p[1] = file.path} = {<<file.path, t>>}
                      /\ \E item \in specs[t].found : IsPrefix(item.path, file.path)

(* No request moves what another request is still to move, whatever the       *)
(* threads' order: a task finds its item.                                     *)
MovesFindTheirItem ==
    pc = "move" => \A i \in Unfinished : \E item \in tree : item.path = list[i].path
=============================================================================
