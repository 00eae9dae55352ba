-------------------------- MODULE ItemServices_proofs -------------------------
(* For every repository, list of specs, limit, size of the buffers and number *)
(* of threads: a task of DeleteService or MoveCopyService finds its item, and *)
(* nil means that what was found is gone, or is where it should be; the       *)
(* properties follow the reader through SetProps and DeleteProps; and no LFS  *)
(* file that is referenced is deleted.                                        *)
(*                                                                            *)
(* SearchResults_proofs has what is proved of the sorted lists, their merges  *)
(* and their reductions.                                                      *)
EXTENDS ItemServices, SearchResults_proofs

-----------------------------------------------------------------------------
(* The operators of the services are those of SearchResults                   *)

LEMMA DeleteOperators ==
    /\ \A S : D!InOrder(S) = InOrder(S) /\ D!SetToSeqs(S) = SetToSeqs(S) /\ D!ToSet(S) = ToSet(S)
    /\ \A S : D!Cardinality(S) = Cardinality(S)
    /\ \A s, S : D!Only(s, S) = Only(s, S)
    /\ \A s, t : D!IsPrefix(s, t) = IsPrefix(s, t) /\ D!Less(s, t) = Less(s, t)
    /\ \A item : /\ D!GetItemRelativePath(item) = GetItemRelativePath(item)
                 /\ D!GetItemRelativeLocation(item) = GetItemRelativeLocation(item)
                 /\ D!IsRepoRoot(item) = IsRepoRoot(item)
    /\ \A items : D!RelativePaths(items) = RelativePaths(items)
    /\ \A n, S : D!kSubset(n, S) = kSubset(n, S)
<1>1. ASSUME NEW S PROVE D!InOrder(S) = InOrder(S)
  BY DEF D!InOrder, InOrder, D!FoldSet, FoldSet, D!MapThenFoldSet, MapThenFoldSet
<1>2. ASSUME NEW S PROVE D!Cardinality(S) = Cardinality(S)
  BY DEF D!Cardinality, Cardinality
<1>3. ASSUME NEW S PROVE D!SetToSeqs(S) = SetToSeqs(S)
  BY DEF D!SetToSeqs, SetToSeqs, D!Cardinality, Cardinality
<1>4. ASSUME NEW S PROVE D!ToSet(S) = ToSet(S)
  BY DEF D!ToSet, ToSet
<1>5. ASSUME NEW s, NEW S PROVE D!Only(s, S) = Only(s, S)
  BY DEF D!Only, Only, D!FoldLeft, FoldLeft, D!MapThenFoldSet, MapThenFoldSet, D!Max, Max
<1>6. ASSUME NEW s, NEW t PROVE D!IsPrefix(s, t) = IsPrefix(s, t)
  BY DEF D!IsPrefix, IsPrefix
<1>7. ASSUME NEW s, NEW t PROVE D!Less(s, t) = Less(s, t)
  BY DEF D!Less, Less
<1>8. ASSUME NEW item PROVE D!GetItemRelativePath(item) = GetItemRelativePath(item)
  BY DEF D!GetItemRelativePath, GetItemRelativePath, D!WithSuffix, WithSuffix, D!Text, Text,
         D!FoldLeft, FoldLeft, D!MapThenFoldSet, MapThenFoldSet, D!Max, Max
<1>9. ASSUME NEW item PROVE D!GetItemRelativeLocation(item) = GetItemRelativeLocation(item)
  BY DEF D!GetItemRelativeLocation, GetItemRelativeLocation, D!WithSuffix, WithSuffix, D!Text, Text,
         D!FoldLeft, FoldLeft, D!MapThenFoldSet, MapThenFoldSet, D!Max, Max, D!Front, Front
<1>10. ASSUME NEW item PROVE D!IsRepoRoot(item) = IsRepoRoot(item)
  BY DEF D!IsRepoRoot, IsRepoRoot
<1>11. ASSUME NEW items PROVE D!RelativePaths(items) = RelativePaths(items)
  BY DEF D!RelativePaths, RelativePaths, D!GetItemRelativePath, GetItemRelativePath, D!WithSuffix, WithSuffix,
         D!Text, Text, D!FoldLeft, FoldLeft, D!MapThenFoldSet, MapThenFoldSet, D!Max, Max, D!ToSet, ToSet
<1>12. ASSUME NEW n, NEW S PROVE D!kSubset(n, S) = kSubset(n, S)
  BY DEF D!kSubset, kSubset, D!Cardinality, Cardinality
<1> QED BY <1>1, <1>2, <1>3, <1>4, <1>5, <1>6, <1>7, <1>8, <1>9, <1>10, <1>11, <1>12

LEMMA DeleteSorting ==
    /\ \A items, key, ascending : D!SplitAndSort(items, key, ascending) = SplitAndSort(items, key, ascending)
    /\ \A items, ascending : D!SortedBuffers(items, ascending) = SortedBuffers(items, ascending)
    /\ \A rs : D!MergeSortedReaders(rs) = MergeSortedReaders(rs) /\ D!ReduceTopChain(rs) = ReduceTopChain(rs)
    /\ \A rs, mayLose : D!Readable(rs, mayLose) = Readable(rs, mayLose)
<1>1. ASSUME NEW items, NEW key, NEW ascending
      PROVE  D!SplitAndSort(items, key, ascending) = SplitAndSort(items, key, ascending)
  BY DEF D!SplitAndSort, SplitAndSort, D!SortAndSave, SortAndSave, D!Before, Before, D!SetToSeqs, SetToSeqs,
         D!ToSet, ToSet, D!FoldLeft, FoldLeft, D!MapThenFoldSet, MapThenFoldSet, D!Max, Max,
         D!Less, Less, D!Cardinality, Cardinality
<1>2. ASSUME NEW items PROVE D!SortKeys(items) = SortKeys(items)
  BY DEF D!SortKeys, SortKeys, D!GetSortKey, GetSortKey, D!WithSuffix, WithSuffix, D!Text, Text,
         D!FoldLeft, FoldLeft, D!MapThenFoldSet, MapThenFoldSet, D!Max, Max, D!ToSet, ToSet
<1>3. ASSUME NEW items, NEW ascending PROVE D!SortedBuffers(items, ascending) = SortedBuffers(items, ascending)
  BY <1>1, <1>2 DEF D!SortedBuffers, SortedBuffers
<1>4. ASSUME NEW rs, NEW ascending, NEW once PROVE D!Merge(rs, ascending, once) = Merge(rs, ascending, once)
  BY ZenonT(60) DEF D!Merge, Merge, D!Before, Before, D!FoldLeft, FoldLeft, D!MapThenFoldSet, MapThenFoldSet, D!Max, Max,
         D!Less, Less, D!Cardinality, Cardinality, D!GetSortKey, GetSortKey, D!WithSuffix, WithSuffix,
         D!Text, Text
<1>5. ASSUME NEW items PROVE D!FilterTopChainResults(items) = FilterTopChainResults(items)
  BY DEF D!FilterTopChainResults, FilterTopChainResults, D!FoldLeft, FoldLeft, D!MapThenFoldSet, MapThenFoldSet,
         D!Max, Max, D!IsRepoRoot, IsRepoRoot, D!IsPrefix, IsPrefix, D!GetSortKey, GetSortKey,
         D!WithSuffix, WithSuffix, D!Text, Text
<1>6. ASSUME NEW rs PROVE D!MergeSortedReaders(rs) = MergeSortedReaders(rs) /\ D!ReduceTopChain(rs) = ReduceTopChain(rs)
  BY <1>4, <1>5 DEF D!MergeSortedReaders, MergeSortedReaders, D!ReduceTopChain, ReduceTopChain
<1>7. ASSUME NEW rs, NEW mayLose PROVE D!Readable(rs, mayLose) = Readable(rs, mayLose)
  BY DEF D!Readable, Readable
<1> QED BY <1>1, <1>3, <1>6, <1>7

LEMMA MoveOperators ==
    /\ \A S : M!InOrder(S) = InOrder(S)
    /\ \A items, ascending : M!SortedBuffers(items, ascending) = SortedBuffers(items, ascending)
    /\ \A rs : M!ReduceTopChain(rs) = ReduceTopChain(rs) /\ M!ReduceBottomChain(rs) = ReduceBottomChain(rs)
    /\ \A rs, mayLose : M!Readable(rs, mayLose) = Readable(rs, mayLose)
    /\ \A s, t : M!IsPrefix(s, t) = IsPrefix(s, t)
<1>1. ASSUME NEW items, NEW key, NEW ascending
      PROVE  M!SplitAndSort(items, key, ascending) = SplitAndSort(items, key, ascending)
  BY DEF M!SplitAndSort, SplitAndSort, M!SortAndSave, SortAndSave, M!Before, Before, M!SetToSeqs, SetToSeqs,
         M!ToSet, ToSet, M!FoldLeft, FoldLeft, M!MapThenFoldSet, MapThenFoldSet, M!Max, Max,
         M!Less, Less, M!Cardinality, Cardinality
<1>2. ASSUME NEW items PROVE M!SortKeys(items) = SortKeys(items)
  BY DEF M!SortKeys, SortKeys, M!GetSortKey, GetSortKey, M!WithSuffix, WithSuffix, M!Text, Text,
         M!FoldLeft, FoldLeft, M!MapThenFoldSet, MapThenFoldSet, M!Max, Max, M!ToSet, ToSet
<1>3. ASSUME NEW items, NEW ascending PROVE M!SortedBuffers(items, ascending) = SortedBuffers(items, ascending)
  BY <1>1, <1>2 DEF M!SortedBuffers, SortedBuffers
<1>4. ASSUME NEW rs, NEW ascending, NEW once PROVE M!Merge(rs, ascending, once) = Merge(rs, ascending, once)
  BY ZenonT(60) DEF M!Merge, Merge, M!Before, Before, M!FoldLeft, FoldLeft, M!MapThenFoldSet, MapThenFoldSet, M!Max, Max,
         M!Less, Less, M!Cardinality, Cardinality, M!GetSortKey, GetSortKey, M!WithSuffix, WithSuffix,
         M!Text, Text
<1>5. ASSUME NEW items PROVE M!FilterTopChainResults(items) = FilterTopChainResults(items)
  BY DEF M!FilterTopChainResults, FilterTopChainResults, M!FoldLeft, FoldLeft, M!MapThenFoldSet, MapThenFoldSet,
         M!Max, Max, M!IsRepoRoot, IsRepoRoot, M!IsPrefix, IsPrefix, M!GetSortKey, GetSortKey,
         M!WithSuffix, WithSuffix, M!Text, Text
<1>6. ASSUME NEW items PROVE M!FilterBottomChainResults(items) = FilterBottomChainResults(items)
  BY DEF M!FilterBottomChainResults, FilterBottomChainResults, M!FoldLeft, FoldLeft, M!MapThenFoldSet, MapThenFoldSet,
         M!Max, Max, M!IsRepoRoot, IsRepoRoot, M!IsPrefix, IsPrefix, M!WithSuffix, WithSuffix, M!Text, Text
<1>7. ASSUME NEW rs PROVE M!ReduceTopChain(rs) = ReduceTopChain(rs) /\ M!ReduceBottomChain(rs) = ReduceBottomChain(rs)
  BY <1>4, <1>5, <1>6 DEF M!ReduceBottomChain, ReduceBottomChain, M!ReduceTopChain, ReduceTopChain
<1>8. ASSUME NEW rs, NEW mayLose PROVE M!Readable(rs, mayLose) = Readable(rs, mayLose)
  BY DEF M!Readable, Readable
<1>9. ASSUME NEW S PROVE M!InOrder(S) = InOrder(S)
  BY DEF M!InOrder, InOrder, M!FoldSet, FoldSet, M!MapThenFoldSet, MapThenFoldSet
<1>10. ASSUME NEW s, NEW t PROVE M!IsPrefix(s, t) = IsPrefix(s, t)
  BY DEF M!IsPrefix, IsPrefix
<1> QED BY <1>3, <1>7, <1>8, <1>9, <1>10

-----------------------------------------------------------------------------
(* What a search returns, and where its items are                             *)

\* What a search returns: the folders of a set in any order, and its files.
LEMMA ResultShape ==
    ASSUME NEW S, IsFiniteSet(S), NEW f \in D!Results(S)
    PROVE  \E T \in SUBSET S : \E h \in SetToSeqs(D!FoldersOf(T)) :
               f = h \o InOrder(D!FilesOf(T)) /\ (Limit = 0 => T = S)
<1> DEFINE size == IF Limit = 0 \/ Cardinality(S) <= Limit THEN Cardinality(S) ELSE Limit
<1>1. f \in UNION {{h \o D!InOrder(D!FilesOf(T)) : h \in D!SetToSeqs(D!FoldersOf(T))} : T \in kSubset(size, S)}
  <2>1. D!Cardinality(S) = Cardinality(S)
    BY DeleteOperators
  <2>2. D!kSubset(size, S) = kSubset(size, S)
    BY DeleteOperators
  <2> QED BY <2>1, <2>2 DEF D!Results
<1>2. Limit = 0 => size = Cardinality(S)
  OBVIOUS
<1> HIDE DEF size
<1>3. PICK T \in kSubset(size, S) : \E h \in D!SetToSeqs(D!FoldersOf(T)) : f = h \o D!InOrder(D!FilesOf(T))
  BY <1>1
<1>4. T \in SUBSET S /\ Cardinality(T) = size
  BY <1>3 DEF kSubset
<1>5. Limit = 0 => T = S
  BY <1>2, <1>4, FS_Subset
<1>6. D!SetToSeqs(D!FoldersOf(T)) = SetToSeqs(D!FoldersOf(T)) /\ D!InOrder(D!FilesOf(T)) = InOrder(D!FilesOf(T))
  BY DeleteOperators
<1> QED BY <1>3, <1>4, <1>5, <1>6

LEMMA ResultsAre ==
    ASSUME NEW S, IsFiniteSet(S), NEW f \in D!Results(S)
    PROVE  f \in Seq(S)
<1>1. PICK T \in SUBSET S :
        \E h \in SetToSeqs(D!FoldersOf(T)) : f = h \o InOrder(D!FilesOf(T))
  BY ResultShape
<1>2. PICK h \in SetToSeqs(D!FoldersOf(T)) : f = h \o InOrder(D!FilesOf(T))
  BY <1>1
<1>3. /\ D!FilesOf(T) \in SUBSET S /\ D!FoldersOf(T) \in SUBSET S
      /\ IsFiniteSet(D!FilesOf(T)) /\ IsFiniteSet(D!FoldersOf(T))
  <2>1. D!FilesOf(T) \in SUBSET S /\ D!FoldersOf(T) \in SUBSET S
    BY DEF D!FilesOf, D!FoldersOf
  <2> QED BY <2>1, FS_Subset
<1>4. InOrder(D!FilesOf(T)) \in Seq(S)
  BY <1>3, InOrderLists, SeqMonotonic
<1>5. h \in Seq(S)
  <2>1. h \in [1 .. Cardinality(D!FoldersOf(T)) -> D!FoldersOf(T)]
    BY <1>2 DEF SetToSeqs
  <2>2. Cardinality(D!FoldersOf(T)) \in Nat
    BY <1>3, FS_CardinalityType
  <2>3. h \in Seq(D!FoldersOf(T))
    BY <2>1, <2>2
  <2> QED BY <1>3, <2>3, SeqMonotonic
<1> QED BY <1>2, <1>4, <1>5

-----------------------------------------------------------------------------
(* The invariant of DeleteService, for the tree T that the call has found.    *)
(* Everything found is on its way to the list of deletions, or spared; the    *)
(* list's items are still there until their task has run.                     *)

LEMMA TreeIs == ASSUME NEW T \in Trees PROVE IsFiniteSet(T) /\ (\A x \in T : IsItem(x)) /\ FitPaths(T)
BY TreesAssumption, FitIs

Ended == (1 .. next - 1) \ running

DeleteTypes(T) ==
    /\ pc \in {"search", "filter", "protected", "merge", "scan", "reduce", "delete", "done"}
    /\ kind \in {"wildcard", "aql", "build"}
    /\ kind # "wildcard" => pc \in {"search", "delete", "done"}
    /\ pc # "done" => err = "none"
    /\ tree \subseteq T /\ (pc \notin {"delete", "done"} => tree = T)
    /\ protected \subseteq {x \in T : x.type = "file"}
    /\ found \in Seq(T) /\ candidates \in Seq(Seq(Folders(T))) /\ guards \in Seq(protected)
    /\ dirs \in Seq(Folders(T)) /\ out \in Seq(T)

DeleteTasks(T) ==
    /\ list \in Seq(T) /\ next \in 1 .. Len(list) + 1 /\ running \subseteq 1 .. next - 1
    /\ pc # "delete" => running = {}
    /\ failed \in BOOLEAN /\ dryRun \in BOOLEAN /\ succeeded \in Nat

\* What may stay.
Stays(x) == x.type = "folder" /\ (IsRepoRoot(x) \/ D!Spared(x))

\* x goes with an item of the list.
Goes(x) == \E n \in 1 .. Len(list) : IsPrefix(list[n].path, x.path)

IsCandidate(x) == \E i \in DOMAIN candidates : \E j \in DOMAIN candidates[i] : candidates[i][j] = x

Gathered ==
    \A x \in ToSet(found) :
        /\ pc \in {"protected", "merge"} => x \in ToSet(out) \/ IsCandidate(x) \/ Stays(x)
        /\ pc = "scan" /\ ~lost => x \in ToSet(out) \/ x \in ToSet(dirs) \/ Stays(x)
        /\ pc = "reduce" /\ ~lost => x \in ToSet(out) \/ Stays(x)
        /\ pc = "delete" /\ ~lost /\ ~failed => Goes(x) \/ (kind = "wildcard" /\ Stays(x))

Deleted ==
    /\ dryRun => succeeded = 0
    /\ pc = "delete" /\ ~failed /\ ~dryRun =>
          /\ succeeded + Cardinality(running) = next - 1
          /\ \A i \in Ended : \A x \in tree : ~IsPrefix(list[i].path, x.path)

Targets ==
    pc = "delete" /\ kind = "wildcard" => Clear(list) /\ \A i \in Unfinished : list[i] \in tree

DeleteInv(T) ==
    /\ DeleteTypes(T) /\ DeleteTasks(T) /\ Gathered /\ Deleted /\ Targets
    /\ D!NilMeansGone

LEMMA NotNilYet == ASSUME NEW T, DeleteTypes(T), pc # "done" PROVE D!NilMeansGone
BY DEF DeleteTypes, D!NilMeansGone

LEMMA DeleteInitially == ASSUME D!Init PROVE tree \in Trees /\ DeleteInv(tree)
<1>1. <<>> \in Seq(tree) /\ <<>> \in Seq(protected) /\ Len(<<>>) = 0
      /\ <<>> \in Seq(Folders(tree)) /\ <<>> \in Seq(Seq(Folders(tree)))
  OBVIOUS
<1>2. DeleteTypes(tree)
  <2>1. protected \subseteq {x \in tree : x.type = "file"}
    BY DEF D!Init, D!FilesOf
  <2> QED BY <1>1, <2>1 DEF D!Init, DeleteTypes
<1>3. DeleteTasks(tree)
  <2>1. list \in Seq(tree) /\ Len(list) = 0 /\ next = 1 /\ running = {} /\ succeeded = 0
    BY <1>1 DEF D!Init
  <2>2. failed \in BOOLEAN /\ dryRun \in BOOLEAN
    BY Zenon DEF D!Init
  <2>3. next \in 1 .. Len(list) + 1 /\ running \subseteq 1 .. next - 1 /\ succeeded \in Nat /\ running = {}
    BY <2>1
  <2> QED BY <2>1, <2>2, <2>3 DEF DeleteTasks
<1>4. Gathered /\ Deleted /\ Targets
  BY DEF D!Init, Gathered, Deleted, Targets
<1>5. D!NilMeansGone
  BY DEF D!Init, D!NilMeansGone
<1> QED BY <1>2, <1>3, <1>4, <1>5 DEF D!Init, DeleteInv

\* Steps before the deletion leave the tasks alone.
LEMMA NoTasksYet ==
    ASSUME NEW T, DeleteInv(T), pc # "done", pc # "delete", UNCHANGED <<list, next, running, succeeded, failed, dryRun>>,
           pc' # "delete", DeleteTypes(T)', pc' # "done" \/ err' # "nil"
    PROVE  DeleteTasks(T)' /\ Deleted' /\ Targets' /\ (D!NilMeansGone)'
<1>1. DeleteTasks(T)' /\ Deleted' /\ Targets'
  BY DEF DeleteInv, DeleteTasks, Deleted, Targets
<1>2. (D!NilMeansGone)'
  BY DEF DeleteTypes, D!NilMeansGone
<1> QED BY <1>1, <1>2

LEMMA SpecSearchKept == ASSUME NEW T \in Trees, DeleteInv(T), D!Search PROVE DeleteInv(T)'
<1>1. /\ pc = "search" /\ kind = "wildcard" /\ found' \in D!Results(tree \ protected)
      /\ \/ pc' = "filter" /\ out' = out
         \/ pc' = "reduce" /\ out' = found'
      /\ UNCHANGED <<tree, kind, dryRun, protected, candidates, guards, dirs, list, next, running, succeeded, failed, lost, err>>
  BY DEF D!Search, D!input, D!tasks
<1>2. tree = T
  BY <1>1 DEF DeleteInv, DeleteTypes
<1>3. found' \in Seq(T)
  <2>1. IsFiniteSet(T \ protected)
    BY TreeIs, FS_Subset
  <2>2. found' \in Seq(T \ protected)
    BY <1>1, <1>2, <2>1, ResultsAre
  <2> QED BY <2>2, SeqMonotonic
<1>4. DeleteTypes(T)'
  BY <1>1, <1>2, <1>3 DEF DeleteInv, DeleteTypes
<1>5. DeleteTasks(T)' /\ Deleted' /\ Targets' /\ (D!NilMeansGone)'
  BY <1>1, <1>4, NoTasksYet
<1>6. Gathered'
  BY <1>1 DEF Gathered
<1> QED BY <1>4, <1>5, <1>6 DEF DeleteInv

LEMMA DirectSearchKept == ASSUME NEW T \in Trees, DeleteInv(T), D!SearchDirectly PROVE DeleteInv(T)'
<1>1. PICK S \in SUBSET tree : found' = InOrder(S) /\ D!Begins(found')
  BY DeleteOperators DEF D!SearchDirectly, D!FilesOf
<1>2. /\ pc = "search" /\ kind # "wildcard" /\ pc' = "delete"
      /\ list' = found' /\ next' = 1 /\ running' = {} /\ succeeded' = 0 /\ failed' = FALSE
      /\ UNCHANGED <<tree, kind, dryRun, protected, candidates, guards, dirs, out, lost, err>>
  BY <1>1 DEF D!SearchDirectly, D!Begins, D!input
<1>3. tree = T
  BY <1>2 DEF DeleteInv, DeleteTypes
<1>4. found' \in Seq(T)
  <2>1. IsFiniteSet(S)
    BY <1>3, TreeIs, FS_Subset
  <2> QED BY <1>1, <1>3, <2>1, InOrderLists, SeqMonotonic
<1>5. DeleteTypes(T)'
  BY <1>2, <1>3, <1>4 DEF DeleteInv, DeleteTypes
<1>6. DeleteTasks(T)'
  <2>1. Len(list') \in Nat /\ 1 \in 1 .. Len(list') + 1
    BY <1>2, <1>4
  <2> QED BY <1>2, <1>4, <2>1 DEF DeleteInv, DeleteTasks
<1>7. Gathered'
  <2>1. \A x \in ToSet(found') : Goes(x)'
    <3>1. ASSUME NEW x \in ToSet(found') PROVE \E n \in 1 .. Len(found') : IsPrefix(found'[n].path, x.path)
      <4>1. PICK n \in DOMAIN found' : found'[n] = x
        BY DEF ToSet
      <4>2. n \in 1 .. Len(found') /\ x \in T
        BY <1>4, <4>1
      <4>3. IsPrefix(x.path, x.path)
        BY <4>2, TreeIs, PrefixItself DEF IsItem
      <4> QED BY <4>1, <4>2, <4>3
    <3> QED BY <1>2, <3>1 DEF Goes
  <2>2. ToSet(found)' = ToSet(found')
    BY DEF ToSet
  <2> QED BY <1>2, <2>1, <2>2 DEF Gathered
<1>8. Deleted'
  <2>1. Cardinality({}) = 0
    BY FS_EmptySet
  <2>2. (1 .. 1 - 1) \ {} = {}
    OBVIOUS
  <2> QED BY <1>2, <2>1, <2>2 DEF Deleted, Ended
<1>9. Targets'
  BY <1>2 DEF Targets
<1>10. (D!NilMeansGone)'
  BY <1>2, <1>5 DEF DeleteTypes, D!NilMeansGone
<1> QED BY <1>5, <1>6, <1>7, <1>8, <1>9, <1>10 DEF DeleteInv

\* An error before the deletion.
LEMMA SearchErrorKept ==
    ASSUME NEW T, DeleteInv(T), D!BuildSearchFails \/ D!SearchFails
    PROVE  DeleteInv(T)'
<1>1. /\ pc # "done" /\ pc # "delete" /\ pc' = "done" /\ err' \in {"err", "panic"}
      /\ UNCHANGED <<tree, kind, dryRun, protected, found, candidates, guards, dirs, out, list, next, running,
                     succeeded, failed, lost>>
  BY DEF D!BuildSearchFails, D!SearchFails, D!Return, D!input, D!search, D!tasks
<1>2. DeleteTypes(T)'
  BY <1>1 DEF DeleteInv, DeleteTypes
<1>3. DeleteTasks(T)' /\ Deleted' /\ Targets' /\ (D!NilMeansGone)'
  BY <1>1, <1>2, NoTasksYet
<1>4. Gathered'
  BY <1>1 DEF Gathered
<1> QED BY <1>2, <1>3, <1>4 DEF DeleteInv

-----------------------------------------------------------------------------
(* The candidates, the guards, and their scan                                 *)

LEMMA TreeItems == ASSUME NEW T \in Trees PROVE T \subseteq Item
BY TreesAssumption

LEMMA CandidatesAre ==
    ASSUME NEW T \in Trees, NEW s \in Seq({x \in T : x.type = "folder" /\ ~IsRepoRoot(x)})
    PROVE  LET r == Sorted(s)
           IN  /\ r \in Seq(Seq(ToSet(s))) /\ \A i \in DOMAIN r : PathsRise(r[i])
               /\ \A x \in ToSet(s) : \E i \in DOMAIN r : \E j \in DOMAIN r[i] : r[i][j] = x
               /\ Len(s) <= BufferSize => Len(r) <= 1
<1>1. \A x \in ToSet(s) : x \in Item /\ IsItem(x) /\ x.type = "folder" /\ ~IsRepoRoot(x)
  BY TreeItems, TreeIs, SeqOfElements
<1>2. \A x \in ToSet(s) : GetItemRelativePath(x) \in Texts
  BY <1>1, RelativePathIs
<1>3. \A x, y \in ToSet(s) : GetItemRelativePath(x) = GetItemRelativePath(y) => x = y
  BY <1>1, RelativePathApart, SameItem
<1> QED BY <1>2, <1>3, SplitKeeps

LEMMA GuardsAre ==
    ASSUME NEW T \in Trees, NEW s \in Seq({x \in T : x.type = "file"})
    PROVE  LET r == Sorted(s)
           IN  /\ r \in Seq(Seq(ToSet(s))) /\ \A i \in DOMAIN r : PathsRise(r[i])
               /\ \A x \in ToSet(s) : \E i \in DOMAIN r : \E j \in DOMAIN r[i] : r[i][j] = x
               /\ Len(s) <= BufferSize => Len(r) <= 1
<1>1. \A x \in ToSet(s) : x \in Item /\ IsItem(x) /\ x.type = "file"
  BY TreeItems, TreeIs, SeqOfElements
<1>2. \A x \in ToSet(s) : GetItemRelativePath(x) = GetSortKey(x) /\ GetSortKey(x) \in Texts
  BY <1>1, KeyIs DEF GetItemRelativePath, GetSortKey
<1>3. \A x, y \in ToSet(s) : GetItemRelativePath(x) = GetItemRelativePath(y) => x = y
  BY <1>1, <1>2, KeyApart, SameItem
<1> QED BY <1>2, <1>3, SplitKeeps

LEMMA FoundKept ==
    ASSUME NEW T, DeleteInv(T), pc # "done", pc # "delete", pc' # "done", pc' # "delete",
           UNCHANGED <<tree, kind, dryRun, protected, found, err, list, next, running, succeeded, failed>>,
           kind = "wildcard",
           pc' \in {"search", "filter", "protected", "merge", "scan", "reduce"},
           candidates' \in Seq(Seq(Folders(T))), guards' \in Seq(protected), dirs' \in Seq(Folders(T)), out' \in Seq(T), Gathered'
    PROVE  DeleteInv(T)'
<1>1. DeleteTypes(T)'
  BY DEF DeleteInv, DeleteTypes
<1>2. DeleteTasks(T)' /\ Deleted' /\ Targets' /\ (D!NilMeansGone)'
  BY <1>1, NoTasksYet
<1> QED BY <1>1, <1>2 DEF DeleteInv

\* FilterCandidateToBeDeleted: every directory is a candidate, everything else a result.
LEMMA CandidatesKept == ASSUME NEW T \in Trees, DeleteInv(T), D!Filter PROVE DeleteInv(T)'
<1> DEFINE H == {x \in ToSet(found) : x.type = "folder" /\ ~IsRepoRoot(x)}
           folders == Only(found, H)
<1>1. found \in Seq(T) /\ ToSet(found) \subseteq T
  BY SeqOfElements DEF DeleteInv, DeleteTypes
<1>2. \A x \in ToSet(found) : IsItem(x) /\ x.type \in {"file", "folder"}
  BY <1>1, TreeIs DEF IsItem
<1>3. /\ pc = "filter" /\ candidates' = Sorted(folders)
      /\ out' = Only(found, {x \in ToSet(found) : x.type = "file"})
      /\ pc' = IF candidates' = <<>> THEN "reduce" ELSE "protected"
      /\ UNCHANGED <<tree, kind, dryRun, protected, found, guards, dirs, list, next, running, succeeded, failed, lost, err>>
  <2>1. {x \in D!FoldersOf(D!ToSet(found)) : ~D!IsRepoRoot(x)} = H
    BY <1>2, DeleteOperators DEF D!FoldersOf, D!FilesOf
  <2>2. D!FilesOf(D!ToSet(found)) = {x \in ToSet(found) : x.type = "file"}
    BY DeleteOperators DEF D!FilesOf
  <2>3. D!SplitAndSort(folders, D!RelativePaths(folders), TRUE) = Sorted(folders)
    BY DeleteOperators, DeleteSorting, Zenon DEF Sorted
  <2> HIDE DEF H
  <2>4. candidates' = Sorted(folders) /\ out' = Only(found, {x \in ToSet(found) : x.type = "file"})
    BY <2>1, <2>2, <2>3, DeleteOperators DEF D!Filter
  <2> QED BY <2>4 DEF D!Filter, D!input, D!tasks
<1>4. folders \in Seq(T) /\ ToSet(folders) = H
  <2>1. Only(found, H) \in Seq(T) /\ ToSet(Only(found, H)) = ToSet(found) \cap H
    BY <1>1, OnlyIs
  <2> QED BY <2>1
<1>5. H \subseteq Folders(T)
  BY <1>1 DEF Folders
<1> HIDE DEF folders
<1>6. folders \in Seq(Folders(T))
  <2>1. folders \in Seq(H)
    BY <1>4, SeqOfElements
  <2> QED BY <1>5, <2>1, SeqMonotonic
<1>7. /\ candidates' \in Seq(Seq(H))
      /\ \A x \in H : \E i \in DOMAIN candidates' : \E j \in DOMAIN candidates'[i] : candidates'[i][j] = x
  BY <1>3, <1>4, <1>6, CandidatesAre DEF Folders
<1>8. candidates' \in Seq(Seq(Folders(T)))
  <2>1. Seq(H) \subseteq Seq(Folders(T))
    BY <1>5, SeqMonotonic
  <2> QED BY <1>7, <2>1, SeqMonotonic
<1>9. out' \in Seq(T) /\ ToSet(out') = {x \in ToSet(found) : x.type = "file"}
  <2>1. out' \in Seq(T) /\ ToSet(out') = ToSet(found) \cap {x \in ToSet(found) : x.type = "file"}
    BY <1>1, <1>3, OnlyIs
  <2> QED BY <2>1
<1>10. \A x \in ToSet(found) : x \in ToSet(out') \/ x \in H \/ Stays(x)
  BY <1>2, <1>9 DEF Stays
<1>11. candidates' = <<>> => H = {}
  BY <1>7
<1>12. Gathered'
  <2>1. ToSet(found)' = ToSet(found) /\ ToSet(out)' = ToSet(out')
    BY <1>3 DEF ToSet
  <2>2. ASSUME NEW x \in ToSet(found) PROVE (pc' = "reduce" => x \in ToSet(out') \/ Stays(x)) /\ (x \in ToSet(out') \/ IsCandidate(x)' \/ Stays(x))
    BY <1>3, <1>7, <1>10, <1>11 DEF IsCandidate
  <2>3. \A x : Stays(x)' = Stays(x)
    BY <1>3 DEF Stays, D!Spared
  <2> QED BY <1>3, <2>1, <2>2, <2>3 DEF Gathered
<1>13. kind = "wildcard"
  BY <1>3 DEF DeleteInv, DeleteTypes
<1>14. guards' \in Seq(protected) /\ dirs' \in Seq(Folders(T))
  BY <1>3 DEF DeleteInv, DeleteTypes
<1> QED BY <1>3, <1>8, <1>9, <1>12, <1>13, <1>14, FoundKept

\* getSortedArtifactsToNotDelete
LEMMA GuardsKept == ASSUME NEW T \in Trees, DeleteInv(T), D!SearchProtected PROVE DeleteInv(T)'
<1>1. PICK r \in D!Results(protected) :
        LET readers0 == Sorted(r)
        IN \E seen \in Readable(readers0, MayLose) :
             guards' = MergeSortedReaders(seen) /\ lost' = (lost \/ seen # readers0)
  <2>1. \A r : D!SplitAndSort(r, D!RelativePaths(r), TRUE) = Sorted(r)
    BY DeleteOperators, DeleteSorting, Zenon DEF Sorted
  <2> QED BY <2>1, DeleteSorting DEF D!SearchProtected
<1>2. PICK seen \in Readable(Sorted(r), MayLose) :
        guards' = MergeSortedReaders(seen) /\ lost' = (lost \/ seen # Sorted(r))
  BY <1>1
<1>3. /\ pc = "protected" /\ pc' = "merge"
      /\ UNCHANGED <<tree, kind, dryRun, protected, found, candidates, dirs, out, list, next, running, succeeded, failed, err>>
  BY DEF D!SearchProtected, D!input, D!tasks
<1>4. protected \subseteq {x \in T : x.type = "file"} /\ kind = "wildcard"
  BY <1>3 DEF DeleteInv, DeleteTypes
<1>5. r \in Seq(protected)
  <2>1. IsFiniteSet(protected)
    <3>1. protected \subseteq T
      BY <1>4
    <3> QED BY <3>1, TreeIs, FS_Subset
  <2> QED BY <1>1, <2>1, ResultsAre
<1>6. Sorted(r) \in Seq(Seq(protected))
  <2>1. r \in Seq({x \in T : x.type = "file"})
    BY <1>4, <1>5, SeqMonotonic
  <2>2. Sorted(r) \in Seq(Seq(ToSet(r)))
    BY <2>1, GuardsAre
  <2>3. Seq(ToSet(r)) \subseteq Seq(protected)
    BY <1>5, SeqOfElements, SeqMonotonic
  <2> QED BY <2>2, <2>3, SeqMonotonic
<1>7. guards' \in Seq(protected)
  <2>1. seen \in Seq(Seq(protected))
    <3>1. \A ascending \in BOOLEAN : seen \in Seq(Seq(protected))
      BY <1>2, <1>6, ReadableIs
    <3> QED BY <3>1
  <2>2. \A x \in protected : IsItem(x)
    BY <1>4, TreeIs
  <2> QED BY <1>2, <2>1, <2>2, MergedIs
<1>8. Gathered'
  <2>1. ToSet(found)' = ToSet(found) /\ ToSet(out)' = ToSet(out)
    BY <1>3 DEF ToSet
  <2>2. \A x : Stays(x)' = Stays(x) /\ IsCandidate(x)' = IsCandidate(x)
    BY <1>3 DEF Stays, D!Spared, IsCandidate
  <2> QED BY <1>3, <2>1, <2>2 DEF DeleteInv, Gathered
<1>9. candidates' \in Seq(Seq(Folders(T))) /\ dirs' \in Seq(Folders(T)) /\ out' \in Seq(T)
  BY <1>3 DEF DeleteInv, DeleteTypes
<1> QED BY <1>3, <1>4, <1>7, <1>8, <1>9, FoundKept

LEMMA MergeDirsKept == ASSUME NEW T \in Trees, DeleteInv(T), D!MergeDirs PROVE DeleteInv(T)'
<1>1. PICK seen \in Readable(candidates, MayLose) :
        dirs' = MergeSortedReaders(seen) /\ lost' = (lost \/ seen # candidates)
  BY DeleteSorting DEF D!MergeDirs
<1>2. /\ pc = "merge" /\ pc' = "scan"
      /\ UNCHANGED <<tree, kind, dryRun, protected, found, candidates, guards, out, list, next, running, succeeded, failed, err>>
  BY DEF D!MergeDirs, D!input, D!tasks
<1>3. candidates \in Seq(Seq(Folders(T)))
  BY DEF DeleteInv, DeleteTypes
<1>4. seen \in Seq(Seq(Folders(T)))
  <2>1. \A ascending \in BOOLEAN : seen \in Seq(Seq(Folders(T)))
    BY <1>1, <1>3, ReadableIs
  <2> QED BY <2>1
<1>5. /\ dirs' \in Seq(Folders(T))
      /\ \A i \in DOMAIN seen : \A j \in DOMAIN seen[i] : \E k \in DOMAIN dirs' : dirs'[k] = seen[i][j]
  <2>1. \A x \in Folders(T) : IsItem(x)
    BY TreeIs DEF Folders
  <2> QED BY <1>1, <1>4, <2>1, MergedIs
<1>6. ASSUME ~lost', NEW x, IsCandidate(x) PROVE x \in ToSet(dirs')
  <2>1. PICK i \in DOMAIN seen : \E j \in DOMAIN seen[i] : seen[i][j] = x
    BY <1>1, <1>6 DEF IsCandidate
  <2>2. PICK j \in DOMAIN seen[i] : seen[i][j] = x
    BY <2>1
  <2>3. PICK k \in DOMAIN dirs' : dirs'[k] = x
    BY <1>5, <2>2
  <2> QED BY <2>3 DEF ToSet
<1>7. Gathered'
  <2>1. ToSet(found)' = ToSet(found) /\ ToSet(out)' = ToSet(out) /\ ToSet(dirs)' = ToSet(dirs')
    BY <1>2 DEF ToSet
  <2>2. \A x : Stays(x)' = Stays(x)
    BY <1>2 DEF Stays, D!Spared
  <2> QED BY <1>2, <1>6, <2>1, <2>2 DEF DeleteInv, Gathered
<1>8. candidates' \in Seq(Seq(Folders(T))) /\ guards' \in Seq(protected) /\ out' \in Seq(T) /\ kind = "wildcard"
  BY <1>2 DEF DeleteInv, DeleteTypes
<1> QED BY <1>2, <1>5, <1>7, <1>8, FoundKept

\* Writing a directory, sparing it, or going on with the next artifact.
LEMMA ScanStepKept ==
    ASSUME NEW T \in Trees, DeleteInv(T), D!SkipDir \/ D!WriteDir \/ D!NextArtifact
    PROVE  DeleteInv(T)'
<1>1. /\ pc = "scan" /\ pc' = pc /\ dirs # <<>> /\ guards # <<>>
      /\ \/ dirs' = Tail(dirs) /\ guards' = guards /\ out' = out
            /\ IsPrefix(GetItemRelativePath(Head(dirs)), GetItemRelativeLocation(Head(guards)))
         \/ dirs' = Tail(dirs) /\ guards' = guards /\ out' = Append(out, Head(dirs))
         \/ dirs' = dirs /\ guards' = Tail(guards) /\ out' = out
      /\ UNCHANGED <<tree, kind, dryRun, protected, found, candidates, list, next, running, succeeded, failed, lost, err>>
  BY DeleteOperators DEF D!SkipDir, D!WriteDir, D!NextArtifact, D!Scanning, D!UnchangedInScan, D!input, D!tasks,
        D!HoldsArtifact, D!Dir, D!ArtifactLocation
<1>2. /\ candidates \in Seq(Seq(Folders(T))) /\ guards \in Seq(protected) /\ dirs \in Seq(Folders(T)) /\ out \in Seq(T)
      /\ kind = "wildcard"
  BY <1>1 DEF DeleteInv, DeleteTypes
<1>3. /\ Head(dirs) \in Folders(T) /\ Tail(dirs) \in Seq(Folders(T)) /\ ToSet(dirs) = {Head(dirs)} \cup ToSet(Tail(dirs))
      /\ Head(guards) \in protected /\ Tail(guards) \in Seq(protected)
  BY <1>1, <1>2, TailIs
<1>4. /\ Append(out, Head(dirs)) \in Seq(T)
      /\ ToSet(Append(out, Head(dirs))) = ToSet(out) \cup {Head(dirs)}
  <2>1. Head(dirs) \in T
    BY <1>3 DEF Folders
  <2> QED BY <1>2, <2>1, AppendItem
<1>5. guards' \in Seq(protected) /\ dirs' \in Seq(Folders(T)) /\ out' \in Seq(T) /\ candidates' \in Seq(Seq(Folders(T)))
  BY <1>1, <1>2, <1>3, <1>4
<1>6. ASSUME NEW x, x \in ToSet(dirs) PROVE x \in ToSet(dirs') \/ x \in ToSet(out') \/ Stays(x)
  <2>1. CASE dirs' = Tail(dirs) /\ IsPrefix(GetItemRelativePath(Head(dirs)), GetItemRelativeLocation(Head(guards)))
    <3>1. D!Spared(Head(dirs))
      BY <1>3, <2>1, DeleteOperators DEF D!Spared
    <3>2. Stays(Head(dirs))
      BY <1>3, <3>1 DEF Stays, Folders
    <3> QED BY <1>3, <1>6, <2>1, <3>2
  <2>2. CASE dirs' = Tail(dirs) /\ out' = Append(out, Head(dirs))
    BY <1>3, <1>4, <1>6, <2>2
  <2>3. CASE dirs' = dirs
    BY <1>6, <2>3
  <2> QED BY <1>1, <2>1, <2>2, <2>3
<1>7. \A x \in ToSet(out) : x \in ToSet(out')
  BY <1>1, <1>4
<1>8. Gathered'
  <2>1. ToSet(found)' = ToSet(found) /\ ToSet(out)' = ToSet(out') /\ ToSet(dirs)' = ToSet(dirs')
    BY <1>1 DEF ToSet
  <2>2. \A x : Stays(x)' = Stays(x)
    BY <1>1 DEF Stays, D!Spared
  <2> QED BY <1>1, <1>6, <1>7, <2>1, <2>2 DEF DeleteInv, Gathered
<1> QED BY <1>1, <1>2, <1>5, <1>8, FoundKept

\* The end of the directories, or of the artifacts, which spares no directory that is left.
LEMMA ScanEndKept ==
    ASSUME NEW T \in Trees, DeleteInv(T), D!WriteRemainCandidates \/ D!DirsOver
    PROVE  DeleteInv(T)'
<1>1. /\ pc = "scan" /\ pc' = "reduce" /\ guards' = guards
      /\ \/ dirs' = <<>> /\ out' = out \o dirs /\ lost' = lost
         \/ dirs' = dirs /\ out' = out /\ lost' = (lost \/ dirs # <<>>)
      /\ UNCHANGED <<tree, kind, dryRun, protected, found, candidates, list, next, running, succeeded, failed, err>>
  BY DEF D!WriteRemainCandidates, D!DirsOver, D!WriteRemain, D!Scanning, D!UnchangedInScan, D!input, D!tasks
<1>2. /\ candidates \in Seq(Seq(Folders(T))) /\ guards \in Seq(protected) /\ dirs \in Seq(Folders(T)) /\ out \in Seq(T)
      /\ kind = "wildcard"
  BY <1>1 DEF DeleteInv, DeleteTypes
<1>3. out \o dirs \in Seq(T) /\ ToSet(out \o dirs) = ToSet(out) \cup ToSet(dirs)
  <2>1. dirs \in Seq(T)
    <3>1. Folders(T) \subseteq T
      BY DEF Folders
    <3> QED BY <1>2, <3>1, SeqMonotonic
  <2> QED BY <1>2, <2>1, ConcatIs
<1>4. guards' \in Seq(protected) /\ dirs' \in Seq(Folders(T)) /\ out' \in Seq(T) /\ candidates' \in Seq(Seq(Folders(T)))
  <2>1. <<>> \in Seq(Folders(T))
    OBVIOUS
  <2>2. dirs' \in {<<>>, dirs} /\ out' \in {out, out \o dirs}
    BY <1>1
  <2> QED BY <1>1, <1>2, <1>3, <2>1, <2>2
<1>5. ASSUME ~lost' PROVE ~lost /\ ToSet(out') = ToSet(out) \cup ToSet(dirs)
  <2>1. CASE out' = out \o dirs /\ lost' = lost
    BY <1>3, <1>5, <2>1
  <2>2. CASE out' = out /\ lost' = (lost \/ dirs # <<>>)
    <3>1. ~lost /\ dirs = <<>>
      BY <1>5, <2>2
    <3>2. ToSet(dirs) = {}
      BY <3>1 DEF ToSet
    <3> QED BY <2>2, <3>1, <3>2
  <2> QED BY <1>1, <2>1, <2>2
<1>6. Gathered'
  <2>1. ToSet(found)' = ToSet(found) /\ ToSet(out)' = ToSet(out')
    BY <1>1 DEF ToSet
  <2>2. \A x : Stays(x)' = Stays(x)
    BY <1>1 DEF Stays, D!Spared
  <2> QED BY <1>1, <1>5, <2>1, <2>2 DEF DeleteInv, Gathered
<1> QED BY <1>1, <1>2, <1>4, <1>6, FoundKept

LEMMA ScanErrorKept == ASSUME NEW T \in Trees, DeleteInv(T), D!ArtifactsFail PROVE DeleteInv(T)'
<1>1. /\ pc = "scan" /\ pc' = "done" /\ err' = "err" /\ dirs' = <<>> /\ out' = out \o dirs
      /\ UNCHANGED <<tree, kind, dryRun, protected, found, candidates, guards, list, next, running,
                     succeeded, failed, lost>>
  BY DEF D!ArtifactsFail, D!Return, D!Scanning, D!UnchangedInScan, D!input, D!tasks
<1>2. out' \in Seq(T)
  <2>1. dirs \in Seq(T) /\ out \in Seq(T)
    <3>1. Folders(T) \subseteq T
      BY DEF Folders
    <3> QED BY <3>1, SeqMonotonic DEF DeleteInv, DeleteTypes
  <2> QED BY <1>1, <2>1, ConcatIs
<1>3. DeleteTypes(T)'
  BY <1>1, <1>2 DEF DeleteInv, DeleteTypes
<1>4. DeleteTasks(T)' /\ Deleted' /\ Targets' /\ (D!NilMeansGone)'
  BY <1>1, <1>3, NoTasksYet
<1>5. Gathered'
  BY <1>1 DEF Gathered
<1> QED BY <1>3, <1>4, <1>5 DEF DeleteInv

\* ReduceTopChainDirResult: what is found goes with an item of the list.
LEMMA ReduceKept == ASSUME NEW T \in Trees, DeleteInv(T), D!Reduce PROVE DeleteInv(T)'
<1>1. PICK seen \in Readable(SortedBuffers(out, TRUE), MayLose) :
        D!Begins(ReduceTopChain(seen)) /\ lost' = (lost \/ seen # SortedBuffers(out, TRUE))
  BY DeleteSorting, Zenon DEF D!Reduce
<1>2. /\ pc = "reduce" /\ pc' = "delete"
      /\ list' = ReduceTopChain(seen) /\ next' = 1 /\ running' = {} /\ succeeded' = 0 /\ failed' = FALSE
      /\ UNCHANGED <<tree, kind, dryRun, protected, found, candidates, guards, dirs, out, err>>
  BY <1>1 DEF D!Reduce, D!Begins, D!input, D!search
<1>3. /\ out \in Seq(T) /\ tree = T /\ kind = "wildcard"
  BY <1>2 DEF DeleteInv, DeleteTypes
<1>4. ToSet(out) \subseteq T
  BY <1>3, SeqOfElements
<1>5. /\ list' \in Seq(T) /\ Clear(list')
      /\ seen = SortedBuffers(out, TRUE) =>
            \A x \in ToSet(out) : ~IsRepoRoot(x) =>
                \E n \in DOMAIN list' : \/ list'[n].path = x.path /\ list'[n].type = x.type
                                        \/ list'[n].type = "folder" /\ IsPrefix(list'[n].path, x.path)
  <2>1. ReduceTopChain(seen) \in Seq(ToSet(out)) /\ Clear(ReduceTopChain(seen))
    BY <1>1, <1>3, TreeIs, ReduceTopIs
  <2>2. seen = SortedBuffers(out, TRUE) =>
            \A x \in ToSet(out) : ~IsRepoRoot(x) =>
                \E n \in DOMAIN ReduceTopChain(seen) :
                    \/ ReduceTopChain(seen)[n].path = x.path /\ ReduceTopChain(seen)[n].type = x.type
                    \/ ReduceTopChain(seen)[n].type = "folder" /\ IsPrefix(ReduceTopChain(seen)[n].path, x.path)
    BY <1>1, <1>3, TreeIs, ReduceTopIs
  <2> QED BY <1>2, <1>4, <2>1, <2>2, SeqMonotonic
<1>6. Len(list') \in Nat /\ DOMAIN list' = 1 .. Len(list')
  BY <1>5
<1>7. ASSUME ~lost', NEW x \in ToSet(out), ~Stays(x) PROVE Goes(x)'
  <2>1. seen = SortedBuffers(out, TRUE)
    BY <1>1, <1>7
  <2>2. IsItem(x)
    BY <1>4, TreeIs
  <2>3. ~IsRepoRoot(x)
    BY <1>7, <2>2 DEF Stays, IsItem, IsRepoRoot
  <2>4. PICK n \in DOMAIN list' : list'[n].path = x.path \/ IsPrefix(list'[n].path, x.path)
    BY <1>5, <2>1, <2>3
  <2>5. IsPrefix(x.path, x.path)
    BY <2>2, PrefixItself DEF IsItem
  <2> QED BY <1>6, <2>4, <2>5 DEF Goes
<1>8. DeleteTypes(T)'
  BY <1>2 DEF DeleteInv, DeleteTypes
<1>9. DeleteTasks(T)'
  <2>1. 1 \in 1 .. Len(list') + 1
    BY <1>6
  <2> QED BY <1>2, <1>5, <2>1 DEF DeleteInv, DeleteTasks
<1>10. Gathered'
  <2>1. ToSet(found)' = ToSet(found)
    BY <1>2 DEF ToSet
  <2>2. \A x : Stays(x)' = Stays(x)
    BY <1>2 DEF Stays, D!Spared
  <2>3. ~lost' => ~lost
    BY <1>1
  <2> QED BY <1>2, <1>3, <1>7, <2>1, <2>2, <2>3 DEF DeleteInv, Gathered
<1>11. Deleted'
  <2>1. Cardinality({}) = 0 /\ (1 .. 1 - 1) \ {} = {}
    BY FS_EmptySet
  <2> QED BY <1>2, <2>1 DEF Deleted, Ended
<1>12. Targets'
  <2>1. Unfinished' = 1 .. Len(list')
    BY <1>2 DEF Unfinished
  <2>2. \A i \in 1 .. Len(list') : list'[i] \in tree'
    BY <1>2, <1>3, <1>5
  <2> QED BY <1>5, <2>1, <2>2 DEF Targets, Clear
<1>13. (D!NilMeansGone)'
  BY <1>2, <1>8 DEF DeleteTypes, D!NilMeansGone
<1> QED BY <1>8, <1>9, <1>10, <1>11, <1>12, <1>13 DEF DeleteInv

-----------------------------------------------------------------------------
(* DeleteFiles                                                                *)

LEMMA RunningIs ==
    ASSUME NEW T, DeleteTasks(T)
    PROVE  /\ Len(list) \in Nat /\ DOMAIN list = 1 .. Len(list) /\ next \in Nat /\ next >= 1
           /\ \A i \in running : i \in 1 .. Len(list) /\ i \in Nat /\ i < next
           /\ \A i \in 1 .. Len(list) : list[i] \in T
           /\ IsFiniteSet(running) /\ Cardinality(running) \in Nat
           /\ \A i \in running : Cardinality(running \ {i}) = Cardinality(running) - 1
           /\ \A i : i \notin running => Cardinality(running \cup {i}) = Cardinality(running) + 1
<1>1. /\ Len(list) \in Nat /\ DOMAIN list = 1 .. Len(list) /\ next \in Nat /\ next >= 1
      /\ \A i \in running : i \in 1 .. Len(list) /\ i \in Nat /\ i < next
      /\ \A i \in 1 .. Len(list) : list[i] \in T
  BY DEF DeleteTasks
<1>2. IsFiniteSet(running)
  <2>1. IsFiniteSet(1 .. next - 1)
    BY <1>1, FS_Interval
  <2> QED BY <2>1, FS_Subset DEF DeleteTasks
<1>3. Cardinality(running) \in Nat
  BY <1>2, FS_CardinalityType
<1>4. \A i \in running : Cardinality(running \ {i}) = Cardinality(running) - 1
  BY <1>2, FS_RemoveElement
<1>5. \A i : i \notin running => Cardinality(running \cup {i}) = Cardinality(running) + 1
  BY <1>2, FS_AddElement
<1> QED BY <1>1, <1>2, <1>3, <1>4, <1>5

LEMMA StartKept == ASSUME NEW T \in Trees, DeleteInv(T), D!StartTask PROVE DeleteInv(T)'
<1>1. /\ pc = "delete" /\ next <= Len(list) /\ next' = next + 1 /\ running' = running \cup {next}
      /\ UNCHANGED <<tree, pc, kind, dryRun, protected, found, candidates, guards, dirs, out, list,
                     succeeded, failed, lost, err>>
  BY DEF D!StartTask, D!Take, D!UnchangedInTasks, D!input, D!search
<1>2. DeleteTypes(T)'
  BY <1>1 DEF DeleteInv, DeleteTypes
<1>3. next \notin running /\ next \in Nat /\ next >= 1 /\ Len(list) \in Nat
  BY RunningIs DEF DeleteInv
<1>4. DeleteTasks(T)'
  <2>1. next' \in 1 .. Len(list) + 1 /\ running' \subseteq 1 .. next' - 1
    BY <1>1, <1>3 DEF DeleteInv, DeleteTasks
  <2> QED BY <1>1, <2>1 DEF DeleteInv, DeleteTasks
<1>5. Ended' = Ended /\ Unfinished' = Unfinished
  <2>1. \A i \in 1 .. next' - 1 : i \in 1 .. next - 1 \/ i = next
    BY <1>1, <1>3
  <2>2. \A i \in 1 .. next - 1 : i \in 1 .. next' - 1 /\ i # next
    BY <1>1, <1>3
  <2>3. Ended' = Ended
    BY <1>1, <2>1, <2>2 DEF Ended
  <2>4. \A i : i \in next .. Len(list) <=> i \in next' .. Len(list) \/ i = next
    BY <1>1, <1>3
  <2> QED BY <1>1, <2>3, <2>4 DEF Unfinished
<1>6. Gathered'
  <2>1. ToSet(found)' = ToSet(found) /\ \A x : Stays(x)' = Stays(x) /\ Goes(x)' = Goes(x)
    BY <1>1 DEF ToSet, Stays, D!Spared, Goes
  <2> QED BY <1>1, <2>1 DEF DeleteInv, Gathered
<1>7. Deleted'
  <2>1. Cardinality(running') = Cardinality(running) + 1 /\ Cardinality(running) \in Nat
    BY <1>1, <1>3, RunningIs DEF DeleteInv
  <2>2. succeeded \in Nat
    BY DEF DeleteInv, DeleteTasks
  <2>3. succeeded + Cardinality(running) = next - 1 => succeeded + Cardinality(running') = next' - 1
    BY <1>1, <1>3, <2>1, <2>2
  <2> QED BY <1>1, <1>5, <2>3 DEF DeleteInv, Deleted
<1>8. Targets'
  BY <1>1, <1>5 DEF DeleteInv, Targets
<1>9. (D!NilMeansGone)'
  BY <1>1, <1>2, NotNilYet DEF DeleteTypes, D!NilMeansGone
<1> QED BY <1>2, <1>4, <1>6, <1>7, <1>8, <1>9 DEF DeleteInv

\* A task ends: the items that are still to be deleted are not below its item.
LEMMA DeleteTaskKept ==
    ASSUME NEW T \in Trees, DeleteInv(T), pc = "delete", NEW i \in running,
           D!DeleteItem(i) \/ D!DeleteFails(i) \/ D!DeleteDryRun(i)
    PROVE  DeleteInv(T)'
<1> DEFINE Left == {x \in tree : ~IsPrefix(list[i].path, x.path)}
<1>1. D!Without(list[i]) = Left
  BY DeleteOperators DEF D!Without, D!Below
<1> HIDE DEF Left
<1>2. /\ running' = running \ {i}
      /\ \/ dryRun /\ tree' = tree /\ succeeded' = succeeded /\ failed' = failed
         \/ ~dryRun /\ tree' \in {tree, Left} /\ succeeded' = succeeded /\ failed' = TRUE
         \/ ~dryRun /\ tree' = Left /\ succeeded' = succeeded + 1 /\ failed' = failed
      /\ UNCHANGED <<pc, kind, dryRun, protected, found, candidates, guards, dirs, out, list, next, lost, err>>
  BY <1>1 DEF D!DeleteItem, D!DeleteFails, D!DeleteDryRun, D!Succeeds, D!Fails, D!Uncounted, D!Ends,
              D!UnchangedInTasks, D!input, D!search
<1>3. DeleteTypes(T)'
  <2>1. tree' \subseteq tree
    BY <1>2 DEF Left
  <2> QED BY <1>2, <2>1 DEF DeleteInv, DeleteTypes
<1>4. /\ i \in 1 .. Len(list) /\ i \in Nat /\ i < next /\ next \in Nat /\ i \in DOMAIN list
      /\ Cardinality(running') = Cardinality(running) - 1 /\ Cardinality(running) \in Nat
      /\ succeeded \in Nat /\ failed \in BOOLEAN
  BY <1>2, RunningIs DEF DeleteInv, DeleteTasks
<1>5. DeleteTasks(T)'
  <2>1. failed' \in BOOLEAN
    BY <1>2, <1>4, Zenon
  <2>3. succeeded' \in Nat
    BY <1>2, <1>4
  <2>2. running' \subseteq 1 .. next' - 1 /\ next' \in 1 .. Len(list') + 1 /\ list' \in Seq(T) /\ dryRun' \in BOOLEAN
    BY <1>2 DEF DeleteInv, DeleteTasks
  <2> QED BY <1>2, <2>1, <2>2, <2>3 DEF DeleteTasks
<1>6. Ended' = Ended \cup {i}
  BY <1>2, <1>4 DEF Ended
<1>7. Gathered'
  <2>1. ToSet(found)' = ToSet(found) /\ \A x : Stays(x)' = Stays(x) /\ Goes(x)' = Goes(x)
    BY <1>2 DEF ToSet, Stays, D!Spared, Goes
  <2>2. ~failed' => ~failed
    BY <1>2
  <2> QED BY <1>2, <2>1, <2>2 DEF DeleteInv, Gathered
<1>8. Deleted'
  <2>1. dryRun' => succeeded' = 0
    BY <1>2 DEF DeleteInv, Deleted
  <2>2. ASSUME ~failed', ~dryRun'
        PROVE  /\ succeeded' + Cardinality(running') = next' - 1
               /\ \A j \in Ended' : \A x \in tree' : ~IsPrefix(list'[j].path, x.path)
    <3>1. ~dryRun /\ tree' = Left /\ succeeded' = succeeded + 1 /\ ~failed
      BY <1>2, <2>2
    <3>2. /\ succeeded + Cardinality(running) = next - 1
          /\ \A j \in Ended : \A x \in tree : ~IsPrefix(list[j].path, x.path)
      BY <3>1 DEF DeleteInv, Deleted
    <3>3. succeeded' + Cardinality(running') = next' - 1
      BY <1>2, <1>4, <3>1, <3>2
    <3>4. \A x \in tree' : x \in tree /\ ~IsPrefix(list[i].path, x.path)
      BY <3>1 DEF Left
    <3> QED BY <1>2, <1>6, <3>2, <3>3, <3>4
  <2> QED BY <2>1, <2>2 DEF Deleted
<1>9. Targets'
  <2> SUFFICES ASSUME kind = "wildcard" PROVE Clear(list') /\ \A j \in Unfinished' : list'[j] \in tree'
    BY <1>2 DEF Targets
  <2>1. Clear(list) /\ \A j \in Unfinished : list[j] \in tree
    BY DEF DeleteInv, Targets
  <2>2. ASSUME NEW j \in Unfinished' PROVE list[j] \in tree'
    <3>1. j \in Unfinished /\ j # i /\ j \in DOMAIN list
      BY <1>2, <1>4, RunningIs DEF Unfinished, DeleteInv
    <3>2. ~IsPrefix(list[i].path, list[j].path)
      BY <1>4, <2>1, <3>1 DEF Clear
    <3>3. list[j] \in tree /\ list[j] \in Left
      BY <2>1, <3>1, <3>2 DEF Left
    <3> QED BY <1>2, <3>3
  <2> QED BY <1>2, <2>1, <2>2
<1>10. (D!NilMeansGone)'
  BY <1>2, <1>3 DEF DeleteTypes, D!NilMeansGone
<1> QED BY <1>3, <1>5, <1>7, <1>8, <1>9, <1>10 DEF DeleteInv

LEMMA DeleteListFailsKept == ASSUME NEW T \in Trees, DeleteInv(T), D!ListFails PROVE DeleteInv(T)'
<1>1. /\ pc = "delete" /\ next <= Len(list) /\ list' = SubSeq(list, 1, next - 1) /\ failed' = TRUE
      /\ UNCHANGED <<tree, pc, kind, dryRun, protected, found, candidates, guards, dirs, out, next, running,
                     succeeded, lost, err>>
  BY DEF D!ListFails, D!ProducerFails, D!UnchangedInTasks, D!input, D!search
<1>2. list \in Seq(T) /\ Len(list) \in Nat /\ next \in Nat /\ next >= 1 /\ DOMAIN list = 1 .. Len(list)
  BY RunningIs DEF DeleteInv, DeleteTasks
<1>3. list' \in Seq(T) /\ Len(list') = next - 1 /\ \A j \in 1 .. next - 1 : list'[j] = list[j]
  <2>1. next - 1 \in 0 .. Len(list)
    BY <1>1, <1>2
  <2> QED BY <1>1, <1>2, <2>1, SubSeqIs
<1>4. DOMAIN list' = 1 .. next - 1 /\ \A j \in 1 .. next - 1 : j \in DOMAIN list
  BY <1>1, <1>2, <1>3
<1>5. DeleteTypes(T)'
  BY <1>1 DEF DeleteInv, DeleteTypes
<1>6. DeleteTasks(T)'
  <2>1. next' \in 1 .. Len(list') + 1
    BY <1>1, <1>2, <1>3
  <2> QED BY <1>1, <1>3, <2>1 DEF DeleteInv, DeleteTasks
<1>7. Gathered' /\ Deleted'
  BY <1>1 DEF DeleteInv, DeleteTypes, Gathered, Deleted
<1>8. Targets'
  <2> SUFFICES ASSUME kind = "wildcard" PROVE Clear(list') /\ \A j \in Unfinished' : list'[j] \in tree'
    BY <1>1 DEF Targets
  <2>1. Clear(list) /\ \A j \in Unfinished : list[j] \in tree
    BY <1>1 DEF DeleteInv, Targets
  <2>2. Clear(list')
    BY <1>3, <1>4, <2>1 DEF Clear
  <2>3. \A j \in Unfinished' : j \in running /\ j \in 1 .. next - 1
    BY <1>1, <1>2, <1>3 DEF Unfinished, DeleteInv, DeleteTasks
  <2> QED BY <1>1, <1>3, <2>1, <2>2, <2>3 DEF Unfinished
<1>9. (D!NilMeansGone)'
  BY <1>1, <1>5 DEF DeleteTypes, D!NilMeansGone
<1> QED BY <1>5, <1>6, <1>7, <1>8, <1>9 DEF DeleteInv

\* All tasks have ended: without an error, what is there goes with no item of the list.
LEMMA DeleteFinishKept == ASSUME NEW T \in Trees, DeleteInv(T), D!Finish PROVE DeleteInv(T)'
<1>1. /\ pc = "delete" /\ next > Len(list) /\ running = {} /\ pc' = "done" /\ err' = IF failed THEN "err" ELSE "nil"
      /\ UNCHANGED <<tree, kind, dryRun, protected, found, candidates, guards, dirs, out, list, next, running,
                     succeeded, failed, lost>>
  BY DEF D!Finish, D!AllEnded, D!Return, D!input, D!search, D!tasks
<1>2. DeleteTypes(T)'
  BY <1>1 DEF DeleteInv, DeleteTypes
<1>3. DeleteTasks(T)'
  BY <1>1 DEF DeleteInv, DeleteTasks
<1>4. Gathered' /\ Deleted' /\ Targets'
  BY <1>1 DEF DeleteInv, Gathered, Deleted, Targets
<1>5. (D!NilMeansGone)'
  <2> SUFFICES ASSUME ~failed, ~lost
               PROVE  IF dryRun THEN succeeded = 0
                      ELSE /\ \A n \in DOMAIN found : found[n] \in tree =>
                                  /\ kind = "wildcard" /\ found[n].type = "folder"
                                  /\ IsRepoRoot(found[n]) \/ D!Spared(found[n])
                           /\ succeeded = Len(list)
    <3>1. \A x : D!IsRepoRoot(x) = IsRepoRoot(x) /\ D!Spared(x)' = D!Spared(x)
      BY <1>1, DeleteOperators DEF D!Spared
    <3> QED BY <1>1, <3>1 DEF D!NilMeansGone
  <2>1. CASE dryRun
    BY <2>1 DEF DeleteInv, Deleted
  <2>2. CASE ~dryRun
    <3>1. succeeded + Cardinality(running) = next - 1 /\ \A i \in Ended : \A x \in tree : ~IsPrefix(list[i].path, x.path)
      BY <1>1, <2>2 DEF DeleteInv, Deleted
    <3>2. next = Len(list) + 1 /\ Len(list) \in Nat /\ succeeded \in Nat
      BY <1>1 DEF DeleteInv, DeleteTasks
    <3>3. succeeded = Len(list)
      <4>1. Cardinality(running) = 0
        BY <1>1, FS_EmptySet
      <4> QED BY <3>1, <3>2, <4>1
    <3>4. Ended = 1 .. Len(list)
      BY <1>1, <3>2 DEF Ended
    <3>5. ASSUME NEW n \in DOMAIN found, found[n] \in tree
          PROVE  /\ kind = "wildcard" /\ found[n].type = "folder"
                 /\ IsRepoRoot(found[n]) \/ D!Spared(found[n])
      <4>1. found[n] \in ToSet(found)
        BY DEF ToSet
      <4>2. ~Goes(found[n])
        BY <3>1, <3>4, <3>5 DEF Goes
      <4> QED BY <1>1, <4>1, <4>2 DEF DeleteInv, Gathered, Stays
    <3> QED BY <2>2, <3>3, <3>5
  <2> QED BY <2>1, <2>2
<1> QED BY <1>2, <1>3, <1>4, <1>5 DEF DeleteInv

LEMMA DeleteStep == ASSUME NEW T \in Trees, DeleteInv(T), D!Next PROVE DeleteInv(T)'
<1>1. CASE D!GetPathsToDelete
  BY <1>1, SpecSearchKept, DirectSearchKept, SearchErrorKept, CandidatesKept, GuardsKept, MergeDirsKept,
     ScanStepKept, ScanEndKept, ScanErrorKept, ReduceKept DEF D!GetPathsToDelete, D!Scan
<1>2. CASE D!DeleteFiles
  <2>1. D!StartTask \/ D!ListFails \/ D!Finish => DeleteInv(T)'
    BY StartKept, DeleteListFailsKept, DeleteFinishKept
  <2>2. ASSUME NEW i \in running, D!DeleteItem(i) \/ D!DeleteFails(i) \/ D!DeleteDryRun(i) PROVE DeleteInv(T)'
    <3>1. pc = "delete"
      BY <2>2 DEF DeleteInv, DeleteTasks
    <3> QED BY <2>2, <3>1, DeleteTaskKept
  <2> QED BY <1>2, <2>1, <2>2 DEF D!DeleteFiles
<1> QED BY <1>1, <1>2 DEF D!Next

-----------------------------------------------------------------------------
(* mergeReaders                                                               *)

\* The items of the reader of spec s, with its number.
JobsOf(s) ==
    [n \in DOMAIN readers[s] |-> [path |-> readers[s][n].path, type |-> readers[s][n].type, spec |-> s]]

Numbers == [s \in DOMAIN readers |-> s]

LEMMA NumbersAre ==
    ASSUME readers \in Seq(Seq(Item))
    PROVE  /\ Len(Numbers) \in Nat /\ DOMAIN Numbers = 1 .. Len(Numbers)
           /\ Len(Numbers) = Len(readers) /\ DOMAIN readers = DOMAIN Numbers
           /\ \A k \in DOMAIN Numbers : Numbers[k] = k
<1>1. Len(readers) \in Nat /\ DOMAIN readers = 1 .. Len(readers)
  OBVIOUS
<1>2. DOMAIN Numbers = 1 .. Len(readers) /\ \A k \in DOMAIN Numbers : Numbers[k] = k
  BY <1>1 DEF Numbers
<1>3. Numbers \in Seq(Nat) /\ Len(Numbers) = Len(readers)
  BY <1>1, <1>2, LenProperties DEF Numbers
<1> QED BY <1>1, <1>2, <1>3

(* mergeReaders, one reader after the other.                                  *)
LEMMA MergedRuns ==
    ASSUME NEW J, readers \in Seq(Seq(Item)), \A s \in DOMAIN readers : JobsOf(s) \in Seq(J)
    PROVE  \E v \in [0 .. Len(Numbers) -> Seq(J)] :
               /\ v[0] = <<>> /\ \A k \in 1 .. Len(Numbers) : v[k] = (v[k - 1] \o JobsOf(Numbers[k]))
               /\ M!Merged = v[Len(Numbers)]
<1> DEFINE n == Len(Numbers)
           Def(f) == f = [s \in SUBSET DOMAIN Numbers |-> IF s = {} THEN <<>> ELSE (f[s \ {Max(s)}] \o JobsOf(Numbers[Max(s)]))]
           fold == CHOOSE f : Def(f)
<1>1. n \in Nat /\ DOMAIN Numbers = 1 .. n
  BY NumbersAre
<1>2. M!Merged = fold[1 .. n]
  <2>1. M!Merged = fold[DOMAIN Numbers]
    BY DEF M!Merged, M!FoldLeft, M!MapThenFoldSet, M!Max, Max, JobsOf, Numbers, FoldLeft, MapThenFoldSet
  <2> QED BY <1>1, <2>1
<1>3. ASSUME NEW f \in Seq(J), NEW k \in 1 .. n PROVE (f \o JobsOf(Numbers[k])) \in Seq(J)
  BY <1>1, NumbersAre, ConcatIs
<1>4. <<>> \in Seq(J)
  OBVIOUS
<1>5. \E f : Def(f)
  <2> DEFINE step == [p \in (Seq(J)) \X (1 .. n) |-> (p[1] \o JobsOf(Numbers[p[2]]))]
  <2>1. step \in [(Seq(J)) \X (1 .. n) -> Seq(J)]
    <3> HIDE DEF n
    <3> QED BY <1>3
  <2>2. ASSUME NEW f \in Seq(J), NEW k \in 1 .. n PROVE step[f, k] = (f \o JobsOf(Numbers[k]))
    <3> HIDE DEF n
    <3> QED OBVIOUS
  <2> HIDE DEF step
  <2>3. PICK f \in [SUBSET (1 .. n) -> Seq(J)] : Folds(n, <<>>, step, f)
    BY <1>1, <1>4, <2>1, FoldExists
  <2>4. ASSUME NEW s \in SUBSET (1 .. n), s # {}
        PROVE  step[f[s \ {Max(s)}], Max(s)] = (f[s \ {Max(s)}] \o JobsOf(Numbers[Max(s)]))
    <3>1. Max(s) \in s
      BY <1>1, <2>4, MaxIn
    <3>2. s \ {Max(s)} \in SUBSET (1 .. n)
      OBVIOUS
    <3> QED BY <2>2, <3>1, <3>2
  <2>5. f = [s \in SUBSET (1 .. n) |-> IF s = {} THEN <<>> ELSE (f[s \ {Max(s)}] \o JobsOf(Numbers[Max(s)]))]
    BY <2>3, <2>4 DEF Folds
  <2> QED BY <1>1, <2>5
<1>6. Def(fold)
  BY <1>5
<1> HIDE DEF fold
<1>7. \A s \in SUBSET (1 .. n) : fold[s] = IF s = {} THEN <<>> ELSE (fold[s \ {Max(s)}] \o JobsOf(Numbers[Max(s)]))
  BY <1>1, <1>6
<1> HIDE DEF Def
<1> DEFINE v == [k \in 0 .. n |-> fold[1 .. k]]
<1>8. v[0] = <<>>
  <2>1. fold[1 .. 0] = <<>>
    BY <1>1, <1>7, Intervals
  <2> QED BY <1>1, <2>1
<1>9. ASSUME NEW k \in 1 .. n PROVE v[k] = (v[k - 1] \o JobsOf(Numbers[k]))
  <2>1. /\ 1 .. k \in SUBSET (1 .. n) /\ 1 .. k # {}
        /\ Max(1 .. k) = k /\ (1 .. k) \ {k} = 1 .. k - 1
    BY <1>1, Intervals
  <2>2. fold[1 .. k] = (fold[(1 .. k) \ {Max(1 .. k)}] \o JobsOf(Numbers[Max(1 .. k)]))
    BY <1>7, <2>1
  <2>3. v[k] = fold[1 .. k] /\ v[k - 1] = fold[1 .. k - 1]
    BY <1>1
  <2> HIDE DEF v
  <2> QED BY <2>1, <2>2, <2>3
<1>10. v[n] = fold[1 .. n] /\ DOMAIN v = 0 .. n
  BY <1>1
<1>11. \A k \in 0 .. n : v[k] \in Seq(J)
  <2> DEFINE K == {k \in 0 .. n : v[k] \in Seq(J)}
  <2> HIDE DEF v
  <2>1. 0 \in K
    <3>1. 0 \in 0 .. n
      BY <1>1
    <3>2. v[0] \in Seq(J)
      BY <1>4, <1>8, Zenon
    <3> QED BY <3>1, <3>2
  <2>2. ASSUME NEW k \in 0 .. n - 1, k \in K PROVE k + 1 \in K
    <3>1. k + 1 \in 1 .. n /\ k + 1 \in 0 .. n /\ (k + 1) - 1 = k
      BY <1>1
    <3>2. v[k + 1] = (v[k] \o JobsOf(Numbers[k + 1]))
      BY <1>9, <3>1
    <3> QED BY <1>3, <2>2, <3>1, <3>2
  <2> HIDE DEF K
  <2>3. \A k \in 0 .. n : k \in K
    BY <1>1, <2>1, <2>2, UpTo
  <2> QED BY <2>3 DEF K
<1>12. v \in [0 .. n -> Seq(J)]
  BY <1>10, <1>11
<1> HIDE DEF v
<1> QED BY <1>2, <1>8, <1>9, <1>10, <1>12

\* Every reader's items are in the merged list, with their spec.
LEMMA JobsMerged ==
    ASSUME NEW J, readers \in Seq(Seq(Item)), \A s \in DOMAIN readers : JobsOf(s) \in Seq(J)
    PROVE  /\ M!Merged \in Seq(J)
           /\ \A s \in DOMAIN readers : \A x \in ToSet(JobsOf(s)) : x \in ToSet(M!Merged)
<1> DEFINE n == Len(Numbers)
           r == M!Merged
<1>1. PICK v \in [0 .. n -> Seq(J)] :
          v[0] = <<>> /\ (\A k \in 1 .. n : v[k] = v[k - 1] \o JobsOf(Numbers[k])) /\ r = v[n]
  BY MergedRuns
<1>2. n \in Nat /\ DOMAIN readers = 1 .. n /\ \A k \in 1 .. n : Numbers[k] = k
  BY NumbersAre
<1> HIDE DEF n, r
<1> DEFINE K == {k \in 0 .. n : \A s \in 1 .. k : ToSet(JobsOf(s)) \subseteq ToSet(v[k])}
<1>3. 0 \in K
  BY <1>2
<1>4. ASSUME NEW k \in 0 .. n - 1, k \in K PROVE k + 1 \in K
  <2>1. k + 1 \in 1 .. n /\ k + 1 \in 0 .. n /\ k \in 0 .. n /\ (k + 1) - 1 = k /\ k \in Nat
    BY <1>2
  <2>2. v[k + 1] = v[k] \o JobsOf(k + 1) /\ v[k] \in Seq(J) /\ JobsOf(k + 1) \in Seq(J)
    BY <1>1, <1>2, <2>1
  <2>3. ToSet(v[k + 1]) = ToSet(v[k]) \cup ToSet(JobsOf(k + 1))
    BY <2>2, ConcatIs
  <2>4. \A s \in 1 .. k + 1 : s \in 1 .. k \/ s = k + 1
    BY <2>1
  <2> QED BY <1>4, <2>1, <2>3, <2>4
<1>5. n \in K
  <2> HIDE DEF K
  <2>1. \A k \in 0 .. n : k \in K
    BY <1>2, <1>3, <1>4, UpTo
  <2>2. n \in 0 .. n
    BY <1>2
  <2> QED BY <2>1, <2>2
<1>6. n \in 0 .. n
  BY <1>2
<1> QED BY <1>1, <1>2, <1>5, <1>6 DEF r

-----------------------------------------------------------------------------
(* The invariant of MoveCopyService, for the specs L of the call              *)

All(L) == UNION {L[s].found : s \in DOMAIN L}

Job(x, s) == [path |-> x.path, type |-> x.type, spec |-> s]

Jobs(L) == UNION {{Job(x, s) : x \in L[s].found} : s \in DOMAIN L}

FoundFiles(L, s) == {x \in L[s].found : x.type = "file"}

\* What the specs find, and the jobs made of it, are items that fit together.
LEMMA SpecsAre ==
    ASSUME NEW L \in SpecLists
    PROVE  /\ Len(L) \in Nat /\ DOMAIN L = 1 .. Len(L)
           /\ \A s \in DOMAIN L : L[s].type \in {"pattern", "direct"} /\ L[s].flat \in BOOLEAN
           /\ IsFiniteSet(All(L)) /\ (\A x \in All(L) : IsItem(x)) /\ FitPaths(All(L))
           /\ \A s \in DOMAIN L : /\ IsFiniteSet(L[s].found) /\ L[s].found \subseteq All(L)
                                  /\ L[s].found \subseteq Item /\ (\A x \in L[s].found : IsItem(x))
                                  /\ FitPaths(L[s].found)
<1> DEFINE Spec1 == [type : {"pattern", "direct"}, flat : BOOLEAN, into : BOOLEAN, found : SUBSET Item]
<1>1. L \in Seq(Spec1) /\ IsFiniteSet(All(L)) /\ Fit(All(L))
  BY SpecsAssumption DEF All
<1>2. \A t \in Spec1 : t.type \in {"pattern", "direct"} /\ t.flat \in BOOLEAN /\ t.found \subseteq Item
  OBVIOUS
<1> HIDE DEF Spec1
<1>3. Len(L) \in Nat /\ DOMAIN L = 1 .. Len(L) /\ \A s \in DOMAIN L : L[s] \in Spec1
  BY <1>1
<1>4. All(L) \subseteq Item
  BY <1>2, <1>3 DEF All
<1>5. (\A x \in All(L) : IsItem(x)) /\ FitPaths(All(L))
  BY <1>1, <1>4, FitIs
<1>6. \A s \in DOMAIN L : L[s].found \subseteq All(L)
  BY DEF All
<1>7. \A s \in DOMAIN L : IsFiniteSet(L[s].found)
  BY <1>1, <1>6, FS_Subset
<1>8. \A s \in DOMAIN L : (\A x \in L[s].found : IsItem(x)) /\ FitPaths(L[s].found)
  BY <1>5, <1>6 DEF FitPaths
<1> QED BY <1>1, <1>2, <1>3, <1>4, <1>5, <1>6, <1>7, <1>8

LEMMA JobsAre ==
    ASSUME NEW L \in SpecLists
    PROVE  /\ FitPaths(Jobs(L))
           /\ \A j \in Jobs(L) : /\ IsItem(j) /\ j.spec \in DOMAIN L
                                 /\ \E x \in L[j.spec].found : x \in All(L) /\ x.path = j.path /\ x.type = j.type
<1>1. ASSUME NEW j \in Jobs(L)
      PROVE  /\ IsItem(j) /\ j.spec \in DOMAIN L
             /\ \E x \in L[j.spec].found : x \in All(L) /\ x.path = j.path /\ x.type = j.type
  <2>1. PICK s \in DOMAIN L : \E x \in L[s].found : j = Job(x, s)
    BY DEF Jobs
  <2>2. PICK x \in L[s].found : j = Job(x, s)
    BY <2>1
  <2>3. j.path = x.path /\ j.type = x.type /\ j.spec = s
    BY <2>2 DEF Job
  <2>4. IsItem(x) /\ x \in All(L)
    BY SpecsAre
  <2> QED BY <2>3, <2>4 DEF IsItem, IsRepoRoot
<1>2. ASSUME NEW j \in Jobs(L), NEW k \in Jobs(L), IsPrefix(j.path, k.path)
      PROVE  j.type = "folder" \/ (j.path = k.path /\ j.type = k.type)
  <2>1. PICK x \in All(L) : x.path = j.path /\ x.type = j.type
    BY <1>1
  <2>2. PICK y \in All(L) : y.path = k.path /\ y.type = k.type
    BY <1>1
  <2> QED BY <1>2, <2>1, <2>2, SpecsAre DEF FitPaths
<1> QED BY <1>1, <1>2 DEF FitPaths

MoveTypes(L) ==
    /\ specs = L /\ moveType \in {"move", "copy"} /\ dryRun \in BOOLEAN
    /\ pc \in {"search", "move", "done"} /\ (pc # "done" => err = "none")
    /\ tree \subseteq All(L) /\ (pc = "search" => tree = All(L) /\ placed = {})
    /\ moveType = "copy" => tree = All(L)
    /\ readers \in Seq(Seq(Item)) /\ Len(readers) <= Len(L)
    /\ \A s \in DOMAIN readers : readers[s] \in Seq(L[s].found)

MoveTasks(L) ==
    /\ list \in Seq(Jobs(L)) /\ next \in 1 .. Len(list) + 1 /\ running \subseteq 1 .. next - 1
    /\ pc # "move" => running = {}
    /\ failed \in BOOLEAN /\ succeeded \in Nat

\* The reader r has the file, or a folder that it is below.
Holds(r, x) == \E n \in DOMAIN r : ~IsRepoRoot(r[n]) /\ IsPrefix(r[n].path, x.path)

HeldByReaders(L) ==
    pc = "search" /\ ~lost => \A s \in DOMAIN readers : \A x \in FoundFiles(L, s) : Holds(readers[s], x)

\* x is at, or below, the item of a task; for a copy, a task of its own spec.
Leads(x, s) ==
    \E n \in 1 .. Len(list) : IsPrefix(list[n].path, x.path) /\ (moveType = "copy" => list[n].spec = s)

HeldByTasks(L) ==
    pc = "move" /\ ~lost /\ ~failed => \A s \in DOMAIN L : \A x \in FoundFiles(L, s) : Leads(x, s)

\* What a move took away was below the item of a task that has ended.
TakenByEnded(L) ==
    pc = "move" /\ moveType = "move" =>
        Clear(list) /\ \A x \in All(L) \ tree : \E i \in Ended : IsPrefix(list[i].path, x.path)

PlacedByEnded ==
    pc = "move" => \A p \in placed : \E i \in Ended : p = <<p[1], list[i].spec>> /\ IsPrefix(list[i].path, p[1])

\* The server has carried out task i.
Carried(L, i) ==
    \A x \in All(L) : IsPrefix(list[i].path, x.path) =>
        <<x.path, list[i].spec>> \in placed /\ (moveType = "move" => x \notin tree)

CountedAreCarried(L) ==
    pc = "move" /\ ~failed /\ ~dryRun => succeeded <= Cardinality({i \in Ended : Carried(L, i)})

MoveInv(L) ==
    /\ MoveTypes(L) /\ MoveTasks(L) /\ HeldByReaders(L) /\ HeldByTasks(L)
    /\ TakenByEnded(L) /\ PlacedByEnded /\ CountedAreCarried(L)
    /\ M!NilMeansPlaced

LEMMA NotMovedYet == ASSUME NEW L, MoveTypes(L), pc # "done" PROVE M!NilMeansPlaced
BY DEF MoveTypes, M!NilMeansPlaced

LEMMA MoveInitially == ASSUME M!Init PROVE specs \in SpecLists /\ MoveInv(specs)
<1>1. /\ moveType \in {"move", "copy"} /\ specs \in SpecLists /\ dryRun \in BOOLEAN
      /\ tree = UNION {specs[s].found : s \in DOMAIN specs}
      /\ pc = "search" /\ readers = <<>> /\ list = <<>> /\ next = 1 /\ running = {} /\ succeeded = 0
      /\ failed = FALSE /\ placed = {} /\ err = "none"
  BY Zenon DEF M!Init
<1>2. Len(specs) \in Nat
  BY <1>1, SpecsAre
<1>3. MoveTypes(specs)
  <2>1. tree = All(specs)
    BY <1>1 DEF All
  <2>2. readers \in Seq(Seq(Item)) /\ DOMAIN readers = {} /\ Len(readers) <= Len(specs)
    BY <1>1, <1>2
  <2> QED BY <1>1, <2>1, <2>2 DEF MoveTypes
<1>4. MoveTasks(specs)
  <2>1. list \in Seq(Jobs(specs)) /\ next \in 1 .. Len(list) + 1 /\ running \subseteq 1 .. next - 1 /\ succeeded \in Nat
    BY <1>1
  <2>2. failed \in BOOLEAN
    BY <1>1, Zenon
  <2> QED BY <1>1, <2>1, <2>2 DEF MoveTasks
<1>5. HeldByReaders(specs)
  <2>1. DOMAIN readers = {}
    BY <1>1
  <2> QED BY <2>1 DEF HeldByReaders
<1>6. HeldByTasks(specs) /\ TakenByEnded(specs) /\ PlacedByEnded /\ CountedAreCarried(specs) /\ M!NilMeansPlaced
  BY <1>1 DEF HeldByTasks, TakenByEnded, PlacedByEnded, CountedAreCarried, M!NilMeansPlaced
<1> QED BY <1>1, <1>3, <1>4, <1>5, <1>6 DEF MoveInv

\* A file is at or below what holds it.
LEMMA FileIs ==
    ASSUME NEW L \in SpecLists, NEW s \in DOMAIN L, NEW x \in FoundFiles(L, s)
    PROVE  /\ x \in L[s].found /\ x \in All(L) /\ x.type = "file" /\ IsItem(x) /\ ~IsRepoRoot(x)
           /\ x.path \in Seq(Name) /\ IsPrefix(x.path, x.path)
<1>1. x \in L[s].found /\ x \in All(L) /\ x.type = "file" /\ IsItem(x)
  BY SpecsAre DEF FoundFiles
<1>2. x.path \in Seq(Name) /\ ~IsRepoRoot(x)
  BY <1>1 DEF IsItem, IsRepoRoot
<1> QED BY <1>1, <1>2, PrefixItself

\* What becomes of the results of one spec.
LEMMA ReaderIs ==
    ASSUME NEW L \in SpecLists, NEW s \in DOMAIN L,
           NEW r \in IF L[s].type = "pattern" THEN M!ReduceMovePaths(M!InOrder(L[s].found), L[s].flat)
                     ELSE M!AsTheyAre(M!InOrder(L[s].found))
    PROVE  /\ r.items \in Seq(L[s].found)
           /\ ~r.lost => \A x \in FoundFiles(L, s) : Holds(r.items, x)
<1> DEFINE S == L[s].found
           f == InOrder(S)
<1>1. IsFiniteSet(S) /\ (\A x \in S : IsItem(x)) /\ FitPaths(S)
  BY SpecsAre
<1>2. f \in Seq(S) /\ ToSet(f) = S
  BY <1>1, InOrderLists
<1>3. \A x \in FoundFiles(L, s) : x \in S /\ x.type = "file" /\ ~IsRepoRoot(x) /\ x.path \in Seq(Name)
                                  /\ IsPrefix(x.path, x.path)
  BY FileIs
<1> HIDE DEF f, S
<1>4. CASE r \in M!AsTheyAre(f)
  <2>1. r.items = f
    BY <1>4 DEF M!AsTheyAre
  <2>2. ASSUME NEW x \in FoundFiles(L, s) PROVE Holds(f, x)
    <3>1. PICK n \in DOMAIN f : f[n] = x
      BY <1>2, <1>3 DEF ToSet
    <3> QED BY <1>3, <3>1 DEF Holds
  <2> QED BY <1>2, <2>1, <2>2 DEF S
<1>5. CASE \E seen \in Readable(SortedBuffers(f, TRUE), MayLose) :
             r = [items |-> ReduceTopChain(seen), lost |-> seen # SortedBuffers(f, TRUE)]
  <2>1. PICK seen \in Readable(SortedBuffers(f, TRUE), MayLose) :
               r = [items |-> ReduceTopChain(seen), lost |-> seen # SortedBuffers(f, TRUE)]
    BY <1>5
  <2>2. r.items = ReduceTopChain(seen) /\ r.lost = (seen # SortedBuffers(f, TRUE))
    BY <2>1
  <2>3. ReduceTopChain(seen) \in Seq(S) /\ \A n \in DOMAIN ReduceTopChain(seen) : ~IsRepoRoot(ReduceTopChain(seen)[n])
    BY <1>1, <1>2, <2>1, ReduceTopIs
  <2>4. seen = SortedBuffers(f, TRUE) =>
            \A x \in S : ~IsRepoRoot(x) =>
                \E n \in DOMAIN ReduceTopChain(seen) :
                    \/ ReduceTopChain(seen)[n].path = x.path /\ ReduceTopChain(seen)[n].type = x.type
                    \/ ReduceTopChain(seen)[n].type = "folder" /\ IsPrefix(ReduceTopChain(seen)[n].path, x.path)
    BY <1>1, <1>2, <2>1, ReduceTopIs
  <2>5. ASSUME ~r.lost, NEW x \in FoundFiles(L, s) PROVE Holds(r.items, x)
    <3>1. PICK n \in DOMAIN ReduceTopChain(seen) :
                    \/ ReduceTopChain(seen)[n].path = x.path /\ ReduceTopChain(seen)[n].type = x.type
                    \/ ReduceTopChain(seen)[n].type = "folder" /\ IsPrefix(ReduceTopChain(seen)[n].path, x.path)
      BY <1>3, <2>2, <2>4, <2>5
    <3> QED BY <1>3, <2>2, <2>3, <3>1 DEF Holds
  <2> QED BY <2>2, <2>3, <2>5 DEF S
<1>6. CASE \E seen \in Readable(SortedBuffers(f, FALSE), MayLose) :
             r = [items |-> ReduceBottomChain(seen), lost |-> seen # SortedBuffers(f, FALSE)]
  <2>1. PICK seen \in Readable(SortedBuffers(f, FALSE), MayLose) :
               r = [items |-> ReduceBottomChain(seen), lost |-> seen # SortedBuffers(f, FALSE)]
    BY <1>6
  <2>2. r.items = ReduceBottomChain(seen) /\ r.lost = (seen # SortedBuffers(f, FALSE))
    BY <2>1
  <2>3. ReduceBottomChain(seen) \in Seq(S)
    BY <1>1, <1>2, <2>1, ReduceBottomIs
  <2>4. seen = SortedBuffers(f, FALSE) =>
            \A x \in S : ~IsRepoRoot(x) =>
                \E n \in DOMAIN ReduceBottomChain(seen) : IsPrefix(x.path, ReduceBottomChain(seen)[n].path)
    BY <1>1, <1>2, <2>1, ReduceBottomIs
  <2>5. ASSUME ~r.lost, NEW x \in FoundFiles(L, s) PROVE Holds(r.items, x)
    <3>1. PICK n \in DOMAIN ReduceBottomChain(seen) : IsPrefix(x.path, ReduceBottomChain(seen)[n].path)
      BY <1>3, <2>2, <2>4, <2>5
    <3>2. ReduceBottomChain(seen)[n] \in S
      BY <2>3
    <3>3. ReduceBottomChain(seen)[n].path = x.path
      BY <1>1, <1>3, <3>1, <3>2 DEF FitPaths
    <3> QED BY <1>3, <2>2, <3>3 DEF Holds, IsRepoRoot
  <2> QED BY <2>2, <2>3, <2>5 DEF S
<1>7. M!InOrder(S) = f
  BY MoveOperators DEF f
<1>8. CASE L[s].type # "pattern"
  BY <1>4, <1>7, <1>8 DEF S
<1>9. CASE L[s].type = "pattern" /\ L[s].flat = TRUE
  <2>1. r \in M!ReduceMovePaths(f, TRUE)
    BY <1>7, <1>9, Zenon DEF S
  <2>2. PICK seen \in Readable(SortedBuffers(f, FALSE), MayLose) :
             r = [items |-> ReduceBottomChain(seen), lost |-> seen # SortedBuffers(f, FALSE)]
    <3>1. ~TRUE = FALSE
      OBVIOUS
    <3> QED BY <2>1, <3>1, MoveOperators, Zenon DEF M!ReduceMovePaths
  <2> QED BY <1>6, <2>2
<1>10. CASE L[s].type = "pattern" /\ L[s].flat = FALSE
  <2>1. r \in M!ReduceMovePaths(f, FALSE)
    BY <1>7, <1>10, Zenon DEF S
  <2>2. PICK seen \in Readable(SortedBuffers(f, TRUE), MayLose) :
             r = [items |-> ReduceTopChain(seen), lost |-> seen # SortedBuffers(f, TRUE)]
    <3>1. ~FALSE = TRUE
      OBVIOUS
    <3> QED BY <2>1, <3>1, MoveOperators, Zenon DEF M!ReduceMovePaths
  <2> QED BY <1>5, <2>2
<1>11. L[s].flat = TRUE \/ L[s].flat = FALSE
  <2>1. L[s].flat \in BOOLEAN
    BY SpecsAre
  <2> QED BY <2>1, Zenon
<1> QED BY <1>8, <1>9, <1>10, <1>11

-----------------------------------------------------------------------------
(* The search, the reduction and the merge of what the specs find             *)

LEMMA PathsToMoveKept == ASSUME NEW L \in SpecLists, MoveInv(L), M!GetPathsToMove PROVE MoveInv(L)'
<1> DEFINE s == Len(readers) + 1
<1>1. specs = L /\ pc = "search" /\ Len(readers) < Len(L)
  BY DEF M!GetPathsToMove, MoveInv, MoveTypes
<1>2. PICK r \in IF L[s].type = "pattern" THEN M!ReduceMovePaths(M!InOrder(L[s].found), L[s].flat)
                 ELSE M!AsTheyAre(M!InOrder(L[s].found)) :
          readers' = Append(readers, r.items) /\ lost' = (lost \/ r.lost)
  BY <1>1 DEF M!GetPathsToMove
<1>3. UNCHANGED <<tree, moveType, dryRun, specs, pc, list, next, running, succeeded, failed, prepared, placed, err>>
  BY DEF M!GetPathsToMove, M!input, M!tasks
<1>4. /\ readers \in Seq(Seq(Item)) /\ Len(readers) \in Nat /\ Len(L) \in Nat
      /\ s \in DOMAIN L /\ s = Len(readers) + 1 /\ DOMAIN readers = 1 .. Len(readers)
  <2>1. readers \in Seq(Seq(Item)) /\ Len(L) \in Nat /\ DOMAIN L = 1 .. Len(L)
    BY SpecsAre DEF MoveInv, MoveTypes
  <2> QED BY <1>1, <2>1
<1>5. r.items \in Seq(L[s].found) /\ (~r.lost => \A x \in FoundFiles(L, s) : Holds(r.items, x))
  BY <1>2, <1>4, ReaderIs
<1> HIDE DEF s
<1>6. /\ readers' \in Seq(Seq(Item)) /\ Len(readers') = s /\ DOMAIN readers' = 1 .. s
      /\ readers'[s] = r.items /\ \A k \in 1 .. Len(readers) : readers'[k] = readers[k]
  <2>1. r.items \in Seq(Item)
    BY <1>4, <1>5, SpecsAre, SeqMonotonic
  <2> QED BY <1>2, <1>4, <2>1
<1>7. \A k \in DOMAIN readers' : k = s \/ (k \in DOMAIN readers /\ readers'[k] = readers[k])
  BY <1>4, <1>6
<1>8. MoveTypes(L)'
  <2>1. Len(readers') <= Len(L)
    BY <1>1, <1>4, <1>6
  <2>2. \A k \in DOMAIN readers' : readers'[k] \in Seq(L[k].found)
    BY <1>5, <1>6, <1>7 DEF MoveInv, MoveTypes
  <2> QED BY <1>3, <1>6, <2>1, <2>2 DEF MoveInv, MoveTypes
<1>9. MoveTasks(L)'
  BY <1>3 DEF MoveInv, MoveTasks
<1>10. HeldByReaders(L)'
  <2> SUFFICES ASSUME ~lost', NEW k \in DOMAIN readers', NEW x \in FoundFiles(L, k) PROVE Holds(readers'[k], x)
    BY DEF HeldByReaders, Holds, FoundFiles
  <2>1. ~lost /\ ~r.lost
    BY <1>2
  <2> QED BY <1>1, <1>5, <1>6, <1>7, <2>1 DEF MoveInv, HeldByReaders
<1>11. HeldByTasks(L)' /\ TakenByEnded(L)' /\ PlacedByEnded' /\ CountedAreCarried(L)'
  BY <1>1, <1>3 DEF HeldByTasks, TakenByEnded, PlacedByEnded, CountedAreCarried
<1>12. (M!NilMeansPlaced)'
  BY <1>1, <1>3, <1>8 DEF MoveTypes, M!NilMeansPlaced
<1> QED BY <1>8, <1>9, <1>10, <1>11, <1>12 DEF MoveInv

LEMMA MoveSearchFailsKept == ASSUME NEW L \in SpecLists, MoveInv(L), M!SearchFails PROVE MoveInv(L)'
<1>1. /\ pc = "search" /\ pc' = "done" /\ err' = "err"
      /\ UNCHANGED <<tree, moveType, dryRun, specs, readers, list, next, running, succeeded, failed, placed, lost>>
  BY DEF M!SearchFails, M!Return, M!input, M!tasks
<1>2. MoveTypes(L)' /\ MoveTasks(L)'
  BY <1>1 DEF MoveInv, MoveTypes, MoveTasks
<1>3. /\ HeldByReaders(L)' /\ HeldByTasks(L)' /\ TakenByEnded(L)' /\ PlacedByEnded' /\ CountedAreCarried(L)'
      /\ (M!NilMeansPlaced)'
  BY <1>1 DEF HeldByReaders, HeldByTasks, TakenByEnded, PlacedByEnded, CountedAreCarried, M!NilMeansPlaced
<1> QED BY <1>2, <1>3 DEF MoveInv

LEMMA ReadersJobs ==
    ASSUME NEW L \in SpecLists, MoveTypes(L)
    PROVE  /\ \A s \in DOMAIN readers : s \in DOMAIN L /\ JobsOf(s) \in Seq(Jobs(L))
           /\ \A s \in DOMAIN readers : \A n \in DOMAIN readers[s] : Job(readers[s][n], s) \in ToSet(JobsOf(s))
<1>1. ASSUME NEW s \in DOMAIN readers
      PROVE  /\ s \in DOMAIN L /\ JobsOf(s) \in Seq(Jobs(L))
             /\ \A n \in DOMAIN readers[s] : Job(readers[s][n], s) \in ToSet(JobsOf(s))
  <2>1. s \in DOMAIN L
    <3>1. Len(L) \in Nat /\ DOMAIN L = 1 .. Len(L)
      BY SpecsAre
    <3>2. readers \in Seq(Seq(Item)) /\ Len(readers) <= Len(L)
      BY DEF MoveTypes
    <3> QED BY <3>1, <3>2
  <2>2. readers[s] \in Seq(L[s].found)
    BY DEF MoveTypes
  <2>3. DOMAIN JobsOf(s) = DOMAIN readers[s] /\ \A n \in DOMAIN readers[s] : JobsOf(s)[n] = Job(readers[s][n], s)
    BY DEF JobsOf, Job
  <2>4. Len(readers[s]) \in Nat /\ DOMAIN readers[s] = 1 .. Len(readers[s])
        /\ \A n \in DOMAIN readers[s] : readers[s][n] \in L[s].found
    BY <2>2
  <2>5. \A n \in 1 .. Len(readers[s]) : JobsOf(s)[n] \in Jobs(L)
    BY <2>1, <2>3, <2>4 DEF Jobs
  <2>6. JobsOf(s) \in [1 .. Len(readers[s]) -> Jobs(L)]
    <3>1. JobsOf(s) = [n \in DOMAIN JobsOf(s) |-> JobsOf(s)[n]]
      BY DEF JobsOf
    <3> QED BY <2>3, <2>4, <2>5, <3>1
  <2>7. JobsOf(s) \in Seq(Jobs(L))
    BY <2>4, <2>6
  <2> QED BY <2>1, <2>3, <2>7 DEF ToSet
<1> QED BY <1>1

\* What the tasks of the merged readers lead to.
LEMMA MergedLeads ==
    ASSUME NEW L \in SpecLists, MoveInv(L), pc = "search", Len(readers) = Len(L)
    PROVE  /\ M!Merged \in Seq(Jobs(L))
           /\ ~lost => \A s \in DOMAIN L : \A x \in FoundFiles(L, s) : \E j \in ToSet(M!Merged) :
                  j.spec = s /\ ~IsRepoRoot(j) /\ IsPrefix(j.path, x.path)
<1>1. readers \in Seq(Seq(Item)) /\ \A s \in DOMAIN readers : s \in DOMAIN L /\ JobsOf(s) \in Seq(Jobs(L))
  BY ReadersJobs DEF MoveInv, MoveTypes
<1>2. /\ M!Merged \in Seq(Jobs(L))
      /\ \A s \in DOMAIN readers : \A x \in ToSet(JobsOf(s)) : x \in ToSet(M!Merged)
  BY <1>1, JobsMerged
<1>3. ASSUME ~lost, NEW s \in DOMAIN L, NEW x \in FoundFiles(L, s)
      PROVE  \E j \in ToSet(M!Merged) : j.spec = s /\ ~IsRepoRoot(j) /\ IsPrefix(j.path, x.path)
  <2>1. s \in DOMAIN readers
    <3>1. Len(L) \in Nat /\ DOMAIN L = 1 .. Len(L)
      BY SpecsAre
    <3> QED BY <1>1, <3>1
  <2>2. PICK n \in DOMAIN readers[s] : ~IsRepoRoot(readers[s][n]) /\ IsPrefix(readers[s][n].path, x.path)
    BY <1>3, <2>1 DEF MoveInv, HeldByReaders, Holds
  <2> DEFINE j == Job(readers[s][n], s)
  <2>3. j \in ToSet(M!Merged)
    BY <1>2, <2>1, ReadersJobs DEF MoveInv
  <2>4. j.spec = s /\ j.path = readers[s][n].path
    BY DEF Job
  <2> HIDE DEF j
  <2> QED BY <2>2, <2>3, <2>4 DEF IsRepoRoot
<1> QED BY <1>2, <1>3

\* The tasks begin.
LEMMA MergeKept == ASSUME NEW L \in SpecLists, MoveInv(L), M!MergeReaders PROVE MoveInv(L)'
<1>1. /\ specs = L /\ pc = "search" /\ Len(readers) = Len(L) /\ tree = All(L) /\ placed = {}
      /\ moveType \in {"move", "copy"}
  BY DEF M!MergeReaders, MoveInv, MoveTypes
<1>2. PICK r \in IF moveType = "move" THEN M!ReduceMovePaths(M!Merged, FALSE) ELSE M!AsTheyAre(M!Merged) :
          M!Begins(r.items) /\ lost' = (lost \/ r.lost)
  BY DEF M!MergeReaders
<1>3. /\ pc' = "move"
      /\ list' = r.items /\ next' = 1 /\ running' = {} /\ succeeded' = 0 /\ failed' = FALSE
      /\ UNCHANGED <<tree, moveType, dryRun, specs, readers, placed, err>>
  BY <1>2 DEF M!MergeReaders, M!Begins, M!input
<1> DEFINE m == M!Merged
<1>4. /\ m \in Seq(Jobs(L))
      /\ ~lost => \A s \in DOMAIN L : \A x \in FoundFiles(L, s) : \E j \in ToSet(m) :
             j.spec = s /\ ~IsRepoRoot(j) /\ IsPrefix(j.path, x.path)
  BY <1>1, MergedLeads
<1> HIDE DEF m
<1>5. (\A j \in Jobs(L) : IsItem(j)) /\ FitPaths(Jobs(L)) /\ ToSet(m) \subseteq Jobs(L)
  BY <1>4, JobsAre, SeqOfElements
<1>6. /\ r.items \in Seq(Jobs(L))
      /\ moveType = "move" => Clear(r.items)
      /\ ~lost' => \A s \in DOMAIN L : \A x \in FoundFiles(L, s) : \E n \in DOMAIN r.items :
             IsPrefix(r.items[n].path, x.path) /\ (moveType = "copy" => r.items[n].spec = s)
  <2>1. CASE moveType = "copy"
    <3>1. r.items = m
      BY <1>2, <2>1 DEF M!AsTheyAre, m
    <3>2. ASSUME ~lost', NEW s \in DOMAIN L, NEW x \in FoundFiles(L, s)
          PROVE  \E n \in DOMAIN m : IsPrefix(m[n].path, x.path) /\ m[n].spec = s
      <4>1. PICK j \in ToSet(m) : j.spec = s /\ IsPrefix(j.path, x.path)
        BY <1>2, <1>4, <3>2
      <4> QED BY <4>1 DEF ToSet
    <3> QED BY <1>4, <2>1, <3>1, <3>2
  <2>2. CASE moveType = "move"
    <3>1. r \in M!ReduceMovePaths(m, FALSE)
      BY <1>2, <2>2, Zenon DEF m
    <3>2. PICK seen \in Readable(SortedBuffers(m, TRUE), MayLose) :
               r = [items |-> ReduceTopChain(seen), lost |-> seen # SortedBuffers(m, TRUE)]
      <4>1. ~FALSE = TRUE
        OBVIOUS
      <4> QED BY <3>1, <4>1, MoveOperators, Zenon DEF M!ReduceMovePaths
    <3> DEFINE t == ReduceTopChain(seen)
    <3>3. r.items = t /\ r.lost = (seen # SortedBuffers(m, TRUE))
      BY <3>2
    <3>4. t \in Seq(ToSet(m)) /\ Clear(t)
      BY <1>4, <1>5, <3>2, ReduceTopIs
    <3>5. seen = SortedBuffers(m, TRUE) =>
              \A x \in ToSet(m) : ~IsRepoRoot(x) =>
                  \E n \in DOMAIN t : \/ t[n].path = x.path /\ t[n].type = x.type
                                      \/ t[n].type = "folder" /\ IsPrefix(t[n].path, x.path)
      BY <1>4, <1>5, <3>2, ReduceTopIs
    <3> HIDE DEF t
    <3>6. t \in Seq(Jobs(L))
      BY <1>5, <3>4, SeqMonotonic
    <3>7. ASSUME ~lost', NEW s \in DOMAIN L, NEW x \in FoundFiles(L, s)
          PROVE  \E n \in DOMAIN t : IsPrefix(t[n].path, x.path)
      <4>1. PICK j \in ToSet(m) : ~IsRepoRoot(j) /\ IsPrefix(j.path, x.path)
        BY <1>2, <1>4, <3>7
      <4>2. PICK n \in DOMAIN t : t[n].path = j.path \/ IsPrefix(t[n].path, j.path)
        BY <1>2, <3>3, <3>5, <3>7, <4>1
      <4>3. t[n].path \in Seq(Name) /\ j.path \in Seq(Name) /\ x.path \in Seq(Name)
        BY <1>5, <3>6, FileIs DEF IsItem
      <4>4. IsPrefix(t[n].path, x.path)
        BY <4>1, <4>2, <4>3, PrefixTransitive
      <4> QED BY <4>4
    <3> QED BY <2>2, <3>3, <3>4, <3>6, <3>7
  <2> QED BY <1>1, <2>1, <2>2
<1>7. Len(list') \in Nat /\ DOMAIN list' = 1 .. Len(list')
  BY <1>3, <1>6
<1>8. MoveTypes(L)'
  BY <1>1, <1>3 DEF MoveInv, MoveTypes
<1>9. MoveTasks(L)'
  <2>1. next' \in 1 .. Len(list') + 1 /\ running' \subseteq 1 .. next' - 1 /\ succeeded' \in Nat
    BY <1>3, <1>7
  <2>2. failed' \in BOOLEAN
    BY <1>3, Zenon
  <2> QED BY <1>3, <1>6, <2>1, <2>2 DEF MoveTasks
<1>10. HeldByReaders(L)' /\ PlacedByEnded' /\ (M!NilMeansPlaced)'
  BY <1>1, <1>3, <1>8 DEF HeldByReaders, PlacedByEnded, MoveTypes, M!NilMeansPlaced
<1>11. HeldByTasks(L)'
  <2> SUFFICES ASSUME ~lost', NEW s \in DOMAIN L, NEW x \in FoundFiles(L, s)
               PROVE  \E n \in 1 .. Len(list') : IsPrefix(list'[n].path, x.path) /\ (moveType' = "copy" => list'[n].spec = s)
    BY DEF HeldByTasks, Leads, FoundFiles
  <2> QED BY <1>3, <1>6, <1>7
<1>12. TakenByEnded(L)'
  BY <1>1, <1>3, <1>6 DEF TakenByEnded
<1>13. CountedAreCarried(L)'
  <2>1. Ended' = {}
    BY <1>3 DEF Ended
  <2>2. {i \in Ended : Carried(L, i)}' = {}
    BY <2>1
  <2>3. Cardinality({}) = 0
    BY FS_EmptySet
  <2> QED BY <1>3, <2>2, <2>3 DEF CountedAreCarried
<1> QED BY <1>8, <1>9, <1>10, <1>11, <1>12, <1>13 DEF MoveInv

-----------------------------------------------------------------------------
(* moveFiles                                                                  *)

LEMMA MoveTasksAre ==
    ASSUME NEW L \in SpecLists, MoveTasks(L)
    PROVE  /\ Len(list) \in Nat /\ DOMAIN list = 1 .. Len(list) /\ next \in Nat /\ next >= 1
           /\ \A i \in running : i \in 1 .. Len(list) /\ i \in Nat /\ i < next
           /\ \A i \in Ended : i \in 1 .. Len(list) /\ i \in Nat /\ i < next
           /\ \A i \in 1 .. Len(list) : list[i] \in Jobs(L) /\ list[i].path \in Seq(Name)
           /\ \A S : S \subseteq Ended => IsFiniteSet(S) /\ Cardinality(S) \in Nat
<1>1. /\ Len(list) \in Nat /\ DOMAIN list = 1 .. Len(list) /\ next \in Nat /\ next >= 1
      /\ \A i \in running : i \in 1 .. Len(list) /\ i \in Nat /\ i < next
      /\ \A i \in 1 .. Len(list) : list[i] \in Jobs(L)
  BY DEF MoveTasks
<1>2. \A i \in Ended : i \in 1 .. Len(list) /\ i \in Nat /\ i < next
  BY DEF Ended, MoveTasks
<1>3. \A i \in 1 .. Len(list) : list[i].path \in Seq(Name)
  BY <1>1, JobsAre DEF IsItem
<1>4. ASSUME NEW S, S \subseteq Ended PROVE IsFiniteSet(S) /\ Cardinality(S) \in Nat
  <2>1. S \subseteq 1 .. next - 1 /\ 1 \in Int /\ next - 1 \in Int
    BY <1>1, <1>4 DEF Ended
  <2>2. IsFiniteSet(1 .. next - 1)
    BY <2>1, FS_Interval
  <2> QED BY <2>1, <2>2, FS_Subset, FS_CardinalityType
<1> QED BY <1>1, <1>2, <1>3, <1>4

\* Steps that leave the tree, the list and the ended tasks alone.
LEMMA NothingMoved ==
    ASSUME NEW L \in SpecLists, MoveInv(L), pc = "move", MoveTypes(L)', MoveTasks(L)',
           UNCHANGED <<tree, moveType, dryRun, pc, list, succeeded, failed, placed, lost>>, Ended' = Ended
    PROVE  MoveInv(L)'
<1>1. HeldByReaders(L)' /\ HeldByTasks(L)'
  BY DEF HeldByReaders, HeldByTasks, Leads, MoveInv
<1>2. TakenByEnded(L)' /\ PlacedByEnded'
  BY DEF TakenByEnded, PlacedByEnded, MoveInv, Clear
<1>3. CountedAreCarried(L)'
  <2>1. {i \in Ended : Carried(L, i)}' = {i \in Ended : Carried(L, i)}
    BY DEF Carried
  <2> QED BY <2>1 DEF CountedAreCarried, MoveInv
<1>4. (M!NilMeansPlaced)'
  BY DEF MoveTypes, M!NilMeansPlaced
<1> QED BY <1>1, <1>2, <1>3, <1>4 DEF MoveInv

LEMMA MoveStartKept == ASSUME NEW L \in SpecLists, MoveInv(L), M!StartTask PROVE MoveInv(L)'
<1>1. /\ pc = "move" /\ next <= Len(list) /\ next' = next + 1 /\ running' = running \cup {next}
      /\ UNCHANGED <<tree, moveType, dryRun, specs, pc, readers, list, succeeded, failed, placed, lost, err>>
  BY DEF M!StartTask, M!Take, M!UnchangedInTasks, M!input
<1>2. next \notin running /\ next \in Nat /\ next >= 1 /\ Len(list) \in Nat
  BY MoveTasksAre DEF MoveInv
<1>3. MoveTypes(L)'
  BY <1>1 DEF MoveInv, MoveTypes
<1>4. MoveTasks(L)'
  <2>1. next' \in 1 .. Len(list) + 1 /\ running' \subseteq 1 .. next' - 1
    BY <1>1, <1>2 DEF MoveInv, MoveTasks
  <2> QED BY <1>1, <2>1 DEF MoveInv, MoveTasks
<1>5. Ended' = Ended
  <2>1. \A i \in 1 .. next' - 1 : i \in 1 .. next - 1 \/ i = next
    BY <1>1, <1>2
  <2>2. \A i \in 1 .. next - 1 : i \in 1 .. next' - 1 /\ i # next
    BY <1>1, <1>2
  <2> QED BY <1>1, <2>1, <2>2 DEF Ended
<1> QED BY <1>1, <1>3, <1>4, <1>5, NothingMoved

LEMMA CreatePathKept ==
    ASSUME NEW L \in SpecLists, MoveInv(L), pc = "move", NEW i \in running, M!CreatePath(i)
    PROVE  MoveInv(L)'
<1>1. UNCHANGED <<tree, moveType, dryRun, specs, pc, readers, list, next, running, succeeded, failed, placed, lost, err>>
  BY DEF M!CreatePath, M!UnchangedInTasks, M!input, M!tasks
<1>2. MoveTypes(L)' /\ MoveTasks(L)' /\ Ended' = Ended
  BY <1>1 DEF MoveInv, MoveTypes, MoveTasks, Ended
<1> QED BY <1>1, <1>2, NothingMoved

(* A task ends, with or without its request: what is below its item and still *)
(* there is placed, or nothing is.                                            *)
LEMMA MoveTaskKept ==
    ASSUME NEW L \in SpecLists, MoveInv(L), pc = "move", NEW i \in running,
           M!MoveItem(i) \/ M!MoveRefused(i) \/ M!MoveFails(i) \/ M!PathFails(i)
    PROVE  MoveInv(L)'
<1> DEFINE Below(x) == IsPrefix(list[i].path, x.path)
           New == {<<x.path, list[i].spec>> : x \in {y \in tree : Below(y)}}
           Done == /\ placed' = placed \cup New
                   /\ tree' = IF moveType = "move" THEN {x \in tree : ~Below(x)} ELSE tree
           Idle == placed' = placed /\ tree' = tree
<1>1. M!Carry(i) => IF dryRun THEN Idle ELSE Done
  <2>1. M!Affected(i) = {y \in tree : Below(y)}
    BY MoveOperators DEF M!Affected
  <2>2. tree \ M!Affected(i) = {x \in tree : ~Below(x)}
    BY <2>1
  <2> QED BY <2>1, <2>2 DEF M!Carry
<1>2. /\ running' = running \ {i}
      /\ UNCHANGED <<moveType, dryRun, specs, pc, readers, list, next, lost, err>>
  BY DEF M!MoveItem, M!MoveRefused, M!MoveFails, M!PathFails, M!Request, M!Succeeds, M!Fails, M!Uncounted, M!Ends,
         M!UnchangedInTasks, M!input
<1>3. \/ succeeded' = succeeded /\ failed' = failed /\ Idle
      \/ succeeded' = succeeded /\ failed' = TRUE /\ (Idle \/ (~dryRun /\ Done))
      \/ succeeded' = succeeded + 1 /\ failed' = failed /\ IF dryRun THEN Idle ELSE Done
  BY <1>1 DEF M!MoveItem, M!MoveRefused, M!MoveFails, M!PathFails, M!Request, M!Succeeds, M!Fails, M!Uncounted, M!Ends
<1>4. Idle \/ (Done /\ ~dryRun)
  BY <1>3
<1>5. /\ i \in 1 .. Len(list) /\ i \in Nat /\ i < next /\ next \in Nat /\ i \in DOMAIN list /\ i \notin Ended
      /\ list[i].path \in Seq(Name) /\ succeeded \in Nat /\ failed \in BOOLEAN /\ moveType \in {"move", "copy"}
      /\ tree \subseteq All(L)
  BY MoveTasksAre DEF MoveInv, MoveTasks, MoveTypes, Ended
<1>6. Ended' = Ended \cup {i}
  BY <1>2, <1>5 DEF Ended
<1>7. /\ tree' \subseteq tree /\ placed \subseteq placed' /\ (moveType = "copy" => tree' = tree)
      /\ \A x \in tree \ tree' : Below(x)
      /\ \A p \in placed' \ placed : \E x \in All(L) : p = <<x.path, list[i].spec>> /\ Below(x)
  BY <1>4, <1>5
<1>8. Done => \A x \in tree : Below(x) => <<x.path, list[i].spec>> \in placed' /\ (moveType = "move" => x \notin tree')
  OBVIOUS
<1> HIDE DEF Done, Idle, New
<1>9. MoveTypes(L)'
  BY <1>2, <1>7 DEF MoveInv, MoveTypes
<1>10. MoveTasks(L)'
  <2>1. failed' \in BOOLEAN
    BY <1>3, <1>5, Zenon
  <2>2. succeeded' \in Nat
    BY <1>3, <1>5
  <2>3. running' \subseteq 1 .. next' - 1 /\ next' \in 1 .. Len(list') + 1 /\ list' \in Seq(Jobs(L))
    BY <1>2 DEF MoveInv, MoveTasks
  <2> QED BY <1>2, <2>1, <2>2, <2>3 DEF MoveTasks
<1>11. ~failed' => ~failed
  BY <1>3
<1>12. HeldByReaders(L)' /\ HeldByTasks(L)'
  BY <1>2, <1>11 DEF HeldByReaders, HeldByTasks, Leads, MoveInv
<1>13. TakenByEnded(L)'
  <2> SUFFICES ASSUME moveType = "move"
               PROVE  Clear(list) /\ \A x \in All(L) \ tree' : \E j \in Ended' : IsPrefix(list[j].path, x.path)
    BY <1>2 DEF TakenByEnded, Clear
  <2>1. Clear(list) /\ \A x \in All(L) \ tree : \E j \in Ended : IsPrefix(list[j].path, x.path)
    BY DEF MoveInv, TakenByEnded
  <2>2. ASSUME NEW x \in All(L), x \notin tree' PROVE \E j \in Ended' : IsPrefix(list[j].path, x.path)
    <3>1. CASE x \in tree
      BY <1>6, <1>7, <2>2, <3>1
    <3>2. CASE x \notin tree
      BY <1>6, <2>1, <3>2
    <3> QED BY <3>1, <3>2
  <2> QED BY <2>1, <2>2
<1>14. PlacedByEnded'
  <2>1. ASSUME NEW p \in placed' PROVE \E j \in Ended' : p = <<p[1], list[j].spec>> /\ IsPrefix(list[j].path, p[1])
    <3>1. CASE p \in placed
      BY <1>6, <3>1 DEF MoveInv, PlacedByEnded
    <3>2. CASE p \notin placed
      <4>1. PICK x \in All(L) : p = <<x.path, list[i].spec>> /\ Below(x)
        BY <1>7, <2>1, <3>2
      <4>2. p[1] = x.path /\ p = <<p[1], list[i].spec>>
        BY <4>1
      <4> QED BY <1>6, <4>1, <4>2
    <3> QED BY <3>1, <3>2
  <2> QED BY <1>2, <2>1 DEF PlacedByEnded

\* What an ended task carried stays carried.
<1>15. \A j \in Ended : Carried(L, j) => Carried(L, j)'
  <2>1. ASSUME NEW j \in Ended, Carried(L, j), NEW x \in All(L), IsPrefix(list[j].path, x.path)
        PROVE  <<x.path, list[j].spec>> \in placed' /\ (moveType = "move" => x \notin tree')
    BY <1>7, <2>1 DEF Carried
  <2> QED BY <1>2, <2>1 DEF Carried
<1>16. ASSUME Done PROVE Carried(L, i)'
  <2> SUFFICES ASSUME NEW x \in All(L), Below(x)
               PROVE  <<x.path, list[i].spec>> \in placed' /\ (moveType = "move" => x \notin tree')
    BY <1>2 DEF Carried
  <2>1. x \in tree
    <3>1. CASE moveType = "copy"
      BY <3>1 DEF MoveInv, MoveTypes
    <3>2. CASE moveType = "move"
      <4>1. Clear(list) /\ \A y \in All(L) \ tree : \E j \in Ended : IsPrefix(list[j].path, y.path)
        BY <3>2 DEF MoveInv, TakenByEnded
      <4>2. ASSUME x \notin tree PROVE FALSE
        <5>1. PICK j \in Ended : IsPrefix(list[j].path, x.path)
          BY <4>1, <4>2
        <5>2. j \in DOMAIN list /\ j # i /\ list[j].path \in Seq(Name) /\ x.path \in Seq(Name)
          BY <1>5, MoveTasksAre, SpecsAre DEF MoveInv, IsItem
        <5>3. Len(list[i].path) \in Nat /\ Len(list[j].path) \in Nat
          BY <1>5, <5>2
        <5>4. IsPrefix(list[i].path, list[j].path) \/ IsPrefix(list[j].path, list[i].path)
          BY <1>5, <5>1, <5>2, <5>3, PrefixesOf
        <5> QED BY <1>5, <4>1, <5>2, <5>4 DEF Clear
      <4> QED BY <4>2
    <3> QED BY <1>5, <3>1, <3>2
  <2> QED BY <1>8, <1>16, <2>1
<1>17. CountedAreCarried(L)'
  <2> DEFINE C == {j \in Ended : Carried(L, j)}
             E == {j \in Ended \cup {i} : Carried(L, j)'}
  <2>1. {j \in Ended : Carried(L, j)}' = E
    BY <1>6
  <2> SUFFICES ASSUME ~failed', ~dryRun PROVE succeeded' <= Cardinality(E)
    BY <1>2, <2>1 DEF CountedAreCarried
  <2>2. succeeded <= Cardinality(C)
    BY <1>11 DEF MoveInv, CountedAreCarried
  <2>3. IsFiniteSet(C) /\ IsFiniteSet(E) /\ Cardinality(C) \in Nat /\ Cardinality(E) \in Nat
    <3>1. IsFiniteSet(Ended)
      BY MoveTasksAre DEF MoveInv
    <3>2. IsFiniteSet(Ended \cup {i})
      BY <3>1, FS_AddElement
    <3>3. C \subseteq Ended /\ E \subseteq Ended \cup {i}
      OBVIOUS
    <3> QED BY <3>1, <3>2, <3>3, FS_Subset, FS_CardinalityType
  <2>4. C \subseteq E
    BY <1>15
  <2>5. CASE succeeded' = succeeded
    <3>1. Cardinality(C) <= Cardinality(E)
      BY <2>3, <2>4, FS_Subset
    <3> QED BY <1>5, <2>2, <2>3, <2>5, <3>1
  <2>6. CASE succeeded' = succeeded + 1 /\ Done
    <3>1. i \in E /\ i \notin C
      BY <1>5, <1>16, <2>6
    <3>2. Cardinality(C \cup {i}) = Cardinality(C) + 1 /\ IsFiniteSet(C \cup {i})
      BY <2>3, <3>1, FS_AddElement
    <3>3. C \cup {i} \subseteq E
      BY <2>4, <3>1
    <3>4. Cardinality(C \cup {i}) <= Cardinality(E)
      BY <2>3, <3>3, FS_Subset
    <3> HIDE DEF C, E
    <3> QED BY <1>5, <2>2, <2>3, <2>6, <3>2, <3>4
  <2> QED BY <1>2, <1>3, <2>5, <2>6
<1>18. (M!NilMeansPlaced)'
  BY <1>2, <1>9 DEF MoveTypes, M!NilMeansPlaced
<1> QED BY <1>9, <1>10, <1>12, <1>13, <1>14, <1>17, <1>18 DEF MoveInv

LEMMA MoveListFailsKept == ASSUME NEW L \in SpecLists, MoveInv(L), M!ListFails PROVE MoveInv(L)'
<1>1. /\ pc = "move" /\ next <= Len(list) /\ list' = SubSeq(list, 1, next - 1) /\ failed' = TRUE
      /\ UNCHANGED <<tree, moveType, dryRun, specs, pc, readers, next, running, succeeded, placed, lost, err>>
  BY DEF M!ListFails, M!ProducerFails, M!UnchangedInTasks, M!input
<1>2. list \in Seq(Jobs(L)) /\ Len(list) \in Nat /\ next \in Nat /\ next >= 1 /\ DOMAIN list = 1 .. Len(list)
  BY MoveTasksAre DEF MoveInv, MoveTasks
<1>3. list' \in Seq(Jobs(L)) /\ Len(list') = next - 1 /\ \A j \in 1 .. next - 1 : list'[j] = list[j]
  <2>1. next - 1 \in 0 .. Len(list)
    BY <1>1, <1>2
  <2> QED BY <1>1, <1>2, <2>1, SubSeqIs
<1>4. DOMAIN list' = 1 .. next - 1 /\ \A j \in 1 .. next - 1 : j \in DOMAIN list
  BY <1>1, <1>2, <1>3
<1>5. Ended' = Ended /\ Ended \subseteq 1 .. next - 1
  BY <1>1 DEF Ended
<1>6. MoveTypes(L)'
  BY <1>1 DEF MoveInv, MoveTypes
<1>7. MoveTasks(L)'
  <2>1. next' \in 1 .. Len(list') + 1
    BY <1>1, <1>2, <1>3
  <2>2. failed' \in BOOLEAN
    BY <1>1, Zenon
  <2> QED BY <1>1, <1>3, <2>1, <2>2 DEF MoveInv, MoveTasks
<1>8. HeldByReaders(L)' /\ HeldByTasks(L)' /\ CountedAreCarried(L)' /\ (M!NilMeansPlaced)'
  BY <1>1, <1>6 DEF HeldByReaders, HeldByTasks, CountedAreCarried, MoveTypes, M!NilMeansPlaced
<1>9. TakenByEnded(L)'
  <2> SUFFICES ASSUME moveType = "move"
               PROVE  Clear(list') /\ \A x \in All(L) \ tree : \E i \in Ended : IsPrefix(list'[i].path, x.path)
    BY <1>1, <1>5 DEF TakenByEnded
  <2>1. Clear(list) /\ \A x \in All(L) \ tree : \E i \in Ended : IsPrefix(list[i].path, x.path)
    BY <1>1 DEF MoveInv, TakenByEnded
  <2>2. Clear(list')
    BY <1>3, <1>4, <2>1 DEF Clear
  <2> QED BY <1>3, <1>5, <2>1, <2>2
<1>10. PlacedByEnded'
  <2>1. \A p \in placed : \E i \in Ended : p = <<p[1], list[i].spec>> /\ IsPrefix(list[i].path, p[1])
    BY <1>1 DEF MoveInv, PlacedByEnded
  <2>2. \A i \in Ended : list'[i] = list[i]
    BY <1>3, <1>5
  <2>3. \A p \in placed : \E i \in Ended : p = <<p[1], list'[i].spec>> /\ IsPrefix(list'[i].path, p[1])
    BY <2>1, <2>2
  <2> QED BY <1>1, <1>5, <2>3 DEF PlacedByEnded
<1> QED BY <1>6, <1>7, <1>8, <1>9, <1>10 DEF MoveInv

(* Nil means that as many tasks as there are have been counted, so that each  *)
(* of them was carried out.                                                   *)
LEMMA AllCarried ==
    ASSUME NEW L \in SpecLists, MoveInv(L), pc = "move", running = {}, next > Len(list), ~failed, ~dryRun,
           ~(succeeded < Len(list))
    PROVE  Ended = 1 .. Len(list) /\ \A i \in 1 .. Len(list) : Carried(L, i)
<1> DEFINE C == {i \in Ended : Carried(L, i)}
<1>1. next = Len(list) + 1 /\ Len(list) \in Nat /\ succeeded \in Nat
  BY DEF MoveInv, MoveTasks
<1>2. Ended = 1 .. Len(list)
  BY <1>1 DEF Ended
<1>3. succeeded <= Cardinality(C)
  BY DEF MoveInv, CountedAreCarried
<1>4. IsFiniteSet(1 .. Len(list)) /\ Cardinality(1 .. Len(list)) = Len(list)
  <2>1. 1 \in Int /\ Len(list) \in Int
    BY <1>1
  <2>2. /\ IsFiniteSet(1 .. Len(list))
        /\ Cardinality(1 .. Len(list)) = IF 1 > Len(list) THEN 0 ELSE Len(list) - 1 + 1
    BY <2>1, FS_Interval
  <2> QED BY <1>1, <2>2
<1>5. C \subseteq 1 .. Len(list)
  BY <1>2
<1>6. Cardinality(C) \in Nat
  BY <1>4, <1>5, FS_Subset, FS_CardinalityType
<1> HIDE DEF C
<1>7. Cardinality(C) = Cardinality(1 .. Len(list)) \/ C = 1 .. Len(list)
  <2>1. Cardinality(C) <= Len(list)
    BY <1>4, <1>5, FS_Subset
  <2> QED BY <1>1, <1>3, <1>4, <1>6, <2>1
<1>8. C = 1 .. Len(list)
  BY <1>4, <1>5, <1>7, FS_Subset
<1> QED BY <1>2, <1>8 DEF C

LEMMA MoveFinishKept == ASSUME NEW L \in SpecLists, MoveInv(L), M!Finish PROVE MoveInv(L)'
<1>1. /\ pc = "move" /\ next > Len(list) /\ running = {} /\ pc' = "done"
      /\ err' = IF failed THEN "err" ELSE IF succeeded < Len(list) THEN "failures" ELSE "nil"
      /\ UNCHANGED <<tree, moveType, dryRun, specs, readers, list, next, running, succeeded, failed, placed, lost>>
  BY DEF M!Finish, M!AllEnded, M!Return, M!input, M!tasks
<1>2. MoveTypes(L)' /\ MoveTasks(L)'
  BY <1>1 DEF MoveInv, MoveTypes, MoveTasks
<1>3. /\ HeldByReaders(L)' /\ HeldByTasks(L)' /\ TakenByEnded(L)' /\ PlacedByEnded' /\ CountedAreCarried(L)'
  BY <1>1 DEF HeldByReaders, HeldByTasks, TakenByEnded, PlacedByEnded, CountedAreCarried
<1>4. (M!NilMeansPlaced)'
  <2> SUFFICES ASSUME ~failed, ~(succeeded < Len(list)), ~lost, ~dryRun, NEW s \in DOMAIN L, NEW file \in FoundFiles(L, s)
               PROVE  IF moveType = "copy" THEN <<file.path, s>> \in placed
                      ELSE /\ file \notin tree
                           /\ \E t \in DOMAIN L : /\ {p \in placed : p[1] = file.path} = {<<file.path, t>>}
                                                  /\ \E item \in L[t].found : IsPrefix(item.path, file.path)
    <3>1. specs = L /\ specs' = L
      BY <1>1 DEF MoveInv, MoveTypes
    <3> QED BY <1>1, <3>1, MoveOperators DEF M!NilMeansPlaced, M!FilesFound, FoundFiles
  <2>1. Ended = 1 .. Len(list) /\ \A i \in 1 .. Len(list) : Carried(L, i)
    BY <1>1, AllCarried
  <2>2. PICK n \in 1 .. Len(list) : IsPrefix(list[n].path, file.path) /\ (moveType = "copy" => list[n].spec = s)
    BY <1>1 DEF MoveInv, HeldByTasks, Leads
  <2>3. <<file.path, list[n].spec>> \in placed /\ (moveType = "move" => file \notin tree)
    BY <2>1, <2>2, FileIs DEF Carried
  <2>4. moveType \in {"move", "copy"}
    BY DEF MoveInv, MoveTypes
  <2>5. CASE moveType = "copy"
    BY <2>2, <2>3, <2>5
  <2>6. CASE moveType = "move"
    <3> DEFINE t == list[n].spec
    <3>1. list[n] \in Jobs(L)
      BY MoveTasksAre DEF MoveInv
    <3>2. t \in DOMAIN L /\ \E item \in L[t].found : IsPrefix(item.path, file.path)
      BY <2>2, <3>1, JobsAre
    <3>3. ASSUME NEW p \in placed, p[1] = file.path PROVE p = <<file.path, t>>
      <4>1. PICK i \in Ended : p = <<p[1], list[i].spec>> /\ IsPrefix(list[i].path, p[1])
        BY <1>1 DEF MoveInv, PlacedByEnded
      <4>2. i \in 1 .. Len(list) /\ i \in DOMAIN list /\ n \in DOMAIN list
        BY <2>1, MoveTasksAre DEF MoveInv
      <4>3. list[i].path \in Seq(Name) /\ list[n].path \in Seq(Name) /\ file.path \in Seq(Name)
        BY <4>2, FileIs, MoveTasksAre DEF MoveInv
      <4>4. Len(list[i].path) \in Nat /\ Len(list[n].path) \in Nat
        BY <4>3
      <4>5. IsPrefix(list[i].path, list[n].path) \/ IsPrefix(list[n].path, list[i].path)
        BY <2>2, <3>3, <4>1, <4>3, <4>4, PrefixesOf
      <4>6. Clear(list)
        BY <1>1, <2>6 DEF MoveInv, TakenByEnded
      <4>7. i = n
        BY <4>2, <4>5, <4>6 DEF Clear
      <4> QED BY <3>3, <4>1, <4>7
    <3>4. <<file.path, t>>[1] = file.path
      OBVIOUS
    <3> HIDE DEF t
    <3>5. {p \in placed : p[1] = file.path} = {<<file.path, t>>}
      <4>1. <<file.path, t>> \in placed
        BY <2>3 DEF t
      <4> QED BY <3>3, <3>4, <4>1
    <3> QED BY <2>3, <2>6, <3>2, <3>5
  <2> QED BY <2>4, <2>5, <2>6
<1> QED BY <1>2, <1>3, <1>4 DEF MoveInv

LEMMA MoveStep == ASSUME NEW L \in SpecLists, MoveInv(L), M!Next PROVE MoveInv(L)'
<1>1. CASE M!GetPathsToMove \/ M!SearchFails \/ M!MergeReaders \/ M!StartTask \/ M!ListFails \/ M!Finish
  BY <1>1, PathsToMoveKept, MoveSearchFailsKept, MergeKept, MoveStartKept, MoveListFailsKept, MoveFinishKept
<1>2. ASSUME NEW i \in running,
             M!CreatePath(i) \/ M!MoveItem(i) \/ M!MoveRefused(i) \/ M!MoveFails(i) \/ M!PathFails(i)
      PROVE  MoveInv(L)'
  <2>1. pc = "move"
    BY <1>2 DEF MoveInv, MoveTasks
  <2> QED BY <1>2, <2>1, CreatePathKept, MoveTaskKept
<1> QED BY <1>1, <1>2 DEF M!Next, M!Task

(* A task's item is one that was found: what took it away would be the item   *)
(* of an ended task, at or above it.                                          *)
LEMMA MovesFind == ASSUME NEW L \in SpecLists, MoveInv(L) PROVE M!MovesFindTheirItem
<1> SUFFICES ASSUME pc = "move", NEW i \in Unfinished PROVE \E item \in tree : item.path = list[i].path
  BY DEF M!MovesFindTheirItem, M!Unfinished, Unfinished
<1>1. i \in 1 .. Len(list) /\ i \notin Ended /\ i \in DOMAIN list
  BY MoveTasksAre DEF MoveInv, MoveTasks, Unfinished, Ended
<1>2. PICK x \in All(L) : x.path = list[i].path
  BY <1>1, MoveTasksAre, JobsAre DEF MoveInv
<1>3. CASE moveType = "copy"
  BY <1>2, <1>3 DEF MoveInv, MoveTypes
<1>4. CASE moveType = "move"
  <2>1. Clear(list) /\ \A y \in All(L) \ tree : \E j \in Ended : IsPrefix(list[j].path, y.path)
    BY <1>4 DEF MoveInv, TakenByEnded
  <2>2. ASSUME x \notin tree PROVE FALSE
    <3>1. PICK j \in Ended : IsPrefix(list[j].path, x.path)
      BY <2>1, <2>2
    <3>2. j \in DOMAIN list /\ j # i
      BY <1>1, MoveTasksAre DEF MoveInv
    <3> QED BY <1>1, <1>2, <2>1, <3>1, <3>2 DEF Clear
  <2> QED BY <1>2, <2>2
<1> QED BY <1>3, <1>4 DEF MoveInv, MoveTypes

-----------------------------------------------------------------------------
(* Order and number of what DeleteService sorts                               *)

\* A search returns each folder once, and without a limit every file.
FoldersOnce(s) == \A i, j \in DOMAIN s : s[i] = s[j] /\ s[i].type # "file" => i = j

LEMMA ResultsOnce ==
    ASSUME NEW S, IsFiniteSet(S), NEW f \in D!Results(S)
    PROVE  /\ FoldersOnce(f)
           /\ Limit = 0 => \A x \in S : x.type = "file" => x \in ToSet(f)
<1>0. PICK T \in SUBSET S : \E h \in SetToSeqs(D!FoldersOf(T)) :
        f = h \o InOrder(D!FilesOf(T)) /\ (Limit = 0 => T = S)
  BY ResultShape
<1>1. PICK h \in SetToSeqs(D!FoldersOf(T)) :
        f = h \o InOrder(D!FilesOf(T)) /\ (Limit = 0 => T = S)
  BY <1>0
<1>2. /\ D!FilesOf(T) \in SUBSET S /\ D!FoldersOf(T) \in SUBSET S
      /\ IsFiniteSet(D!FilesOf(T)) /\ IsFiniteSet(D!FoldersOf(T))
      /\ \A x \in D!FilesOf(T) : x.type = "file"
      /\ \A x \in T : x.type = "file" => x \in D!FilesOf(T)
  <2>1. D!FilesOf(T) \in SUBSET S /\ D!FoldersOf(T) \in SUBSET S
    BY DEF D!FilesOf, D!FoldersOf
  <2> QED BY <2>1, FS_Subset DEF D!FilesOf
<1> DEFINE g == InOrder(D!FilesOf(T))
<1>3. g \in Seq(S) /\ ToSet(g) = D!FilesOf(T) /\ g \in Seq(D!FilesOf(T))
  BY <1>2, InOrderLists, SeqMonotonic
<1>4. h \in Seq(S) /\ \A i, j \in DOMAIN h : i # j => h[i] # h[j]
  <2>1. h \in [1 .. Cardinality(D!FoldersOf(T)) -> D!FoldersOf(T)] /\ \A i, j \in DOMAIN h : i # j => h[i] # h[j]
    BY <1>1 DEF SetToSeqs
  <2>2. Cardinality(D!FoldersOf(T)) \in Nat
    BY <1>2, FS_CardinalityType
  <2>3. h \in Seq(D!FoldersOf(T))
    BY <2>1, <2>2
  <2> QED BY <1>2, <2>1, <2>3, SeqMonotonic
<1> HIDE DEF g
<1>5. f = h \o g /\ ToSet(f) = ToSet(h) \cup ToSet(g)
  BY <1>1, <1>3, <1>4, ConcatIs DEF g
<1>6. Limit = 0 => \A x \in S : x.type = "file" => x \in ToSet(f)
  BY <1>1, <1>2, <1>3, <1>5
<1>7. ASSUME NEW i \in DOMAIN f, NEW j \in DOMAIN f, f[i] = f[j], f[i].type # "file" PROVE i = j
  <2>1. /\ Len(h) \in Nat /\ Len(g) \in Nat /\ DOMAIN f = 1 .. Len(h) + Len(g) /\ DOMAIN h = 1 .. Len(h)
        /\ \A k \in DOMAIN f : f[k] = IF k <= Len(h) THEN h[k] ELSE g[k - Len(h)]
    BY <1>3, <1>4, <1>5
  <2>2. \A k \in 1 .. Len(g) : g[k] \in D!FilesOf(T)
    BY <1>3
  <2>3. \A k \in DOMAIN f : f[k].type # "file" => k \in DOMAIN h /\ f[k] = h[k]
    <3> SUFFICES ASSUME NEW k \in DOMAIN f, f[k].type # "file" PROVE k \in DOMAIN h /\ f[k] = h[k]
      OBVIOUS
    <3>1. CASE k <= Len(h)
      BY <2>1, <3>1
    <3>2. CASE ~(k <= Len(h))
      <4>1. k - Len(h) \in 1 .. Len(g) /\ f[k] = g[k - Len(h)]
        BY <2>1, <3>2
      <4> QED BY <1>2, <2>2, <4>1
    <3> QED BY <3>1, <3>2
  <2> QED BY <1>4, <1>7, <2>3
<1> QED BY <1>6, <1>7 DEF FoldersOnce

-----------------------------------------------------------------------------
(* No file with the exclude properties is deleted.  What is on its way to the *)
(* list of deletions is not above such a file: the scan gives up the files it *)
(* has passed, because the locations rise with the directories.               *)

\* No item is at or above a protected file.
Harmless(s) == \A x \in ToSet(s) : \A p \in protected : ~IsPrefix(x.path, p.path)

\* No directory comes before one that is smaller.
DirsRise(s) == \A i, j \in DOMAIN s : i < j => ~Less(GetItemRelativePath(s[j]), GetItemRelativePath(s[i]))

\* The files below the directories at hand are at hand.
GuardsLeft ==
    \A d \in ToSet(dirs) : \A p \in protected : IsPrefix(d.path, p.path) => p \in ToSet(guards)

KeptInput ==
    /\ ~excludeProps => protected = {}
    /\ kind # "wildcard" => ~excludeProps

KeptSearch(T) ==
    /\ pc = "filter" => FoldersOnce(found) /\ found \in Seq(T \ protected)
    /\ pc \in {"protected", "merge"} =>
          (\A i \in DOMAIN candidates : PathsRise(candidates[i])) /\ (Len(candidates) = 1 \/ OneOrder(T))
    /\ pc = "merge" /\ ~lost => protected \subseteq ToSet(guards)
    /\ pc \in {"merge", "scan"} /\ ~lost => KeysRise(guards)
    /\ pc = "scan" /\ ~lost => DirsRise(dirs) /\ GuardsLeft
    /\ pc # "done" /\ ~lost => Harmless(out)

KeptTasks ==
    /\ lost \/ protected \subseteq tree
    /\ pc = "delete" /\ ~lost => Harmless(list)

KeptInv(T) == KeptInput /\ KeptSearch(T) /\ KeptTasks

LEMMA TreeAbove ==
    ASSUME NEW T \in Trees, NEW d \in Folders(T), NEW p \in T, p.type = "file", IsPrefix(d.path, p.path)
    PROVE  IsPrefix(GetItemRelativePath(d), GetItemRelativeLocation(p))
<1>1. d \in T /\ d.type = "folder" /\ ~IsRepoRoot(d) /\ IsItem(d) /\ IsItem(p)
  BY TreeIs DEF Folders
<1>2. d.path # p.path
  <2> SUFFICES ASSUME d.path = p.path PROVE FALSE
    OBVIOUS
  <2>1. IsPrefix(p.path, d.path)
    BY <1>1, PrefixItself DEF IsItem
  <2>2. p.type = "folder" \/ p.type = d.type
    BY <1>1, <2>1, TreeIs DEF FitPaths
  <2> QED BY <1>1, <2>2
<1> QED BY <1>1, <1>2, AboveIs

\* A file that is not protected harms no protected one.
LEMMA FilesHarmless ==
    ASSUME NEW T \in Trees, protected \subseteq T, NEW s \in Seq(T),
           \A x \in ToSet(s) : x.type = "file" /\ x \notin protected
    PROVE  Harmless(s)
<1> SUFFICES ASSUME NEW x \in ToSet(s), NEW p \in protected, IsPrefix(x.path, p.path) PROVE FALSE
  BY DEF Harmless
<1>1. x \in T /\ p \in T /\ x.type = "file"
  BY SeqOfElements
<1>2. x.path = p.path /\ x.type = p.type
  BY <1>1, TreeIs DEF FitPaths
<1>3. x = p
  BY <1>1, <1>2, TreeItems, SameItem
<1> QED BY <1>3

LEMMA SubHarmless ==
    ASSUME Harmless(list), UNCHANGED protected, ToSet(list') \subseteq ToSet(list)
    PROVE  Harmless(list)'
<1>1. ToSet(list)' = ToSet(list')
  BY DEF ToSet
<1> QED BY <1>1 DEF Harmless

-----------------------------------------------------------------------------
(* The searches and the merges keep it                                        *)

LEMMA KeptTypes ==
    ASSUME NEW T \in Trees, DeleteInv(T)
    PROVE  /\ protected \subseteq T /\ (\A p \in protected : p \in T /\ p.type = "file" /\ IsItem(p))
           /\ \A d \in Folders(T) : d \in T /\ d.type = "folder" /\ ~IsRepoRoot(d) /\ IsItem(d)
           /\ found \in Seq(T) /\ candidates \in Seq(Seq(Folders(T))) /\ guards \in Seq(protected)
           /\ dirs \in Seq(Folders(T)) /\ out \in Seq(T) /\ list \in Seq(T)
           /\ IsFiniteSet(T) /\ IsFiniteSet(protected) /\ IsFiniteSet(Folders(T))
           /\ pc \notin {"delete", "done"} => tree = T
<1>1. protected \subseteq T /\ Folders(T) \subseteq T /\ \A p \in protected : p.type = "file"
  BY DEF DeleteInv, DeleteTypes, Folders
<1>2. IsFiniteSet(T) /\ IsFiniteSet(protected) /\ IsFiniteSet(Folders(T))
  BY <1>1, TreeIs, FS_Subset
<1> QED BY <1>1, <1>2, TreeIs DEF DeleteInv, DeleteTypes, DeleteTasks, Folders

LEMMA KeptInitially == ASSUME D!Init PROVE KeptInv(tree)
<1>1. /\ pc = "search" /\ out = <<>> /\ kind \in {"wildcard", "aql", "build"}
      /\ protected \subseteq tree
      /\ excludeProps \in (IF kind = "wildcard" THEN BOOLEAN ELSE {FALSE})
      /\ protected \in (IF excludeProps THEN SUBSET D!FilesOf(tree) ELSE {{}})
  BY DEF D!Init, D!FilesOf
<1>2. KeptInput
  BY <1>1 DEF KeptInput
<1>3. KeptSearch(tree)
  <2>1. ToSet(out) = {}
    BY <1>1 DEF ToSet
  <2> QED BY <1>1, <2>1 DEF KeptSearch, Harmless
<1>4. KeptTasks
  BY <1>1 DEF KeptTasks
<1> QED BY <1>2, <1>3, <1>4 DEF KeptInv

\* Before the deletion, nothing is deleted.
LEMMA NotYetKept ==
    ASSUME NEW T, KeptInv(T), pc \notin {"delete", "done"}, pc' # "delete",
           UNCHANGED <<tree, kind, protected, excludeProps>>, lost => lost', KeptSearch(T)'
    PROVE  KeptInv(T)'
<1>1. KeptInput'
  BY DEF KeptInv, KeptInput
<1>2. KeptTasks'
  BY DEF KeptInv, KeptTasks
<1> QED BY <1>1, <1>2 DEF KeptInv

LEMMA NothingMergedKept ==
    ASSUME NEW T, KeptInv(T), pc \notin {"delete", "done"}, pc' \in {"filter", "reduce"},
           UNCHANGED <<tree, kind, protected, excludeProps>>, lost => lost',
           (pc = "filter" => FoldersOnce(found) /\ found \in Seq(T \ protected))', (~lost => Harmless(out))'
    PROVE  KeptInv(T)'
<1>1. KeptSearch(T)'
  BY DEF KeptSearch
<1> QED BY <1>1, NotYetKept

LEMMA SpecSearchSpares ==
    ASSUME NEW T \in Trees, DeleteInv(T), KeptInv(T), Limit = 0, D!Search
    PROVE  KeptInv(T)'
<1>1. /\ pc = "search" /\ found' \in D!Results(tree \ protected)
      /\ \/ pc' = "filter" /\ out' = out
         \/ pc' = "reduce" /\ out' = found' /\ (excludeProps => found' = <<>>)
      /\ UNCHANGED <<tree, kind, protected, excludeProps, lost>>
  BY DEF D!Search, D!input
<1>2. tree = T /\ IsFiniteSet(T \ protected)
  BY <1>1, KeptTypes, FS_Subset
<1>3. found' \in Seq(T \ protected) /\ FoldersOnce(found')
  BY <1>1, <1>2, ResultsAre, ResultsOnce
<1>4. (pc = "filter" => FoldersOnce(found) /\ found \in Seq(T \ protected))'
  BY <1>1, <1>3 DEF FoldersOnce
<1>5. (~lost => Harmless(out))'
  <2>1. ToSet(out)' = ToSet(out')
    BY DEF ToSet
  <2>2. CASE out' = out
    BY <1>1, <2>1, <2>2 DEF KeptInv, KeptSearch, Harmless
  <2>3. CASE out' = found' /\ (excludeProps => found' = <<>>)
    <3>1. protected = {} \/ ToSet(out') = {}
      BY <2>3 DEF KeptInv, KeptInput, ToSet
    <3> QED BY <1>1, <2>1, <3>1 DEF Harmless
  <2> QED BY <1>1, <2>2, <2>3
<1>6. pc \notin {"delete", "done"} /\ pc' \in {"filter", "reduce"}
  BY <1>1
<1> QED BY <1>1, <1>4, <1>5, <1>6, NothingMergedKept

\* Without exclude properties nothing is protected.
LEMMA DirectSearchSpares ==
    ASSUME NEW T \in Trees, DeleteInv(T), KeptInv(T), D!SearchDirectly
    PROVE  KeptInv(T)'
<1>1. /\ pc = "search" /\ kind # "wildcard" /\ pc' = "delete"
      /\ UNCHANGED <<tree, kind, protected, excludeProps, lost>>
  BY DEF D!SearchDirectly, D!input
<1>2. protected = {}
  BY <1>1 DEF KeptInv, KeptInput
<1> QED BY <1>1, <1>2 DEF KeptInv, KeptInput, KeptSearch, KeptTasks, Harmless

LEMMA SearchErrorSpares ==
    ASSUME NEW T, KeptInv(T), D!BuildSearchFails \/ D!SearchFails
    PROVE  KeptInv(T)'
<1>1. pc' = "done" /\ UNCHANGED <<tree, kind, protected, excludeProps, lost>>
  BY DEF D!BuildSearchFails, D!SearchFails, D!Return, D!input, D!search
<1> QED BY <1>1 DEF KeptInv, KeptInput, KeptSearch, KeptTasks

\* The candidates fit in one buffer, or are in the order of the merge anyway.
LEMMA CandidatesSpare ==
    ASSUME NEW T \in Trees, DeleteInv(T), KeptInv(T), Cardinality(Folders(T)) <= BufferSize \/ OneOrder(T), D!Filter
    PROVE  KeptInv(T)'
<1> DEFINE H == {x \in ToSet(found) : x.type = "folder" /\ ~IsRepoRoot(x)}
           folders == Only(found, H)
<1>1. found \in Seq(T) /\ ToSet(found) \subseteq T
  BY KeptTypes, SeqOfElements
<1>2. \A x \in ToSet(found) : IsItem(x) /\ x.type \in {"file", "folder"}
  BY <1>1, TreeIs DEF IsItem
<1>3. /\ pc = "filter" /\ candidates' = Sorted(folders)
      /\ out' = Only(found, {x \in ToSet(found) : x.type = "file"})
      /\ pc' = IF candidates' = <<>> THEN "reduce" ELSE "protected"
      /\ UNCHANGED <<tree, kind, protected, excludeProps, lost>>
  <2>1. {x \in D!FoldersOf(D!ToSet(found)) : ~D!IsRepoRoot(x)} = H
    BY <1>2, DeleteOperators DEF D!FoldersOf, D!FilesOf
  <2>2. D!FilesOf(D!ToSet(found)) = {x \in ToSet(found) : x.type = "file"}
    BY DeleteOperators DEF D!FilesOf
  <2>3. D!SplitAndSort(folders, D!RelativePaths(folders), TRUE) = Sorted(folders)
    BY DeleteOperators, DeleteSorting, Zenon DEF Sorted
  <2> HIDE DEF H
  <2>4. candidates' = Sorted(folders) /\ out' = Only(found, {x \in ToSet(found) : x.type = "file"})
    BY <2>1, <2>2, <2>3, DeleteOperators DEF D!Filter
  <2> QED BY <2>4 DEF D!Filter, D!input
<1>4. H \subseteq Folders(T)
  BY <1>1 DEF Folders
<1>5. folders \in Seq(Folders(T)) /\ \A i, j \in DOMAIN folders : folders[i] = folders[j] => i = j
  <2>1. Only(found, H) \in Seq(T) /\ ToSet(Only(found, H)) = ToSet(found) \cap H
    BY <1>1, OnlyIs
  <2>2. folders \in Seq(H)
    <3>1. ToSet(Only(found, H)) = H
      BY <2>1
    <3> HIDE DEF H
    <3> QED BY <2>1, <3>1, SeqOfElements
  <2>3. OnceIn(found, H)
    BY <1>3 DEF KeptInv, KeptSearch, FoldersOnce, OnceIn
  <2> HIDE DEF H
  <2>4. \A i, j \in DOMAIN Only(found, H) : Only(found, H)[i] = Only(found, H)[j] => i = j
    BY <1>1, <2>3, OnlyOnce
  <2> QED BY <1>4, <2>2, <2>4, SeqMonotonic
<1> HIDE DEF folders
<1>6. /\ candidates' \in Seq(Seq(ToSet(folders))) /\ \A i \in DOMAIN candidates' : PathsRise(candidates'[i])
      /\ Len(folders) <= BufferSize => Len(candidates') <= 1
  BY <1>3, <1>5, CandidatesAre DEF Folders
<1>7. pc' = "protected" => Len(candidates') = 1 \/ OneOrder(T)
  <2> SUFFICES ASSUME candidates' # <<>>, Cardinality(Folders(T)) <= BufferSize PROVE Len(candidates') = 1
    BY <1>3
  <2>1. Len(folders) <= Cardinality(Folders(T)) /\ Len(folders) \in Nat
    BY <1>5, KeptTypes, OnceFits
  <2>2. Cardinality(Folders(T)) \in Nat /\ BufferSize \in Nat
    BY KeptTypes, FS_CardinalityType, BufferAssumption
  <2>3. Len(candidates') \in Nat /\ Len(candidates') # 0
    BY <1>6
  <2>4. Len(folders) <= BufferSize
    BY <2>1, <2>2
  <2>5. Len(candidates') <= 1
    BY <1>6, <2>4
  <2>6. \A n \in Nat : n # 0 /\ n <= 1 => n = 1
    OBVIOUS
  <2> QED BY <2>3, <2>5, <2>6, Zenon
<1>8. Harmless(out)'
  <2>1. out' \in Seq(T) /\ ToSet(out') = ToSet(found) \cap {x \in ToSet(found) : x.type = "file"}
    BY <1>1, <1>3, OnlyIs
  <2>2. found \in Seq(T \ protected)
    BY <1>3 DEF KeptInv, KeptSearch
  <2>3. \A x \in ToSet(found) : x \notin protected
    BY <2>2, SeqOfElements
  <2>4. Harmless(out')
    BY <2>1, <2>3, KeptTypes, FilesHarmless
  <2>5. ToSet(out)' = ToSet(out')
    BY DEF ToSet
  <2> QED BY <1>3, <2>4, <2>5 DEF Harmless
<1>9. KeptSearch(T)'
  BY <1>3, <1>6, <1>7, <1>8 DEF KeptSearch, PathsRise
<1> QED BY <1>3, <1>9, NotYetKept

\* The protected files in the order of their keys.
LEMMA GuardsSpare ==
    ASSUME NEW T \in Trees, DeleteInv(T), KeptInv(T), Limit = 0, D!SearchProtected
    PROVE  KeptInv(T)'
<1>1. PICK r \in D!Results(protected) :
        LET readers0 == Sorted(r)
        IN \E seen \in Readable(readers0, MayLose) :
             guards' = MergeSortedReaders(seen) /\ lost' = (lost \/ seen # readers0)
  <2>1. \A r : D!SplitAndSort(r, D!RelativePaths(r), TRUE) = Sorted(r)
    BY DeleteOperators, DeleteSorting, Zenon DEF Sorted
  <2> QED BY <2>1, DeleteSorting DEF D!SearchProtected
<1>2. PICK seen \in Readable(Sorted(r), MayLose) :
        guards' = MergeSortedReaders(seen) /\ lost' = (lost \/ seen # Sorted(r))
  BY <1>1
<1>3. /\ pc = "protected" /\ pc' = "merge"
      /\ UNCHANGED <<tree, kind, protected, excludeProps, candidates, out>>
  BY DEF D!SearchProtected, D!input
<1>4. r \in Seq(protected) /\ protected \subseteq ToSet(r)
  <2>1. r \in Seq(protected) /\ \A x \in protected : x.type = "file" => x \in ToSet(r)
    BY <1>1, KeptTypes, ResultsAre, ResultsOnce
  <2> QED BY <2>1, KeptTypes
<1>5. /\ Sorted(r) \in Seq(Seq(protected)) /\ \A i \in DOMAIN Sorted(r) : PathsRise(Sorted(r)[i])
      /\ \A x \in protected : \E i \in DOMAIN Sorted(r) : \E j \in DOMAIN Sorted(r)[i] : Sorted(r)[i][j] = x
  <2>1. protected \subseteq {x \in T : x.type = "file"}
    BY KeptTypes
  <2>2. r \in Seq({x \in T : x.type = "file"})
    BY <1>4, <2>1, SeqMonotonic
  <2>3. /\ Sorted(r) \in Seq(Seq(ToSet(r))) /\ \A i \in DOMAIN Sorted(r) : PathsRise(Sorted(r)[i])
        /\ \A x \in ToSet(r) : \E i \in DOMAIN Sorted(r) : \E j \in DOMAIN Sorted(r)[i] : Sorted(r)[i][j] = x
    BY <2>2, GuardsAre
  <2>4. Seq(ToSet(r)) \subseteq Seq(protected)
    BY <1>4, SeqOfElements, SeqMonotonic
  <2>5. Sorted(r) \in Seq(Seq(protected))
    BY <2>3, <2>4, SeqMonotonic
  <2> QED BY <1>4, <2>3, <2>5
<1> DEFINE rs == Sorted(r)
<1>6. /\ rs \in Seq(Seq(protected)) /\ \A i \in DOMAIN rs : PathsRise(rs[i])
      /\ \A x \in protected : \E i \in DOMAIN rs : \E j \in DOMAIN rs[i] : rs[i][j] = x
  BY <1>5
<1>7. ~lost' => guards' = MergeSortedReaders(rs)
  BY <1>2
<1> HIDE DEF rs
<1>8. \A i \in DOMAIN rs : KeysRise(rs[i])
  <2> SUFFICES ASSUME NEW i \in DOMAIN rs PROVE KeysRise(rs[i])
    OBVIOUS
  <2>1. rs[i] \in Seq(protected) /\ PathsRise(rs[i])
    BY <1>6
  <2>2. \A j \in DOMAIN rs[i] : GetItemRelativePath(rs[i][j]) = GetSortKey(rs[i][j])
    <3>1. \A j \in DOMAIN rs[i] : rs[i][j] \in protected
      BY <2>1
    <3> QED BY <3>1, KeptTypes, LocationIs
  <2>3. \A j, k \in DOMAIN rs[i] : j < k => Less(GetSortKey(rs[i][j]), GetSortKey(rs[i][k]))
    BY <2>1, <2>2 DEF PathsRise
  <2> QED BY <2>3, KeysRiseIs
<1>9. KeysRise(MergeSortedReaders(rs)) /\ protected \subseteq ToSet(MergeSortedReaders(rs))
  <2>1. \A x \in protected : IsItem(x)
    BY KeptTypes
  <2>2. KeysRise(MergeSortedReaders(rs))
    BY <1>6, <1>8, <2>1, MergeKeysRise
  <2>3. \A i \in DOMAIN rs : \A j \in DOMAIN rs[i] : \E k \in DOMAIN MergeSortedReaders(rs) : MergeSortedReaders(rs)[k] = rs[i][j]
    BY <1>6, <2>1, MergedIs
  <2>4. ASSUME NEW x \in protected PROVE x \in ToSet(MergeSortedReaders(rs))
    <3>1. PICK i \in DOMAIN rs : \E j \in DOMAIN rs[i] : rs[i][j] = x
      BY <1>6
    <3>2. PICK j \in DOMAIN rs[i] : rs[i][j] = x
      BY <3>1
    <3>3. PICK k \in DOMAIN MergeSortedReaders(rs) : MergeSortedReaders(rs)[k] = x
      BY <2>3, <3>2
    <3> QED BY <3>3 DEF ToSet
  <2> QED BY <2>2, <2>4
<1>10. ~lost' => KeysRise(guards') /\ protected' \subseteq ToSet(guards')
  BY <1>3, <1>7, <1>9
<1>11. ~lost' => ~lost
  BY <1>2
<1>12. (\A i \in DOMAIN candidates : PathsRise(candidates[i])) /\ (Len(candidates) = 1 \/ OneOrder(T))
  BY <1>3 DEF KeptInv, KeptSearch
<1>13. ~lost => Harmless(out)
  BY <1>3 DEF KeptInv, KeptSearch
<1>14. KeptSearch(T)'
  <2>1. ToSet(guards)' = ToSet(guards') /\ ToSet(out)' = ToSet(out)
    BY <1>3 DEF ToSet
  <2>2. ~lost' => Harmless(out)'
    BY <1>3, <1>11, <1>13, <2>1 DEF Harmless
  <2>3. KeysRise(guards)' = KeysRise(guards')
    BY Zenon DEF KeysRise, Rises
  <2>4. ((\A i \in DOMAIN candidates : PathsRise(candidates[i])) /\ (Len(candidates) = 1 \/ OneOrder(T)))'
    BY <1>3, <1>12
  <2> QED BY <1>3, <1>10, <2>1, <2>2, <2>3, <2>4 DEF KeptSearch
<1>15. pc' # "delete" /\ pc \notin {"delete", "done"}
  BY <1>3
<1> QED BY <1>3, <1>11, <1>14, <1>15, NotYetKept

\* The directories rise: one reader is as it was sorted, several are merged in the same order.
LEMMA DirsSpare ==
    ASSUME NEW T \in Trees, DeleteInv(T), KeptInv(T), D!MergeDirs
    PROVE  KeptInv(T)'
<1>1. PICK seen \in Readable(candidates, MayLose) :
        dirs' = MergeSortedReaders(seen) /\ lost' = (lost \/ seen # candidates)
  BY DeleteSorting DEF D!MergeDirs
<1>2. /\ pc = "merge" /\ pc' = "scan"
      /\ UNCHANGED <<tree, kind, protected, excludeProps, guards, out>>
  BY DEF D!MergeDirs, D!input
<1>3. candidates \in Seq(Seq(Folders(T))) /\ \A x \in Folders(T) : IsItem(x) /\ GetItemRelativePath(x) \in Texts /\ GetSortKey(x) \in Texts
  BY KeptTypes, RelativePathIs, KeyIs
<1>4. (\A i \in DOMAIN candidates : PathsRise(candidates[i])) /\ (Len(candidates) = 1 \/ OneOrder(T))
  BY <1>2 DEF KeptInv, KeptSearch
<1> DEFINE m == MergeSortedReaders(candidates)
<1>5. m \in Seq(Folders(T)) /\ (Len(candidates) = 1 => m = candidates[1])
  BY <1>3, MergedIs
<1>6. DirsRise(m)
  <2>1. \A i \in DOMAIN m : m[i] \in Folders(T)
    BY <1>5
  <2>2. CASE Len(candidates) = 1
    <3>1. 1 \in DOMAIN candidates
      BY <1>3, <2>2
    <3>2. PathsRise(m)
      BY <1>4, <1>5, <2>2, <3>1
    <3> HIDE DEF m
    <3> SUFFICES ASSUME NEW i \in DOMAIN m, NEW j \in DOMAIN m, i < j,
                        Less(GetItemRelativePath(m[j]), GetItemRelativePath(m[i]))
                 PROVE  FALSE
      BY DEF DirsRise
    <3>3. Less(GetItemRelativePath(m[i]), GetItemRelativePath(m[j]))
      BY <3>2 DEF PathsRise
    <3>4. GetItemRelativePath(m[i]) \in Texts /\ GetItemRelativePath(m[j]) \in Texts
      BY <1>3, <2>1
    <3> QED BY <3>3, <3>4, LessTransitive, LessIrreflexive
  <2>3. CASE OneOrder(T)
    <3>1. ASSUME NEW i \in DOMAIN candidates PROVE KeysRise(candidates[i])
      <4>1. candidates[i] \in Seq(Folders(T)) /\ PathsRise(candidates[i])
        BY <1>3, <1>4
      <4>2. \A k \in DOMAIN candidates[i] : candidates[i][k] \in Folders(T)
        BY <4>1
      <4>3. \A j, k \in DOMAIN candidates[i] : j < k => Less(GetSortKey(candidates[i][j]), GetSortKey(candidates[i][k]))
        BY <2>3, <4>1, <4>2 DEF PathsRise, OneOrder
      <4> QED BY <4>3, KeysRiseIs
    <3>2. KeysRise(m)
      BY <1>3, <3>1, MergeKeysRise
    <3> HIDE DEF m
    <3> SUFFICES ASSUME NEW i \in DOMAIN m, NEW j \in DOMAIN m, i < j,
                        Less(GetItemRelativePath(m[j]), GetItemRelativePath(m[i]))
                 PROVE  FALSE
      BY DEF DirsRise
    <3>3. Less(GetSortKey(m[j]), GetSortKey(m[i]))
      BY <2>1, <2>3 DEF OneOrder
    <3>4. GetSortKey(m[i]) = GetSortKey(m[j]) \/ Less(GetSortKey(m[i]), GetSortKey(m[j]))
      BY <3>2, KeysRiseIs
    <3>5. GetSortKey(m[i]) \in Texts /\ GetSortKey(m[j]) \in Texts
      BY <1>3, <2>1
    <3> QED BY <3>3, <3>4, <3>5, LessTransitive, LessIrreflexive
  <2> QED BY <1>4, <2>2, <2>3
<1>7. ~lost' => ~lost /\ dirs' = m
  BY <1>1
<1> HIDE DEF m
<1>8. ~lost => KeysRise(guards) /\ Harmless(out) /\ protected \subseteq ToSet(guards)
  BY <1>2 DEF KeptInv, KeptSearch
<1>9. KeptSearch(T)'
  <2>1. ToSet(guards)' = ToSet(guards) /\ ToSet(out)' = ToSet(out)
    BY <1>2 DEF ToSet
  <2>2. ~lost' => Harmless(out)' /\ GuardsLeft'
    BY <1>2, <1>7, <1>8, <2>1 DEF Harmless, GuardsLeft
  <2>3. ~lost' => DirsRise(dirs)'
    BY <1>6, <1>7 DEF DirsRise
  <2>4. ~lost' => KeysRise(guards)'
    BY <1>2, <1>7, <1>8, Zenon DEF KeysRise, Rises
  <2> QED BY <1>2, <2>2, <2>3, <2>4 DEF KeptSearch
<1>10. pc' # "delete" /\ pc \notin {"delete", "done"} /\ (lost => lost')
  BY <1>1, <1>2
<1> QED BY <1>2, <1>9, <1>10, NotYetKept

-----------------------------------------------------------------------------
(* The scan, the reduction and the deletion keep it                           *)

LEMMA ScanningKept ==
    ASSUME NEW T, KeptInv(T), pc = "scan", pc' = "scan", UNCHANGED <<tree, kind, protected, excludeProps, lost>>,
           ~lost => KeysRise(guards') /\ DirsRise(dirs') /\ (Harmless(out))' /\ GuardsLeft'
    PROVE  KeptInv(T)'
<1>1. ~lost => KeysRise(guards)'
  BY Zenon DEF KeysRise, Rises
<1>2. ~lost => DirsRise(dirs)'
  BY DEF DirsRise
<1>3. KeptSearch(T)'
  BY <1>1, <1>2 DEF KeptSearch
<1> QED BY <1>3, NotYetKept

LEMMA TailRises ==
    ASSUME NEW S, NEW s \in Seq(S), s # <<>>
    PROVE  (KeysRise(s) => KeysRise(Tail(s))) /\ (DirsRise(s) => DirsRise(Tail(s)))
<1>1. \A i, j \in DOMAIN Tail(s) :
          i < j => /\ i + 1 \in DOMAIN s /\ j + 1 \in DOMAIN s /\ i + 1 < j + 1
                   /\ Tail(s)[i] = s[i + 1] /\ Tail(s)[j] = s[j + 1]
  <2>1. \A i \in DOMAIN Tail(s) : i \in Nat /\ i + 1 \in DOMAIN s /\ Tail(s)[i] = s[i + 1]
    <3>1. Tail(s) \in Seq(S)
      BY TailIs
    <3>2. \A i \in DOMAIN Tail(s) : i \in Nat
      BY <3>1
    <3> QED BY <3>2, TailIs
  <2> QED BY <2>1
<1> DEFINE t == Tail(s)
<1>2. \A i, j \in DOMAIN t :
          i < j => /\ i + 1 \in DOMAIN s /\ j + 1 \in DOMAIN s /\ i + 1 < j + 1 /\ t[i] = s[i + 1] /\ t[j] = s[j + 1]
  BY <1>1
<1> HIDE DEF t
<1>3. ASSUME KeysRise(s) PROVE KeysRise(t)
  <2>1. \A i, j \in DOMAIN s : i < j => GetSortKey(s[i]) = GetSortKey(s[j]) \/ Less(GetSortKey(s[i]), GetSortKey(s[j]))
    BY <1>3, KeysRiseIs
  <2>2. \A i, j \in DOMAIN t : i < j => GetSortKey(t[i]) = GetSortKey(t[j]) \/ Less(GetSortKey(t[i]), GetSortKey(t[j]))
    BY <1>2, <2>1
  <2> QED BY <2>2, KeysRiseIs
<1>4. DirsRise(s) => DirsRise(t)
  BY <1>2 DEF DirsRise
<1> QED BY <1>3, <1>4 DEF t

LEMMA HeadRises ==
    ASSUME NEW S, NEW s \in Seq(S), s # <<>>, NEW x \in ToSet(s)
    PROVE  /\ KeysRise(s) => GetSortKey(Head(s)) = GetSortKey(x) \/ Less(GetSortKey(Head(s)), GetSortKey(x))
           /\ DirsRise(s) => x = Head(s) \/ ~Less(GetItemRelativePath(x), GetItemRelativePath(Head(s)))
<1>1. Len(s) \in Nat /\ Len(s) >= 1 /\ DOMAIN s = 1 .. Len(s) /\ Head(s) = s[1]
  BY TailIs
<1>2. PICK i \in 1 .. Len(s) : s[i] = x
  BY <1>1 DEF ToSet
<1>3. 1 \in DOMAIN s /\ i \in DOMAIN s /\ (i = 1 \/ 1 < i)
  BY <1>1, <1>2
<1> QED BY <1>1, <1>2, <1>3, KeysRiseIs DEF DirsRise

\* A directory that is written is above no protected file: those after the artifact at hand have greater keys.
LEMMA WriteDirSpares ==
    ASSUME NEW T \in Trees, DeleteInv(T), NEW d \in Folders(T), NEW g \in protected, NEW p \in protected,
           ~IsPrefix(GetItemRelativePath(d), GetItemRelativeLocation(g)),
           Less(GetItemRelativePath(d), GetItemRelativeLocation(g)),
           GetSortKey(g) = GetSortKey(p) \/ Less(GetSortKey(g), GetSortKey(p))
    PROVE  ~IsPrefix(d.path, p.path)
<1> SUFFICES ASSUME IsPrefix(d.path, p.path) PROVE FALSE
  OBVIOUS
<1> DEFINE s == GetItemRelativePath(d)
           t == GetItemRelativeLocation(g)
           l == GetItemRelativeLocation(p)
           u == GetSortKey(p)
           v == GetSortKey(g)
<1>1. IsPrefix(s, l)
  BY KeptTypes, TreeAbove
<1>2. t \in Texts /\ IsPrefix(t, v) /\ v \in Texts /\ l \in Texts /\ IsPrefix(l, u) /\ u \in Texts
  BY KeptTypes, LocationIs
<1>3. s \in Texts
  BY KeptTypes, RelativePathIs
<1>4. ~IsPrefix(s, t) /\ Less(s, t) /\ (v = u \/ Less(v, u))
  OBVIOUS
<1> HIDE DEF s, t, l, u, v
<1>5. IsPrefix(s, u)
  BY <1>1, <1>2, <1>3, PrefixTransitive DEF Texts
<1>6. Less(u, v)
  BY <1>2, <1>3, <1>4, <1>5, Apart
<1> QED BY <1>2, <1>4, <1>6, LessTransitive, LessIrreflexive

\* No directory at hand, nor one after it, is above an artifact that is passed.
LEMMA PassedSpares ==
    ASSUME NEW T \in Trees, DeleteInv(T), NEW d \in Folders(T), NEW x \in Folders(T), NEW g \in protected,
           ~IsPrefix(GetItemRelativePath(d), GetItemRelativeLocation(g)),
           ~Less(GetItemRelativePath(d), GetItemRelativeLocation(g)),
           x = d \/ ~Less(GetItemRelativePath(x), GetItemRelativePath(d))
    PROVE  ~IsPrefix(x.path, g.path)
<1> SUFFICES ASSUME IsPrefix(x.path, g.path) PROVE FALSE
  OBVIOUS
<1> DEFINE s == GetItemRelativePath(d)
           t == GetItemRelativePath(x)
           l == GetItemRelativeLocation(g)
<1>1. IsPrefix(t, l)
  BY KeptTypes, TreeAbove
<1>2. l \in Texts /\ s \in Texts /\ t \in Texts
  BY KeptTypes, LocationIs, RelativePathIs
<1>3. ~IsPrefix(s, l) /\ ~Less(s, l) /\ (t = s \/ ~Less(t, s))
  OBVIOUS
<1> HIDE DEF s, t, l
<1>4. t # s /\ Less(s, t)
  BY <1>1, <1>2, <1>3, LessTotal
<1>5. Less(l, s)
  <2>1. s # l
    BY <1>2, <1>3, PrefixItself DEF Texts
  <2> QED BY <1>2, <1>3, <2>1, LessTotal
<1>6. Less(l, t)
  BY <1>2, <1>4, <1>5, LessTransitive
<1> QED BY <1>1, <1>2, <1>6, LessThanPrefix

LEMMA ScanStepSpares ==
    ASSUME NEW T \in Trees, DeleteInv(T), KeptInv(T), D!SkipDir \/ D!WriteDir \/ D!NextArtifact
    PROVE  KeptInv(T)'
<1>1. /\ pc = "scan" /\ pc' = "scan" /\ dirs # <<>> /\ guards # <<>>
      /\ \/ dirs' = Tail(dirs) /\ guards' = guards /\ out' = out
         \/ /\ dirs' = Tail(dirs) /\ guards' = guards /\ out' = Append(out, Head(dirs))
            /\ ~IsPrefix(GetItemRelativePath(Head(dirs)), GetItemRelativeLocation(Head(guards)))
            /\ Less(GetItemRelativePath(Head(dirs)), GetItemRelativeLocation(Head(guards)))
         \/ /\ dirs' = dirs /\ guards' = Tail(guards) /\ out' = out
            /\ ~IsPrefix(GetItemRelativePath(Head(dirs)), GetItemRelativeLocation(Head(guards)))
            /\ ~Less(GetItemRelativePath(Head(dirs)), GetItemRelativeLocation(Head(guards)))
      /\ UNCHANGED <<tree, kind, protected, excludeProps, lost>>
  BY DeleteOperators DEF D!SkipDir, D!WriteDir, D!NextArtifact, D!Scanning, D!UnchangedInScan, D!input,
        D!HoldsArtifact, D!Dir, D!ArtifactLocation
<1>2. /\ guards \in Seq(protected) /\ dirs \in Seq(Folders(T)) /\ out \in Seq(T)
  BY KeptTypes
<1>3. /\ Head(dirs) \in Folders(T) /\ ToSet(dirs) = {Head(dirs)} \cup ToSet(Tail(dirs))
      /\ Head(guards) \in protected /\ ToSet(guards) = {Head(guards)} \cup ToSet(Tail(guards))
      /\ ToSet(dirs) \subseteq Folders(T) /\ ToSet(guards) \subseteq protected
  BY <1>1, <1>2, TailIs, SeqOfElements
<1>4. ToSet(Append(out, Head(dirs))) = ToSet(out) \cup {Head(dirs)}
  <2>1. Head(dirs) \in T
    BY <1>3, KeptTypes
  <2> QED BY <1>2, <2>1, AppendItem
<1>5. ToSet(dirs)' = ToSet(dirs') /\ ToSet(guards)' = ToSet(guards') /\ ToSet(out)' = ToSet(out')
  BY DEF ToSet
<1> SUFFICES ASSUME ~lost
             PROVE  KeysRise(guards') /\ DirsRise(dirs') /\ (Harmless(out))' /\ GuardsLeft'
  BY <1>1, ScanningKept
<1>6. KeysRise(guards) /\ DirsRise(dirs) /\ Harmless(out) /\ GuardsLeft
  BY <1>1 DEF KeptInv, KeptSearch
<1>7. KeysRise(Tail(guards)) /\ DirsRise(Tail(dirs))
  BY <1>1, <1>2, <1>6, TailRises
<1>8. KeysRise(guards') /\ DirsRise(dirs')
  BY <1>1, <1>6, <1>7
<1>9. CASE dirs' = Tail(dirs) /\ guards' = guards /\ out' = out
  BY <1>1, <1>3, <1>5, <1>6, <1>8, <1>9 DEF Harmless, GuardsLeft
<1>10. CASE /\ dirs' = Tail(dirs) /\ guards' = guards /\ out' = Append(out, Head(dirs))
            /\ ~IsPrefix(GetItemRelativePath(Head(dirs)), GetItemRelativeLocation(Head(guards)))
            /\ Less(GetItemRelativePath(Head(dirs)), GetItemRelativeLocation(Head(guards)))
  <2>1. ASSUME NEW p \in protected PROVE ~IsPrefix(Head(dirs).path, p.path)
    <3> SUFFICES ASSUME IsPrefix(Head(dirs).path, p.path) PROVE FALSE
      OBVIOUS
    <3>1. p \in ToSet(guards)
      BY <1>3, <1>6 DEF GuardsLeft
    <3>2. GetSortKey(Head(guards)) = GetSortKey(p) \/ Less(GetSortKey(Head(guards)), GetSortKey(p))
      BY <1>1, <1>2, <1>6, <3>1, HeadRises
    <3> QED BY <1>3, <1>10, <3>2, WriteDirSpares
  <2>2. Harmless(out)'
    BY <1>1, <1>4, <1>5, <1>6, <1>10, <2>1 DEF Harmless
  <2>3. GuardsLeft'
    BY <1>1, <1>3, <1>5, <1>6, <1>10 DEF GuardsLeft
  <2> QED BY <1>8, <2>2, <2>3
<1>11. CASE /\ dirs' = dirs /\ guards' = Tail(guards) /\ out' = out
            /\ ~IsPrefix(GetItemRelativePath(Head(dirs)), GetItemRelativeLocation(Head(guards)))
            /\ ~Less(GetItemRelativePath(Head(dirs)), GetItemRelativeLocation(Head(guards)))
  <2>1. ASSUME NEW x \in ToSet(dirs) PROVE ~IsPrefix(x.path, Head(guards).path)
    <3>1. x = Head(dirs) \/ ~Less(GetItemRelativePath(x), GetItemRelativePath(Head(dirs)))
      BY <1>1, <1>2, <1>6, HeadRises
    <3> QED BY <1>3, <1>11, <3>1, PassedSpares
  <2>2. Harmless(out)'
    BY <1>1, <1>5, <1>6, <1>11 DEF Harmless
  <2>3. GuardsLeft'
    BY <1>1, <1>3, <1>5, <1>6, <1>11, <2>1 DEF GuardsLeft
  <2> QED BY <1>8, <2>2, <2>3
<1> QED BY <1>1, <1>9, <1>10, <1>11

LEMMA ScanEndSpares ==
    ASSUME NEW T \in Trees, DeleteInv(T), KeptInv(T), D!WriteRemainCandidates \/ D!DirsOver
    PROVE  KeptInv(T)'
<1>1. /\ pc = "scan" /\ pc' = "reduce"
      /\ \/ out' = out \o dirs /\ guards = <<>> /\ lost' = lost
         \/ out' = out /\ lost' = (lost \/ dirs # <<>>)
      /\ UNCHANGED <<tree, kind, protected, excludeProps>>
  BY DEF D!WriteRemainCandidates, D!DirsOver, D!WriteRemain, D!Scanning, D!UnchangedInScan, D!input
<1>2. ~lost => Harmless(out) /\ GuardsLeft
  BY <1>1 DEF KeptInv, KeptSearch
<1>3. ToSet(out \o dirs) = ToSet(out) \cup ToSet(dirs)
  <2>1. Folders(T) \subseteq T
    BY KeptTypes
  <2>2. out \in Seq(T) /\ dirs \in Seq(T)
    BY <2>1, KeptTypes, SeqMonotonic
  <2> QED BY <2>2, ConcatIs
<1>4. (~lost => Harmless(out))'
  <2>1. ToSet(out)' = ToSet(out')
    BY DEF ToSet
  <2>2. CASE out' = out \o dirs /\ guards = <<>> /\ lost' = lost
    <3>1. ToSet(guards) = {}
      BY <2>2 DEF ToSet
    <3> QED BY <1>1, <1>2, <1>3, <2>1, <2>2, <3>1 DEF Harmless, GuardsLeft
  <2>3. CASE out' = out /\ lost' = (lost \/ dirs # <<>>)
    BY <1>1, <1>2, <2>1, <2>3 DEF Harmless
  <2> QED BY <1>1, <2>2, <2>3
<1>5. pc \notin {"delete", "done"} /\ pc' \in {"filter", "reduce"} /\ pc' # "filter"
  BY <1>1
<1>6. lost => lost'
  BY <1>1, Zenon
<1> QED BY <1>1, <1>4, <1>5, <1>6, NothingMergedKept

LEMMA ScanErrorSpares == ASSUME NEW T, KeptInv(T), D!ArtifactsFail PROVE KeptInv(T)'
<1>1. pc' = "done" /\ UNCHANGED <<tree, kind, protected, excludeProps, lost>>
  BY DEF D!ArtifactsFail, D!Return, D!UnchangedInScan, D!input
<1> QED BY <1>1 DEF KeptInv, KeptInput, KeptSearch, KeptTasks

\* The list has nothing but what was gathered.
LEMMA ReduceSpares ==
    ASSUME NEW T \in Trees, DeleteInv(T), KeptInv(T), D!Reduce
    PROVE  KeptInv(T)'
<1>1. PICK seen \in Readable(SortedBuffers(out, TRUE), MayLose) :
        D!Begins(ReduceTopChain(seen)) /\ lost' = (lost \/ seen # SortedBuffers(out, TRUE))
  BY DeleteSorting, Zenon DEF D!Reduce
<1>2. /\ pc = "reduce" /\ pc' = "delete" /\ list' = ReduceTopChain(seen)
      /\ UNCHANGED <<tree, kind, protected, excludeProps, out>>
  BY <1>1 DEF D!Reduce, D!Begins, D!input, D!search
<1>3. out \in Seq(T)
  BY KeptTypes
<1>4. list' \in Seq(ToSet(out))
  <2>1. ReduceTopChain(seen) \in Seq(ToSet(out))
    BY <1>1, <1>3, TreeIs, ReduceTopIs
  <2> QED BY <1>2, <2>1
<1>5. ToSet(list') \subseteq ToSet(out)
  BY <1>4, SeqOfElements
<1>6. ~lost' => ~lost
  BY <1>1
<1>7. (~lost => Harmless(out) /\ Harmless(list))'
  <2>1. ToSet(out)' = ToSet(out) /\ ToSet(list)' = ToSet(list')
    BY <1>2 DEF ToSet
  <2>2. ~lost => Harmless(out)
    BY <1>2 DEF KeptInv, KeptSearch
  <2> QED BY <1>2, <1>5, <1>6, <2>1, <2>2 DEF Harmless
<1>8. KeptInput'
  BY <1>2 DEF KeptInv, KeptInput
<1>9. KeptSearch(T)'
  BY <1>2, <1>7 DEF KeptSearch
<1>10. KeptTasks'
  BY <1>2, <1>6, <1>7 DEF KeptInv, KeptTasks
<1> QED BY <1>8, <1>9, <1>10 DEF KeptInv

\* Steps of the deletion.
LEMMA TasksSpare ==
    ASSUME NEW T, KeptInv(T), pc = "delete", pc' \in {"delete", "done"},
           UNCHANGED <<kind, protected, excludeProps, out, lost>>,
           ToSet(list') \subseteq ToSet(list), ~lost => protected \subseteq tree'
    PROVE  KeptInv(T)'
<1>1. ToSet(out)' = ToSet(out) /\ ToSet(list)' = ToSet(list')
  BY DEF ToSet
<1>2. KeptInput'
  BY DEF KeptInv, KeptInput
<1>3. (~lost => Harmless(out) /\ Harmless(list))'
  <2>1. ~lost => Harmless(out) /\ Harmless(list)
    BY DEF KeptInv, KeptSearch, KeptTasks
  <2> QED BY <1>1, <2>1 DEF Harmless
<1>4. KeptSearch(T)'
  BY <1>3 DEF KeptSearch
<1>5. KeptTasks'
  BY <1>3 DEF KeptTasks
<1> QED BY <1>2, <1>4, <1>5 DEF KeptInv

LEMMA DeletionSpares ==
    ASSUME NEW T \in Trees, DeleteInv(T), KeptInv(T), D!StartTask \/ D!ListFails \/ D!Finish
    PROVE  KeptInv(T)'
<1>1. /\ pc = "delete" /\ pc' \in {"delete", "done"}
      /\ list' = list \/ (list' = SubSeq(list, 1, next - 1) /\ next <= Len(list))
      /\ UNCHANGED <<tree, kind, protected, excludeProps, out, lost>>
  BY DEF D!StartTask, D!ListFails, D!Finish, D!Take, D!ProducerFails, D!Return, D!UnchangedInTasks, D!input, D!search, D!tasks
<1>2. list \in Seq(T) /\ Len(list) \in Nat /\ next \in Nat /\ next >= 1 /\ DOMAIN list = 1 .. Len(list)
  BY RunningIs, KeptTypes DEF DeleteInv
<1>3. ToSet(list') \subseteq ToSet(list)
  <2>1. CASE list' = list
    BY <2>1 DEF ToSet
  <2>2. CASE list' = SubSeq(list, 1, next - 1) /\ next <= Len(list)
    <3>1. next - 1 \in 0 .. Len(list)
      BY <1>2, <2>2
    <3>2. list' \in Seq(T) /\ Len(list') = next - 1 /\ \A j \in 1 .. next - 1 : list'[j] = list[j]
      BY <1>2, <2>2, <3>1, SubSeqIs
    <3>3. DOMAIN list' = 1 .. next - 1 /\ \A j \in 1 .. next - 1 : j \in DOMAIN list
      BY <1>2, <2>2, <3>2
    <3> QED BY <3>2, <3>3 DEF ToSet
  <2> QED BY <1>1, <2>1, <2>2
<1>4. ~lost => protected \subseteq tree'
  BY <1>1 DEF KeptInv, KeptTasks
<1> QED BY <1>1, <1>3, <1>4, TasksSpare

LEMMA TaskSpares ==
    ASSUME NEW T \in Trees, DeleteInv(T), KeptInv(T), pc = "delete", NEW i \in running,
           D!DeleteItem(i) \/ D!DeleteFails(i) \/ D!DeleteDryRun(i)
    PROVE  KeptInv(T)'
<1>1. D!Without(list[i]) = {x \in tree : ~IsPrefix(list[i].path, x.path)}
  BY DeleteOperators DEF D!Without, D!Below
<1>2. /\ tree' \in {tree, {x \in tree : ~IsPrefix(list[i].path, x.path)}}
      /\ UNCHANGED <<pc, kind, protected, excludeProps, out, lost, list>>
  BY <1>1 DEF D!DeleteItem, D!DeleteFails, D!DeleteDryRun, D!Succeeds, D!Fails, D!Uncounted, D!Ends,
              D!UnchangedInTasks, D!input, D!search
<1>3. list[i] \in ToSet(list)
  <2>1. i \in DOMAIN list
    BY RunningIs DEF DeleteInv
  <2> QED BY <2>1 DEF ToSet
<1>4. ~lost => protected \subseteq tree'
  <2> SUFFICES ASSUME ~lost, NEW p \in protected PROVE p \in tree'
    OBVIOUS
  <2>1. p \in tree /\ ~IsPrefix(list[i].path, p.path)
    BY <1>3 DEF KeptInv, KeptTasks, Harmless
  <2> QED BY <1>2, <2>1
<1>5. ToSet(list') \subseteq ToSet(list) /\ pc' \in {"delete", "done"}
  BY <1>2 DEF ToSet
<1> QED BY <1>2, <1>4, <1>5, TasksSpare

LEMMA KeptStep ==
    ASSUME NEW T \in Trees, DeleteInv(T), KeptInv(T), Reliable, D!Next
    PROVE  KeptInv(T)'
<1>0. Limit = 0 /\ (Cardinality(Folders(T)) <= BufferSize \/ OneOrder(T))
  BY DEF Reliable
<1>1. CASE D!GetPathsToDelete
  BY <1>0, <1>1, SpecSearchSpares, DirectSearchSpares, SearchErrorSpares, CandidatesSpare, GuardsSpare, DirsSpare,
     ScanStepSpares, ScanEndSpares, ScanErrorSpares, ReduceSpares DEF D!GetPathsToDelete, D!Scan
<1>2. CASE D!DeleteFiles
  <2>1. D!StartTask \/ D!ListFails \/ D!Finish => KeptInv(T)'
    BY DeletionSpares
  <2>2. ASSUME NEW i \in running, D!DeleteItem(i) \/ D!DeleteFails(i) \/ D!DeleteDryRun(i) PROVE KeptInv(T)'
    <3>1. pc = "delete"
      BY <2>2 DEF DeleteInv, DeleteTasks
    <3> QED BY <2>2, <3>1, TaskSpares
  <2> QED BY <1>2, <2>1, <2>2 DEF D!DeleteFiles
<1> QED BY <1>1, <1>2 DEF D!Next

LEMMA KeptStutters ==
    ASSUME NEW T, KeptInv(T),
           UNCHANGED <<tree, pc, found, lost, list, kind, protected, excludeProps, candidates, guards, dirs, out>>
    PROVE  KeptInv(T)'
<1>1. KeptInput'
  BY DEF KeptInv, KeptInput
<1>2. ToSet(out)' = ToSet(out) /\ ToSet(list)' = ToSet(list) /\ ToSet(dirs)' = ToSet(dirs) /\ ToSet(guards)' = ToSet(guards)
  BY DEF ToSet
<1>3. Harmless(out)' = Harmless(out) /\ Harmless(list)' = Harmless(list) /\ GuardsLeft' = GuardsLeft
  BY <1>2 DEF Harmless, GuardsLeft
<1>4. KeysRise(guards)' = KeysRise(guards)
  BY Zenon DEF KeysRise, Rises
<1>5. KeptSearch(T)'
  BY <1>2, <1>3, <1>4 DEF KeptInv, KeptSearch
<1>6. KeptTasks'
  BY <1>3 DEF KeptInv, KeptTasks
<1> QED BY <1>1, <1>5, <1>6 DEF KeptInv

-----------------------------------------------------------------------------
(* The invariant of PropsService.  The tasks are those of the reader's items  *)
(* as long as there is no error; those that have ended have done what was     *)
(* asked.                                                                     *)

PropsTypes ==
    /\ found \in Seq(tree) /\ list \in Seq(tree)
    /\ next \in 1 .. Len(list) + 1 /\ running \subseteq 1 .. next - 1
    /\ pc \in {"ready", "set", "returned", "delete", "done"}
    /\ drained = FALSE /\ failed \in BOOLEAN
    /\ err \in {"none", "nil", "err"}

ListOfFound ==
    /\ \A i \in 1 .. Len(list) : list[i] \in ToSet(found)
    /\ P!Working /\ ~failed => list = found

HasInv ==
    /\ has \subseteq ToSet(found)
    /\ pc = "ready" => has = {}
    /\ pc = "set" /\ ~failed => \A i \in Ended : list[i] \in has
    /\ pc = "delete" /\ ~failed => \A i \in Ended : list[i] \notin has

NilInv ==
    err = "nil" => \/ pc = "returned" /\ has = ToSet(found)
                   \/ pc = "done" /\ has = {}

PropsInv == PropsTypes /\ ListOfFound /\ HasInv /\ NilInv

LEMMA PropsInitially == ASSUME P!Init PROVE PropsInv
<1>1. list \in Seq(tree) /\ Len(list) = 0
  <2>1. <<>> \in Seq(tree) /\ Len(<<>>) = 0
    OBVIOUS
  <2> QED BY <2>1 DEF P!Init
<1>2. found \in Seq(tree)
  <2>1. PICK S \in SUBSET tree : found = P!InOrder(S)
    BY DEF P!Init
  <2>2. IsFiniteSet(S)
    BY TreesAssumption, FS_Subset DEF P!Init
  <2>3. P!InOrder(S) = InOrder(S)
    BY DEF P!InOrder, InOrder, P!FoldSet, FoldSet, P!MapThenFoldSet, MapThenFoldSet
  <2>4. found \in Seq(S)
    BY <2>1, <2>2, <2>3, InOrderLists
  <2> QED BY <2>1, <2>4, SeqMonotonic
<1>3. next \in 1 .. Len(list) + 1 /\ running \subseteq 1 .. next - 1
  BY <1>1 DEF P!Init
<1>4. PropsTypes
  BY <1>1, <1>2, <1>3 DEF P!Init, PropsTypes
<1>5. ListOfFound /\ HasInv /\ NilInv
  BY <1>1 DEF P!Init, ListOfFound, HasInv, NilInv, P!Working
<1> QED BY <1>4, <1>5 DEF PropsInv

\* The items of a sequence.
LEMMA Elements ==
    ASSUME PropsTypes
    PROVE  /\ \A i \in 1 .. Len(found) : found[i] \in ToSet(found)
           /\ \A x \in ToSet(found) : \E i \in 1 .. Len(found) : found[i] = x
           /\ \A i \in running : i \in 1 .. Len(list)
<1>1. found \in Seq(tree) /\ DOMAIN found = 1 .. Len(found)
  BY DEF PropsTypes
<1>2. Len(list) \in Nat
  BY DEF PropsTypes
<1>3. \A i \in running : i \in 1 .. Len(list)
  BY <1>2 DEF PropsTypes
<1> QED BY <1>1, <1>3 DEF ToSet

(* SetProps or DeleteProps begins.                                            *)
LEMMA CallKept ==
    ASSUME PropsInv, NEW operation \in {"set", "delete"}, P!Calls(operation)
    PROVE  PropsInv'
<1>1. /\ list' = found /\ next' = 1 /\ running' = {} /\ failed' = FALSE
      /\ pc' = operation /\ err' = "none" /\ UNCHANGED <<tree, found, drained, has>>
  BY DEF PropsInv, PropsTypes, P!Calls, P!Begins
<1>2. PropsTypes'
  <2>1. next' \in 1 .. Len(list') + 1 /\ running' \subseteq 1 .. next' - 1
    BY <1>1 DEF PropsInv, PropsTypes
  <2>2. list' \in Seq(tree') /\ found' \in Seq(tree')
    BY <1>1 DEF PropsInv, PropsTypes
  <2> QED BY <1>1, <2>1, <2>2 DEF PropsInv, PropsTypes
<1>3. ListOfFound'
  BY <1>1, Elements DEF PropsInv, ListOfFound
<1>4. HasInv'
  BY <1>1 DEF PropsInv, HasInv, Ended
<1>5. NilInv'
  BY <1>1 DEF NilInv
<1> QED BY <1>2, <1>3, <1>4, <1>5 DEF PropsInv

(* A task ends: it has set or deleted the properties, or there is an error.   *)
LEMMA TaskKept ==
    ASSUME PropsInv, P!Working, NEW i \in running, P!Ends(i), UNCHANGED P!UnchangedInTasks,
           failed' \in BOOLEAN, failed => failed',
           P!Apply(i) \/ (UNCHANGED has /\ failed')
    PROVE  PropsInv'
<1> USE DEF PropsInv
<1>1. /\ running' = running \ {i} /\ i \in 1 .. Len(list) /\ i \in 1 .. next - 1
      /\ UNCHANGED <<list, next, tree, found, pc, drained, err>>
  BY Elements DEF P!Ends, P!UnchangedInTasks, PropsTypes
<1>2. PropsTypes'
  BY <1>1 DEF PropsTypes
<1>3. ListOfFound'
  BY <1>1 DEF ListOfFound, P!Working
<1>4. Ended' = Ended \cup {i}
  BY <1>1 DEF Ended
<1>5. list[i] \in ToSet(found)
  BY <1>1 DEF ListOfFound
<1>6. HasInv'
  <2>1. CASE pc = "set"
    BY <1>1, <1>4, <1>5, <2>1 DEF P!Apply, HasInv
  <2>2. CASE pc = "delete"
    BY <1>1, <1>4, <1>5, <2>2 DEF P!Apply, HasInv
  <2> QED BY <2>1, <2>2 DEF P!Working
<1>7. NilInv'
  BY <1>1 DEF NilInv, P!Working
<1> QED BY <1>2, <1>3, <1>6, <1>7

(* The last task has ended: what has been done to all the reader's items.     *)
LEMMA ReturnKept == ASSUME PropsInv, P!Return PROVE PropsInv'
<1> USE DEF PropsInv
<1>1. /\ P!Working /\ next > Len(list) /\ running = {}
      /\ drained' = FALSE /\ err' = (IF failed THEN "err" ELSE "nil")
      /\ pc' = (IF pc = "set" THEN "returned" ELSE "done")
      /\ UNCHANGED <<tree, found, list, next, running, succeeded, failed, has>>
  BY DEF P!Return, P!AllEnded, P!tasks
<1>2. PropsTypes'
  BY <1>1 DEF PropsTypes
<1>3. ListOfFound'
  BY <1>1 DEF ListOfFound, P!Working
<1>4. HasInv'
  BY <1>1 DEF HasInv, P!Working
<1>5. NilInv'
  <2> SUFFICES ASSUME ~failed PROVE NilInv'
    BY <1>1 DEF NilInv
  <2>1. list = found
    BY <1>1 DEF ListOfFound
  <2>2. 1 .. Len(found) \subseteq Ended
    BY <1>1, <2>1 DEF Ended, PropsTypes
  <2>3. CASE pc = "set"
    <3>1. ToSet(found) \subseteq has
      BY <2>1, <2>2, <2>3, Elements DEF HasInv
    <3>2. has = ToSet(found)
      BY <3>1 DEF HasInv
    <3> QED BY <1>1, <2>3, <3>2 DEF NilInv
  <2>4. CASE pc = "delete"
    <3>1. \A x \in ToSet(found) : x \notin has
      BY <2>1, <2>2, <2>4, Elements DEF HasInv
    <3>2. has = {}
      BY <3>1 DEF HasInv
    <3> QED BY <1>1, <2>4, <3>2 DEF NilInv
  <2> QED BY <1>1, <2>3, <2>4 DEF P!Working
<1> QED BY <1>2, <1>3, <1>4, <1>5

LEMMA PropsStep == ASSUME PropsInv, P!Next PROVE PropsInv'
<1>1. CASE P!SetProps
  BY <1>1, CallKept DEF P!SetProps
<1>2. CASE P!DeleteProps
  BY <1>2, CallKept DEF P!DeleteProps
<1>3. CASE P!BadProps
  <2>1. /\ pc = "ready" /\ pc' = "returned" /\ err' = "err"
        /\ UNCHANGED <<tree, found, drained, list, next, running, succeeded, failed, has>>
    BY <1>3 DEF P!BadProps, P!tasks
  <2> QED BY <2>1 DEF PropsInv, PropsTypes, ListOfFound, HasInv, NilInv, P!Working, Ended
<1>4. CASE P!StartTask
  <2>1. /\ P!Working /\ next <= Len(list) /\ next' = next + 1 /\ running' = running \cup {next}
        /\ UNCHANGED <<list, failed, tree, found, pc, drained, has, err>>
    BY <1>4 DEF P!StartTask, P!Take
  <2>2. PropsTypes'
    BY <2>1 DEF PropsInv, PropsTypes
  <2>3. Ended' = Ended
    BY <2>1 DEF PropsInv, PropsTypes, Ended
  <2> QED BY <2>1, <2>2, <2>3 DEF PropsInv, ListOfFound, HasInv, NilInv, P!Working
<1>5. CASE P!ListFails
  <2>1. /\ P!Working /\ next <= Len(list) /\ list' = SubSeq(list, 1, next - 1) /\ failed' = TRUE
        /\ UNCHANGED <<next, running, tree, found, pc, drained, has, err>>
    BY <1>5 DEF P!ListFails, P!ProducerFails, P!UnchangedInTasks
  <2>2. list' \in Seq(tree) /\ Len(list') = next - 1
        /\ \A i \in 1 .. Len(list') : list'[i] = list[i] /\ i \in 1 .. Len(list)
    BY <2>1 DEF PropsInv, PropsTypes
  <2>3. PropsTypes'
    BY <2>1, <2>2 DEF PropsInv, PropsTypes
  <2>4. ListOfFound'
    BY <2>1, <2>2 DEF PropsInv, ListOfFound, P!Working
  <2>5. HasInv' /\ NilInv'
    BY <2>1 DEF PropsInv, HasInv, NilInv
  <2> QED BY <2>3, <2>4, <2>5 DEF PropsInv
<1>6. CASE P!Return
  BY <1>6, ReturnKept
<1>7. ASSUME NEW i \in running, P!PropsSet(i) \/ P!PropsFail(i) PROVE PropsInv'
  BY <1>7, TaskKept DEF P!PropsSet, P!PropsFail, P!Succeeds, P!Fails, PropsInv, PropsTypes
<1> QED BY <1>1, <1>2, <1>3, <1>4, <1>5, <1>6, <1>7 DEF P!Next

-----------------------------------------------------------------------------
(* The invariant of GitLfsClean with DeleteFiles.  What is referenced and     *)
(* matches, the push aside, does not change; once Git has been read it is     *)
(* kept, and nothing that is kept has a task.  A pushed file that was found   *)
(* is kept too, unless its reference was not there at either reading.         *)

Referenced == G!Pointers(G!Matching(refs) \ {Push})
Pushed == G!Pointers({Push})
Midst == unaware = {"search", "collect"}

LfsTypes ==
    /\ found \in Seq(LfsFiles) /\ list \in Seq(LfsFiles)
    /\ next \in 1 .. Len(list) + 1 /\ running \subseteq 1 .. next - 1
    /\ pushed \in {"no", "files", "refs"} /\ unaware \subseteq {"search", "collect"}

RepositoryInv ==
    \E R \in Repositories :
        /\ refs \in {R, R \cup {Push}}
        /\ tree \subseteq Garbage \cup G!Pointers(R) \cup (IF pushed = "no" THEN {} ELSE Pushed)

ThereInv ==
    /\ Referenced \subseteq tree
    /\ pushed = "no" \/ Midst \/ Pushed \subseteq tree

FoundInv ==
    /\ unaware # {} => pushed # "no"
    /\ pc \in {"collect", "filter", "delete"} =>
         ToSet(found) \cap Pushed = {} \/ Push \in refs \/ "search" \in unaware

KeepInv ==
    pc \in {"filter", "delete"} =>
        /\ Referenced \subseteq keep
        /\ ToSet(found) \cap Pushed = {} \/ Pushed \subseteq keep \/ Midst

TasksInv ==
    /\ pc = "delete" => \A i \in 1 .. Len(list) : list[i] \in ToSet(found) \ keep
    /\ pc # "delete" => running = {}

LfsInv == LfsTypes /\ RepositoryInv /\ ThereInv /\ FoundInv /\ KeepInv /\ TasksInv

LEMMA PointersMonotone ==
    ASSUME NEW S, NEW T, S \subseteq T
    PROVE  G!Pointers(S) \subseteq G!Pointers(T)
BY DEF G!Pointers

LEMMA RepositoryFiles ==
    /\ \A R \in Repositories : G!Pointers(R) \subseteq LfsFiles
    /\ Pushed \subseteq LfsFiles /\ Garbage \subseteq LfsFiles
    /\ Push.type = "hash" /\ Push.matches
<1> DEFINE refsEver == (UNION Repositories) \cup {Push}
<1>1. {Push} \subseteq refsEver /\ \A R \in Repositories : R \subseteq refsEver
  <2>1. \A R \in Repositories : R \subseteq UNION Repositories
    OBVIOUS
  <2>2. {Push} \subseteq refsEver
    BY Zenon
  <2> QED BY <2>1, <2>2, Zenon
<1>2. LfsFiles = Garbage \cup G!Pointers(refsEver)
  BY DEF LfsFiles
<1> HIDE DEF refsEver
<1>3. \A R \in Repositories : G!Pointers(R) \subseteq G!Pointers(refsEver)
  BY <1>1, PointersMonotone
<1>4. G!Pointers({Push}) \subseteq G!Pointers(refsEver)
  BY <1>1, PointersMonotone
<1>5. Push.type = "hash" /\ Push.matches
  BY LfsAssumption DEF G!Matching
<1> QED BY <1>2, <1>3, <1>4, <1>5 DEF Pushed

LEMMA TreeFacts ==
    ASSUME RepositoryInv
    PROVE  /\ tree \subseteq LfsFiles
           /\ pushed = "no" => tree \cap Pushed = {}
<1>1. PICK R \in Repositories :
          tree \subseteq Garbage \cup G!Pointers(R) \cup (IF pushed = "no" THEN {} ELSE Pushed)
  BY DEF RepositoryInv
<1>2. G!Pointers(R) \subseteq LfsFiles /\ Pushed \subseteq LfsFiles /\ Garbage \subseteq LfsFiles
  BY RepositoryFiles
<1>3. Pushed \cap (Garbage \cup G!Pointers(R)) = {}
  BY LfsAssumption DEF Pushed
<1> QED BY <1>1, <1>2, <1>3

LEMMA LfsInitially == ASSUME G!Init PROVE LfsInv
<1>1. PICK R \in Repositories : refs = R
  BY DEF G!Init
<1>2. LfsTypes
  <2>1. <<>> \in Seq(LfsFiles) /\ Len(<<>>) = 0
    OBVIOUS
  <2>2. next \in 1 .. Len(list) + 1 /\ running \subseteq 1 .. next - 1
    BY <2>1 DEF G!Init
  <2>3. found \in Seq(LfsFiles) /\ list \in Seq(LfsFiles)
    BY <2>1 DEF G!Init
  <2> QED BY <2>2, <2>3 DEF G!Init, LfsTypes
<1>3. RepositoryInv
  BY DEF G!Init, RepositoryInv
<1>4. ThereInv
  <2>1. G!Matching(refs) \ {Push} \subseteq refs
    BY DEF G!Matching
  <2>2. Referenced \subseteq G!Pointers(refs)
    BY <2>1, PointersMonotone DEF Referenced
  <2> QED BY <2>2 DEF G!Init, ThereInv
<1>5. FoundInv /\ KeepInv /\ TasksInv
  BY DEF G!Init, FoundInv, KeepInv, TasksInv
<1> QED BY <1>2, <1>3, <1>4, <1>5 DEF LfsInv

(* SearchLfsFiles: a pushed file is found only when the push has begun.       *)
LEMMA SearchKept == ASSUME LfsInv, G!SearchLfsFiles PROVE LfsInv'
<1>1. /\ pc = "search" /\ pc' = "collect" /\ found' = G!InOrder(tree)
      /\ unaware' = unaware \cup {r \in {"search"} : G!Unaware}
      /\ UNCHANGED <<tree, refs, pushed, keep, list, next, running>>
  BY DEF G!SearchLfsFiles, G!Goes, G!Then, G!Notes, G!tasks
<1>2. found' \in Seq(tree) /\ ToSet(found') = tree
  <2>1. IsFiniteSet(tree)
    BY TreeFacts, LfsAssumption, FS_Subset DEF LfsInv
  <2>2. G!InOrder(tree) = InOrder(tree)
    BY DEF G!InOrder, InOrder, G!FoldSet, FoldSet, G!MapThenFoldSet, MapThenFoldSet
  <2> QED BY <1>1, <2>1, <2>2, InOrderLists
<1>3. LfsTypes'
  <2>1. found' \in Seq(LfsFiles)
    BY <1>2, TreeFacts, SeqMonotonic DEF LfsInv
  <2> QED BY <1>1, <2>1 DEF LfsInv, LfsTypes
<1>4. RepositoryInv'
  BY <1>1 DEF LfsInv, RepositoryInv, Pushed
<1>5. ThereInv'
  <2>1. Referenced' = Referenced /\ Pushed' = Pushed
    BY <1>1 DEF Referenced, Pushed
  <2>2. Midst => Midst'
    BY <1>1 DEF Midst
  <2> QED BY <1>1, <2>1, <2>2 DEF LfsInv, ThereInv
<1>6. FoundInv'
  <2>1. ToSet(found') \cap Pushed = {} \/ Push \in refs \/ "search" \in unaware'
    BY <1>1, <1>2, TreeFacts DEF LfsInv, LfsTypes, G!Unaware
  <2>2. ToSet(found)' = ToSet(found')
    BY DEF ToSet
  <2>3. unaware' # {} => pushed # "no"
    BY <1>1 DEF LfsInv, FoundInv, G!Unaware
  <2> QED BY <1>1, <2>1, <2>2, <2>3 DEF FoundInv, Pushed
<1>7. KeepInv' /\ TasksInv'
  BY <1>1 DEF LfsInv, KeepInv, TasksInv
<1> QED BY <1>3, <1>4, <1>5, <1>6, <1>7 DEF LfsInv

(* Collect: the pushed reference is kept when it is there; when it is not,    *)
(* a pushed file that was found was found without it.                         *)
LEMMA CollectKept == ASSUME LfsInv, G!Collect PROVE LfsInv'
<1>1. /\ pc = "collect" /\ pc' = "filter" /\ keep' = G!Pointers(G!Matching(refs))
      /\ unaware' = unaware \cup {r \in {"collect"} : G!Unaware}
      /\ UNCHANGED <<tree, refs, pushed, found, list, next, running>>
  BY DEF G!Collect, G!Goes, G!Then, G!Notes, G!tasks
<1>2. Referenced' = Referenced /\ Pushed' = Pushed
  BY <1>1 DEF Referenced, Pushed
<1>3. LfsTypes' /\ RepositoryInv'
  BY <1>1 DEF LfsInv, LfsTypes, RepositoryInv, Pushed
<1>4. ThereInv'
  BY <1>1, <1>2 DEF LfsInv, ThereInv, Midst
<1>5. FoundInv'
  BY <1>1, <1>2 DEF LfsInv, FoundInv, G!Unaware
<1>6. Referenced \subseteq keep'
  <2>1. G!Matching(refs) \ {Push} \subseteq G!Matching(refs)
    OBVIOUS
  <2> QED BY <1>1, <2>1, PointersMonotone DEF Referenced
<1>7. ToSet(found) \cap Pushed = {} \/ Pushed \subseteq keep' \/ Midst'
  <2>1. CASE Push \in refs
    <3>2. {Push} \subseteq G!Matching(refs)
      BY <2>1, RepositoryFiles DEF G!Matching
    <3>3. Pushed \subseteq keep'
      BY <1>1, <3>2, PointersMonotone DEF Pushed
    <3> QED BY <3>3
  <2>2. CASE Push \notin refs /\ "search" \in unaware
    <3>1. G!Unaware
      BY <2>2 DEF LfsInv, FoundInv, G!Unaware
    <3>2. Midst'
      BY <1>1, <2>2, <3>1 DEF LfsInv, LfsTypes, Midst
    <3> QED BY <3>2
  <2> QED BY <1>1, <2>1, <2>2 DEF LfsInv, FoundInv
<1>8. KeepInv'
  BY <1>1, <1>2, <1>6, <1>7 DEF KeepInv
<1>9. TasksInv'
  BY <1>1 DEF LfsInv, TasksInv
<1> QED BY <1>3, <1>4, <1>5, <1>8, <1>9 DEF LfsInv

(* FindFilesToDelete: what has a task is found and not kept.                  *)
LEMMA FilterKept == ASSUME LfsInv, G!FindFilesToDelete PROVE LfsInv'
<1>1. PICK n \in 0 .. Len(found) : G!Begins(G!InOrder(G!ToSet(SubSeq(found, 1, n)) \ keep))
  BY DEF G!FindFilesToDelete
<1> DEFINE S == ToSet(SubSeq(found, 1, n)) \ keep
<1>2. found \in Seq(LfsFiles) /\ Len(found) \in Nat /\ DOMAIN found = 1 .. Len(found)
  BY DEF LfsInv, LfsTypes
<1>3. S \subseteq ToSet(found) \ keep
  <2>1. \A i \in 1 .. n : found[i] \in LfsFiles /\ i \in 1 .. Len(found)
    BY <1>2, ElementOfSeq
  <2>2. /\ SubSeq(found, 1, n) \in Seq(LfsFiles)
        /\ Len(SubSeq(found, 1, n)) = n
        /\ \A i \in 1 .. n : SubSeq(found, 1, n)[i] = found[i]
    BY <1>2, <2>1, SubSeqProperties
  <2>3. DOMAIN SubSeq(found, 1, n) = 1 .. n
    BY <2>2, LenProperties
  <2> QED BY <1>2, <2>1, <2>2, <2>3 DEF ToSet
<1>4. ToSet(found) \subseteq LfsFiles
  BY <1>2, ElementOfSeq DEF ToSet
<1>5. /\ list' = InOrder(S) /\ next' = 1 /\ running' = {}
      /\ pc = "filter" /\ pc' = "delete"
      /\ UNCHANGED <<tree, refs, pushed, found, keep, unaware>>
  <2>1. G!ToSet(SubSeq(found, 1, n)) \ keep = S
    BY DEF ToSet, G!ToSet
  <2> HIDE DEF S
  <2>2. G!InOrder(S) = InOrder(S)
    BY DEF G!InOrder, InOrder, G!FoldSet, FoldSet, G!MapThenFoldSet, MapThenFoldSet
  <2> QED BY <1>1, <2>1, <2>2 DEF G!FindFilesToDelete, G!Begins
<1> HIDE DEF S
<1>6. list' \in Seq(S) /\ ToSet(list') = S
  <2>1. IsFiniteSet(S)
    <3>1. S \in SUBSET LfsFiles
      BY <1>3, <1>4
    <3> QED BY <3>1, LfsAssumption, FS_Subset
  <2> QED BY <1>5, <2>1, InOrderLists
<1>7. list' \in Seq(LfsFiles) /\ \A i \in 1 .. Len(list') : list'[i] \in S
  BY <1>3, <1>4, <1>6, SeqMonotonic, ElementOfSeq
<1>8. LfsTypes'
  <2>1. Len(list') \in Nat
    BY <1>7
  <2>2. next' \in 1 .. Len(list') + 1 /\ running' \subseteq 1 .. next' - 1
    BY <1>5, <2>1
  <2> QED BY <1>5, <1>7, <2>2 DEF LfsInv, LfsTypes
<1>9. TasksInv'
  BY <1>3, <1>5, <1>7 DEF TasksInv
<1>10. Referenced' = Referenced /\ Pushed' = Pushed
  BY <1>5 DEF Referenced, Pushed
<1>11. RepositoryInv' /\ ThereInv' /\ FoundInv' /\ KeepInv'
  BY <1>5, <1>10 DEF LfsInv, RepositoryInv, ThereInv, FoundInv, KeepInv, Midst
<1> QED BY <1>8, <1>9, <1>11 DEF LfsInv

(* A task ends that may have deleted its file: nothing that is kept is there  *)
(* or below it.                                                               *)
LEMMA DeletionKept ==
    ASSUME LfsInv, NEW i \in running, running' \subseteq running, tree' \in {tree, D!Without(list[i])},
           UNCHANGED <<list, next, pc, found, refs, pushed, keep, unaware>>
    PROVE  LfsInv'
<1>1. i \in 1 .. Len(list) /\ pc = "delete" /\ list[i] \in LfsFiles /\ list[i] \in ToSet(found) \ keep
  <2>1. Len(list) \in Nat /\ i \in 1 .. Len(list)
    BY DEF LfsInv, LfsTypes
  <2> QED BY <2>1, ElementOfSeq DEF LfsInv, LfsTypes, TasksInv
<1>2. tree' \subseteq tree /\ tree \subseteq LfsFiles
  BY TreeFacts DEF D!Without, LfsInv
<1>3. ASSUME NEW file \in tree, file # list[i] PROVE file \in tree'
  <2>1. ~IsPrefix(list[i].path, file.path)
    BY <1>1, <1>2, <1>3, LfsAssumption
  <2>2. ~D!Below(file, list[i])
    BY <2>1 DEF D!Below, IsPrefix, D!IsPrefix
  <2> QED BY <1>3, <2>2 DEF D!Without
<1>4. Referenced' = Referenced /\ Pushed' = Pushed
  BY DEF Referenced, Pushed
<1>5. LfsTypes'
  BY DEF LfsInv, LfsTypes
<1>6. RepositoryInv'
  <2>1. PICK R \in Repositories :
          /\ refs \in {R, R \cup {Push}}
          /\ tree \subseteq Garbage \cup G!Pointers(R) \cup (IF pushed = "no" THEN {} ELSE Pushed)
    BY DEF LfsInv, RepositoryInv
  <2> QED BY <1>2, <1>4, <2>1 DEF RepositoryInv
<1>7. ThereInv'
  <2>1. Referenced \subseteq tree'
    BY <1>1, <1>3 DEF LfsInv, ThereInv, KeepInv
  <2>2. CASE list[i] \in Pushed
    BY <1>1, <1>4, <2>1, <2>2 DEF LfsInv, ThereInv, KeepInv, Midst
  <2>3. CASE list[i] \notin Pushed
    BY <1>1, <1>3, <1>4, <2>1, <2>3 DEF LfsInv, ThereInv, Midst
  <2> QED BY <2>2, <2>3
<1>8. FoundInv' /\ KeepInv'
  BY <1>4 DEF LfsInv, FoundInv, KeepInv, Midst
<1>9. TasksInv'
  BY <1>1 DEF LfsInv, TasksInv
<1> QED BY <1>5, <1>6, <1>7, <1>8, <1>9 DEF LfsInv

LEMMA DeleteFilesKept ==
    ASSUME LfsInv, D!DeleteFiles, UNCHANGED <<refs, pushed, keep, unaware>>
    PROVE  LfsInv'
<1>1. ASSUME UNCHANGED <<tree, found>> PROVE Referenced' = Referenced /\ Pushed' = Pushed
  BY DEF Referenced, Pushed
<1>2. ASSUME UNCHANGED <<tree, found>>, LfsTypes', TasksInv', pc' \in {pc, "done"} PROVE LfsInv'
  BY <1>1, <1>2 DEF LfsInv, RepositoryInv, ThereInv, FoundInv, KeepInv, Midst
<1>3. CASE D!StartTask
  <2>1. /\ pc = "delete" /\ next <= Len(list) /\ next' = next + 1 /\ running' = running \cup {next}
        /\ UNCHANGED <<tree, found, pc, list>>
    BY <1>3 DEF D!StartTask, D!Take, D!UnchangedInTasks, D!search
  <2>2. LfsTypes'
    BY <2>1 DEF LfsInv, LfsTypes
  <2>3. TasksInv'
    BY <2>1 DEF LfsInv, TasksInv
  <2> QED BY <1>2, <2>1, <2>2, <2>3
<1>4. CASE D!ListFails
  <2>1. /\ pc = "delete" /\ next <= Len(list) /\ list' = SubSeq(list, 1, next - 1)
        /\ UNCHANGED <<tree, found, pc, next, running>>
    BY <1>4 DEF D!ListFails, D!ProducerFails, D!UnchangedInTasks, D!search
  <2>2. list' \in Seq(LfsFiles) /\ Len(list') = next - 1
        /\ \A i \in 1 .. Len(list') : list'[i] = list[i] /\ i \in 1 .. Len(list)
    BY <2>1 DEF LfsInv, LfsTypes
  <2>3. LfsTypes'
    BY <2>1, <2>2 DEF LfsInv, LfsTypes
  <2>4. TasksInv'
    BY <2>1, <2>2 DEF LfsInv, TasksInv
  <2> QED BY <1>2, <2>1, <2>3, <2>4
<1>5. CASE D!Finish
  <2>1. /\ pc = "delete" /\ pc' = "done" /\ running = {}
        /\ UNCHANGED <<tree, found, list, next, running>>
    BY <1>5 DEF D!Finish, D!Return, D!AllEnded, D!search, D!tasks
  <2>2. LfsTypes' /\ TasksInv'
    BY <2>1 DEF LfsInv, LfsTypes, TasksInv
  <2> QED BY <1>2, <2>1, <2>2
<1>6. ASSUME NEW i \in running, D!DeleteItem(i) \/ D!DeleteFails(i) \/ D!DeleteDryRun(i) PROVE LfsInv'
  <2>1. /\ running' \subseteq running /\ tree' \in {tree, D!Without(list[i])}
        /\ UNCHANGED <<list, next, pc, found>>
    BY <1>6 DEF D!DeleteItem, D!DeleteFails, D!DeleteDryRun, D!Succeeds, D!Fails, D!Uncounted,
                D!Ends, D!UnchangedInTasks, D!search
  <2> QED BY <2>1, DeletionKept
<1> QED BY <1>3, <1>4, <1>5, <1>6 DEF D!DeleteFiles

(* A commit or a fetch adds the pushed reference, and no other.               *)
LEMMA ReferenceKept == ASSUME LfsInv, G!Commit \/ G!Fetch PROVE LfsInv'
<1>1. /\ refs' = refs \cup {Push}
      /\ UNCHANGED <<tree, pushed, pc, found, keep, unaware, list, next, running>>
  BY DEF G!Commit, G!Fetch, G!tasks
<1>2. PICK R \in Repositories :
        /\ refs \in {R, R \cup {Push}}
        /\ tree \subseteq Garbage \cup G!Pointers(R) \cup (IF pushed = "no" THEN {} ELSE Pushed)
  BY DEF LfsInv, RepositoryInv
<1>3. Pushed' = Pushed
  BY DEF Pushed
<1>4. Referenced' = Referenced
  <2>1. G!Matching(refs') \ {Push} = G!Matching(refs) \ {Push}
    BY <1>1 DEF G!Matching
  <2>2. G!Pointers(G!Matching(refs') \ {Push}) = G!Pointers(G!Matching(refs) \ {Push})
    BY <2>1
  <2> QED BY <2>2 DEF Referenced
<1>5. LfsTypes'
  BY <1>1 DEF LfsInv, LfsTypes
<1>6. RepositoryInv'
  <2>1. refs' = R \cup {Push}
    BY <1>1, <1>2
  <2> QED BY <1>1, <1>2, <1>3, <2>1 DEF RepositoryInv
<1>7. ThereInv' /\ FoundInv' /\ KeepInv' /\ TasksInv'
  BY <1>1, <1>3, <1>4 DEF LfsInv, ThereInv, FoundInv, KeepInv, TasksInv, Midst
<1> QED BY <1>5, <1>6, <1>7 DEF LfsInv

LEMMA PushKept == ASSUME LfsInv, G!PushFiles \/ G!PushRef PROVE LfsInv'
<1>1. PICK R \in Repositories :
        /\ refs \in {R, R \cup {Push}}
        /\ tree \subseteq Garbage \cup G!Pointers(R) \cup (IF pushed = "no" THEN {} ELSE Pushed)
  BY DEF LfsInv, RepositoryInv
<1>2. \/ pushed = "no" /\ pushed' = "files" /\ tree' = tree \cup Pushed
      \/ pushed = "files" /\ pushed' = "refs" /\ tree' = tree
  BY DEF G!PushFiles, G!PushRef, Pushed
<1>3. UNCHANGED <<refs, pc, found, keep, unaware, list, next, running>>
  BY DEF G!PushFiles, G!PushRef, G!tasks
<1>4. Referenced' = Referenced /\ Pushed' = Pushed
  BY <1>3 DEF Referenced, Pushed
<1>5. LfsTypes'
  BY <1>2, <1>3 DEF LfsInv, LfsTypes
<1>6. RepositoryInv'
  <2>1. tree' \subseteq Garbage \cup G!Pointers(R) \cup (IF pushed' = "no" THEN {} ELSE Pushed)
    BY <1>1, <1>2
  <2> QED BY <1>1, <1>3, <1>4, <2>1 DEF RepositoryInv
<1>7. ThereInv'
  BY <1>2, <1>3, <1>4 DEF LfsInv, ThereInv, Midst
<1>8. FoundInv' /\ KeepInv' /\ TasksInv'
  BY <1>2, <1>3, <1>4 DEF LfsInv, FoundInv, KeepInv, TasksInv, Midst
<1> QED BY <1>5, <1>6, <1>7, <1>8 DEF LfsInv

LEMMA LfsStep == ASSUME LfsInv, G!Next PROVE LfsInv'
<1>1. ASSUME UNCHANGED <<tree, refs, pushed, found, keep, unaware, list, next, running>>,
             pc \notin {"collect", "filter"}, pc # "delete", pc' \in {"search", "done"}
      PROVE  LfsInv'
  BY <1>1 DEF LfsInv, LfsTypes, RepositoryInv, ThereInv, FoundInv, KeepInv, TasksInv,
              Referenced, Pushed, Midst
<1>2. CASE G!DetectRepo
  BY <1>1, <1>2 DEF G!DetectRepo, G!Goes, G!Then, G!tasks
<1>3. CASE G!CleanFails
  <2>1. /\ pc # "delete" /\ pc' = "done"
        /\ UNCHANGED <<tree, refs, pushed, found, keep, unaware, list, next, running>>
    BY <1>3 DEF G!CleanFails, G!tasks
  <2> QED BY <2>1 DEF LfsInv, LfsTypes, RepositoryInv, ThereInv, FoundInv, KeepInv, TasksInv,
                      Referenced, Pushed, Midst
<1> QED BY <1>2, <1>3, SearchKept, CollectKept, FilterKept, ReferenceKept, PushKept
        DEF G!Next, G!GetUnreferencedGitLfsFiles, G!Somebody

-----------------------------------------------------------------------------
IInv ==
    /\ service = "delete" => \E T \in Trees : DeleteInv(T)
    /\ service = "move" => \E L \in SpecLists : MoveInv(L)
    /\ service = "props" => PropsInv
    /\ service = "lfs" => LfsInv

\* Steps of the other services leave what a service's invariant is about alone.
LEMMA DeleteStutters ==
    ASSUME NEW T, DeleteInv(T),
           UNCHANGED <<tree, pc, found, lost, dryRun, err, list, next, running, succeeded, failed,
                       kind, protected, excludeProps, candidates, guards, dirs, out>>
    PROVE  DeleteInv(T)'
<1>1. DeleteTypes(T)' /\ DeleteTasks(T)'
  BY DEF DeleteInv, DeleteTypes, DeleteTasks
<1>2. Gathered'
  <2>1. ToSet(found)' = ToSet(found) /\ \A x : Stays(x)' = Stays(x) /\ Goes(x)' = Goes(x) /\ IsCandidate(x)' = IsCandidate(x)
    BY DEF ToSet, Stays, D!Spared, Goes, IsCandidate
  <2>2. ToSet(out)' = ToSet(out) /\ ToSet(dirs)' = ToSet(dirs)
    BY DEF ToSet
  <2> QED BY <2>1, <2>2 DEF DeleteInv, Gathered
<1>3. Deleted' /\ Targets'
  BY DEF DeleteInv, Deleted, Targets, Ended, Unfinished
<1>4. (D!NilMeansGone)'
  BY DEF DeleteInv, D!NilMeansGone, D!Spared
<1> QED BY <1>1, <1>2, <1>3, <1>4 DEF DeleteInv

LEMMA MoveStutters ==
    ASSUME NEW L, MoveInv(L),
           UNCHANGED <<tree, pc, lost, dryRun, err, list, next, running, succeeded, failed,
                       moveType, specs, readers, placed>>
    PROVE  MoveInv(L)'
<1>1. MoveTypes(L)' /\ MoveTasks(L)' /\ HeldByReaders(L)' /\ HeldByTasks(L)'
  BY DEF MoveInv, MoveTypes, MoveTasks, HeldByReaders, HeldByTasks, Leads
<1>2. TakenByEnded(L)' /\ PlacedByEnded'
  BY DEF MoveInv, TakenByEnded, PlacedByEnded, Ended
<1>3. CountedAreCarried(L)'
  <2>1. {i \in Ended : Carried(L, i)}' = {i \in Ended : Carried(L, i)}
    BY DEF Carried, Ended
  <2> QED BY <2>1 DEF MoveInv, CountedAreCarried
<1>4. (M!NilMeansPlaced)'
  BY DEF MoveInv, M!NilMeansPlaced, M!FilesFound
<1> QED BY <1>1, <1>2, <1>3, <1>4 DEF MoveInv

LEMMA Inductive == IInv /\ [Next]_vars => IInv'
<1> SUFFICES ASSUME IInv, [Next]_vars PROVE IInv'
  OBVIOUS
<1>1. CASE Delete
  <2>1. service = "delete" /\ service' = service /\ D!Next
    BY <1>1 DEF Delete
  <2>2. PICK T \in Trees : DeleteInv(T)
    BY <2>1 DEF IInv
  <2>3. DeleteInv(T)'
    BY <2>1, <2>2, DeleteStep
  <2> QED BY <2>1, <2>3 DEF IInv
<1>2. CASE Move
  <2>1. service = "move" /\ service' = service /\ M!Next
    BY <1>2 DEF Move
  <2>2. PICK L \in SpecLists : MoveInv(L)
    BY <2>1 DEF IInv
  <2>3. MoveInv(L)'
    BY <2>1, <2>2, MoveStep
  <2> QED BY <2>1, <2>3 DEF IInv
<1>3. CASE Props
  <2>1. service = "props" /\ service' = service /\ P!Next
    BY <1>3 DEF Props
  <2> QED BY <2>1, PropsStep DEF IInv
<1>4. CASE Clean
  <2>1. service = "lfs" /\ service' = service /\ (G!Next \/ (D!DeleteFiles /\ UNCHANGED cleaning))
    BY <1>4 DEF Clean
  <2> QED BY <2>1, LfsStep, DeleteFilesKept DEF IInv, cleaning
<1>5. CASE UNCHANGED vars
  <2>1. UNCHANGED <<service, tree, pc, found, lost, dryRun, err, list, next, running, succeeded, failed,
                    kind, protected, excludeProps, candidates, guards, dirs, out,
                    moveType, specs, readers, prepared, placed, drained, has, refs, pushed, keep, unaware>>
    BY <1>5 DEF vars, tasks, deleting, moving, setting, cleaning
  <2>2. PropsInv => PropsInv'
    BY <2>1 DEF PropsInv, PropsTypes, ListOfFound, HasInv, NilInv, P!Working, Ended
  <2>3. LfsInv => LfsInv'
    BY <2>1 DEF LfsInv, LfsTypes, RepositoryInv, ThereInv, FoundInv, KeepInv, TasksInv,
                Referenced, Pushed, Midst
  <2>4. (\E T \in Trees : DeleteInv(T)) => (\E T \in Trees : DeleteInv(T)')
    BY <2>1, DeleteStutters
  <2>5. (\E L \in SpecLists : MoveInv(L)) => (\E L \in SpecLists : MoveInv(L)')
    BY <2>1, MoveStutters
  <2> QED BY <2>1, <2>2, <2>3, <2>4, <2>5 DEF IInv
<1> QED BY <1>1, <1>2, <1>3, <1>4, <1>5 DEF Next

LEMMA Initially == Init => IInv
<1> SUFFICES ASSUME Init PROVE IInv
  OBVIOUS
<1>1. service = "props" => P!Init
  BY DEF Init
<1>2. service = "lfs" => G!Init
  BY DEF Init
<1>3. service = "delete" => D!Init
  BY DEF Init
<1>4. service = "move" => M!Init
  BY DEF Init
<1> QED BY <1>1, <1>2, <1>3, <1>4, PropsInitially, LfsInitially, DeleteInitially, MoveInitially DEF IInv

KInv == service = "delete" => \E T \in Trees : DeleteInv(T) /\ KeptInv(T)

LEMMA KeptInductive == Reliable /\ KInv /\ [Next]_vars => KInv'
<1> SUFFICES ASSUME Reliable, KInv, [Next]_vars, service' = "delete"
             PROVE  \E T \in Trees : DeleteInv(T)' /\ KeptInv(T)'
  BY DEF KInv
<1>1. CASE Delete
  <2>1. service = "delete" /\ D!Next
    BY <1>1 DEF Delete
  <2>2. PICK T \in Trees : DeleteInv(T) /\ KeptInv(T)
    BY <2>1 DEF KInv
  <2>3. DeleteInv(T)' /\ KeptInv(T)'
    BY <2>1, <2>2, DeleteStep, KeptStep
  <2> QED BY <2>3
<1>2. CASE Move \/ Props \/ Clean
  BY <1>2 DEF Move, Props, Clean
<1>3. CASE UNCHANGED vars
  <2>1. UNCHANGED <<service, tree, pc, found, lost, dryRun, err, list, next, running, succeeded, failed,
                    kind, protected, excludeProps, candidates, guards, dirs, out>>
    BY <1>3 DEF vars, tasks, deleting
  <2>2. PICK T \in Trees : DeleteInv(T) /\ KeptInv(T)
    BY <2>1 DEF KInv
  <2>3. DeleteInv(T)'
    BY <2>1, <2>2, DeleteStutters
  <2>4. KeptInv(T)'
    BY <2>1, <2>2, KeptStutters
  <2> QED BY <2>3, <2>4
<1> QED BY <1>1, <1>2, <1>3 DEF Next

LEMMA KeptFirst == Init => KInv
<1> SUFFICES ASSUME Init, service = "delete" PROVE \E T \in Trees : DeleteInv(T) /\ KeptInv(T)
  BY DEF KInv
<1>1. D!Init
  BY DEF Init
<1> QED BY <1>1, DeleteInitially, KeptInitially

-----------------------------------------------------------------------------
(* No file with the exclude properties is deleted, neither by itself nor with *)
(* a directory, for every tree, size of the buffers and order of the threads, *)
(* when the search for them has no limit and the directories of a tree fit in *)
(* one buffer or are merged in the order they were sorted by.                 *)
THEOREM ProtectedKeptHolds == ASSUME Reliable PROVE Spec => []ProtectedKept
<1>1. KInv => ProtectedKept
  BY DEF KInv, KeptInv, KeptTasks, ProtectedKept, D!ProtectedKept
<1>2. KInv /\ [Next]_vars => KInv'
  BY KeptInductive
<1> QED BY <1>1, <1>2, KeptFirst, PTL DEF Spec

(* When the list of DeleteService or MoveCopyService was reduced, no task's   *)
(* item goes with another task's, whatever the threads' order.                *)
THEOREM TasksFindTheirItemHolds == Spec => []TasksFindTheirItem
<1>1. ASSUME IInv PROVE TasksFindTheirItem
  <2>1. ASSUME service = "delete" PROVE D!TasksFindTheirItem
    <3>1. PICK T \in Trees : DeleteInv(T)
      BY <1>1, <2>1 DEF IInv
    <3> QED BY <3>1 DEF DeleteInv, Targets, D!TasksFindTheirItem, D!Unfinished, Unfinished
  <2>2. ASSUME service = "move" PROVE M!MovesFindTheirItem
    <3>1. PICK L \in SpecLists : MoveInv(L)
      BY <1>1, <2>2 DEF IInv
    <3> QED BY <3>1, MovesFind
  <2> QED BY <2>1, <2>2 DEF TasksFindTheirItem
<1> QED BY <1>1, Initially, Inductive, PTL DEF Spec

(* Nil from DeleteFiles means that what was found is gone, but for the        *)
(* directories that were spared and the repository itself, and that as many   *)
(* requests were counted as the list has items.                               *)
THEOREM NilMeansGoneHolds == Spec => []NilMeansGone
<1>1. IInv => NilMeansGone
  BY DEF IInv, DeleteInv, NilMeansGone
<1> QED BY <1>1, Initially, Inductive, PTL DEF Spec

(* Nil from Move or Copy means that every file that a spec found is at that   *)
(* spec's target, or, for a move, at one target only and nowhere else.        *)
THEOREM NilMeansPlacedHolds == Spec => []NilMeansPlaced
<1>1. IInv => NilMeansPlaced
  BY DEF IInv, MoveInv, NilMeansPlaced
<1> QED BY <1>1, Initially, Inductive, PTL DEF Spec

(* The properties are on nothing but the reader's items; a SetProps that      *)
(* returns nil has set them on all of these, and a DeleteProps with the same  *)
(* reader that returns nil has left none.                                     *)
THEOREM PropsFollowReaderHolds == Spec => []PropsFollowReader
<1>1. IInv => PropsFollowReader
  BY DEF IInv, PropsInv, HasInv, NilInv, PropsFollowReader, P!PropsFollowReader, ToSet, P!ToSet
<1> QED BY <1>1, Initially, Inductive, PTL DEF Spec

(* No LFS file that a matching reference points to is deleted, and no file    *)
(* that is pushed meanwhile, unless it was on the server, and its reference   *)
(* not in the local repository, at both readings.                             *)
THEOREM ReferencedKeptHolds == Spec => []ReferencedKept
<1>1. IInv => ReferencedKept
  BY DEF IInv, LfsInv, ThereInv, Referenced, Pushed, Midst, ReferencedKept, G!ReferencedKept
<1> QED BY <1>1, Initially, Inductive, PTL DEF Spec
=============================================================================
