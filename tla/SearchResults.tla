---------------------------- MODULE SearchResults -----------------------------
(* artifactory/services/utils/searchutil.go and utils/io/content/contentreader.go: *)
(* the items a search returns, the keys they are compared by, and the sorting, *)
(* merging and reduction of readers that hold them.                           *)
(*                                                                            *)
(* The order of texts matters ("a-" comes before "a/", which a directory's    *)
(* key ends with), so a name is a sequence of characters, which are numbers;  *)
(* the repository's name, in front of every text, is left out.  An item is    *)
(* [path, type], with the sequence of names that leads to it; the repository  *)
(* itself, which a search calls ".", has the path <<>>.  A search returns an  *)
(* item once, so the sorting never meets a key twice.                         *)
EXTENDS Naturals, Sequences, FiniteSets, SequencesExt

CONSTANTS Slash,       \* the character that separates names; it is in none
          BufferSize   \* utils.MaxBufferSize: how many items are sorted in memory

ASSUME SlashAssumption == Slash \in Nat
ASSUME BufferAssumption == BufferSize \in Nat \ {0}

Name == Seq(Nat \ {Slash}) \ {<<>>}

\* The repository itself is no file.
Item == {item \in [path : Seq(Name), type : {"file", "folder"}] : item.type = "file" => item.path # <<>>}

\* Only folders have something below them.
Fit(S) == \A x, y \in S : IsPrefix(x.path, y.path) => x.type = "folder" \/ x = y

Text(path) == FoldLeft(LAMBDA s, name : IF s = <<>> THEN name ELSE s \o <<Slash>> \o name, <<>>, path)

WithSuffix(s) == IF s = <<>> THEN s ELSE s \o <<Slash>>

(* A folder ends with "/", unless it is at the top of the repository: there   *)
(* the search gives "." for its path.                                         *)
GetItemRelativePath(item) ==
    IF item.type = "folder" /\ Len(item.path) > 1 THEN WithSuffix(Text(item.path)) ELSE Text(item.path)

\* Where the item is.
GetItemRelativeLocation(item) == WithSuffix(Text(Front(item.path)))

GetSortKey(item) ==
    IF item.type = "folder" THEN WithSuffix(Text(item.path)) ELSE Text(item.path)

IsRepoRoot(item) == item.path = <<>>

\* A set of items in some order.
InOrder(S) == FoldSet(LAMBDA item, s : Append(s, item), <<>>, S)

\* The items of a list that are in S, in the list's order.
Only(items, S) == FoldLeft(LAMBDA s, item : IF item \in S THEN Append(s, item) ELSE s, <<>>, items)

\* Go's < on strings.
Less(s, t) ==
    \E n \in 0 .. Len(t) - 1 :
        /\ n <= Len(s) /\ SubSeq(s, 1, n) = SubSeq(t, 1, n)
        /\ n < Len(s) => s[n + 1] < t[n + 1]

-----------------------------------------------------------------------------
(* Readers are sequences of items here.  What is split is sorted by one key   *)
(* and merged by another one in GetPathsToDelete; keys are functions of the   *)
(* items.                                                                     *)
RelativePaths(items) == [item \in ToSet(items) |-> GetItemRelativePath(item)]
SortKeys(items) == [item \in ToSet(items) |-> GetSortKey(item)]

\* compareStrings: whether s must come before t.
Before(s, t, ascending) == IF ascending THEN Less(s, t) ELSE Less(t, s)

\* The items of a buffer have different keys.
SortAndSave(buffer, key, ascending) ==
    CHOOSE s \in SetToSeqs(ToSet(buffer)) :
        \A i, j \in DOMAIN s : i < j => Before(key[s[i]], key[s[j]], ascending)

(* Of the items of a buffer that have the same key the first one stays.  A    *)
(* buffer that is full is sorted and saved as a reader of its own.            *)
SplitAndSort(items, key, ascending) ==
    LET Put(f, item) ==
            IF \E n \in DOMAIN f.buffer : key[f.buffer[n]] = key[item] THEN f
            ELSE LET buffer == Append(f.buffer, item)
                 IN IF Len(buffer) = BufferSize
                      THEN [buffer |-> <<>>, saved |-> Append(f.saved, SortAndSave(buffer, key, ascending))]
                      ELSE [f EXCEPT !.buffer = buffer]
        all == FoldLeft(Put, [buffer |-> <<>>, saved |-> <<>>], items)
    IN IF all.buffer = <<>> THEN all.saved
       ELSE Append(all.saved, SortAndSave(all.buffer, key, ascending))

(* MergeSortedReaders: the smallest of the readers' next items is written,    *)
(* the first reader's if it is not alone; the comparison is by GetSortKey.    *)
(* mergeSortedReadersByCalculatedKey is the same but for once: of the next    *)
(* items with the same key only one is written.                               *)
Merge(readers, ascending, once) ==
    LET total == Cardinality(UNION {{i} \X DOMAIN readers[i] : i \in DOMAIN readers})
        Step(m, n) ==
            LET ready == {i \in DOMAIN readers : m.next[i] <= Len(readers[i])}
                head == [i \in ready |-> GetSortKey(readers[i][m.next[i]])]
                best == CHOOSE i \in ready : \A j \in ready \ {i} :
                            Before(head[i], head[j], ascending) \/ (head[i] = head[j] /\ i < j)
                taken == {best} \cup {i \in ready : once /\ head[i] = head[best]}
            IN IF ready = {} THEN m
               ELSE [out |-> Append(m.out, readers[best][m.next[best]]),
                     next |-> [i \in DOMAIN readers |-> m.next[i] + (IF i \in taken THEN 1 ELSE 0)]]
    IN FoldLeft(Step, [out |-> <<>>, next |-> [i \in DOMAIN readers |-> 1]], [n \in 1 .. total |-> n]).out

MergeSortedReaders(readers) == Merge(readers, TRUE, FALSE)

(* What the merge gets to see: it takes a reader's error for its end.         *)
Readable(readers, mayLose) ==
    {readers} \cup
    (IF mayLose THEN UNION {{[readers EXCEPT ![i] = SubSeq(@, 1, n)] : n \in 0 .. Len(readers[i])} : i \in DOMAIN readers}
                ELSE {})

(* FilterTopChainResults: of sorted items, those that are not below a folder  *)
(* that stays.                                                                *)
FilterTopChainResults(items) ==
    LET Keep(f, item) ==
            IF IsRepoRoot(item) \/ (f.prev # <<>> /\ IsPrefix(f.prev, GetSortKey(item))) THEN f
            ELSE [out |-> Append(f.out, item), prev |-> IF item.type = "folder" THEN GetSortKey(item) ELSE f.prev]
    IN FoldLeft(Keep, [out |-> <<>>, prev |-> <<>>], items).out

\* Changed: a name that begins with a folder's name is taken for its content.
FilterBottomChainResultsByName(items) ==
    LET Keep(f, item) ==
            IF IsRepoRoot(item) \/ (f.prev # <<>> /\ IsPrefix(Text(item.path), f.prev)) THEN f
            ELSE [out |-> Append(f.out, item), prev |-> WithSuffix(Text(item.path))]
    IN FoldLeft(Keep, [out |-> <<>>, prev |-> <<>>], items).out

(* FilterBottomChainResults: of items sorted downwards, those that have       *)
(* nothing below them among the items that stay.                              *)
FilterBottomChainResults(items) ==
    LET Keep(f, item) ==
            IF IsRepoRoot(item) \/ (f.prev # <<>> /\ IsPrefix(WithSuffix(Text(item.path)), f.prev)) THEN f
            ELSE [out |-> Append(f.out, item), prev |-> WithSuffix(Text(item.path))]
    IN FoldLeft(Keep, [out |-> <<>>, prev |-> <<>>], items).out

(* ReduceTopChainDirResult and ReduceBottomChainDirResult, up to the merge.   *)
SortedBuffers(items, ascending) == SplitAndSort(items, SortKeys(items), ascending)
ReduceTopChain(readers) == FilterTopChainResults(Merge(readers, TRUE, TRUE))
ReduceBottomChain(readers) == FilterBottomChainResults(Merge(readers, FALSE, TRUE))
=============================================================================
