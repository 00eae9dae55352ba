------------------------ MODULE DownloadService_proofs ------------------------
(* For every list of groups, every disk, every set of threads, signed or not: *)
(* what DownloadFiles reports, and what is on the disk when it does.          *)
EXTENDS DownloadService, FiniteSetTheorems, SequenceTheorems, WellFoundedInduction, TLAPS

-----------------------------------------------------------------------------
(* Paths and items *)

LEMMA PrefixReflexive == ASSUME NEW p \in Seq(Names) PROVE IsPrefix(p, p)
<1>1. Len(p) \in Nat
  BY LenProperties
<1> QED BY <1>1 DEF IsPrefix

LEMMA PrefixOfPrefix ==
    ASSUME NEW p \in Seq(Names), NEW q \in Seq(Names), NEW r \in Seq(Names), IsPrefix(p, q), IsPrefix(q, r)
    PROVE  IsPrefix(p, r)
<1>1. Len(p) \in Nat /\ Len(q) \in Nat /\ Len(r) \in Nat /\ Len(p) <= Len(q) /\ Len(q) <= Len(r)
  BY LenProperties DEF IsPrefix
<1>2. \A i \in 1 .. Len(p) : p[i] = q[i]
  <2> TAKE i \in 1 .. Len(p)
  <2>1. SubSeq(p, 1, Len(p)) = SubSeq(q, 1, Len(p))
    BY DEF IsPrefix
  <2>2. SubSeq(p, 1, Len(p))[i] = p[i] /\ SubSeq(q, 1, Len(p))[i] = q[i]
    BY <1>1
  <2> QED BY <2>1, <2>2
<1>3. \A i \in 1 .. Len(q) : q[i] = r[i]
  <2> TAKE i \in 1 .. Len(q)
  <2>1. SubSeq(q, 1, Len(q)) = SubSeq(r, 1, Len(q))
    BY DEF IsPrefix
  <2>2. SubSeq(q, 1, Len(q))[i] = q[i] /\ SubSeq(r, 1, Len(q))[i] = r[i]
    BY <1>1
  <2> QED BY <2>1, <2>2
<1>4. \A i \in 1 .. Len(p) : p[i] = r[i]
  BY <1>1, <1>2, <1>3
<1>5. SubSeq(p, 1, Len(p)) = p
  BY SubSeqFull
<1>6. SubSeq(r, 1, Len(p)) \in Seq(Names) /\ Len(SubSeq(r, 1, Len(p))) = Len(p)
      /\ \A i \in 1 .. Len(p) : SubSeq(r, 1, Len(p))[i] = r[i]
  BY <1>1
<1>7. SubSeq(r, 1, Len(p)) = p
  BY <1>4, <1>6, SeqEqual
<1> QED BY <1>1, <1>5, <1>7 DEF IsPrefix

LEMMA PrefixesEqual ==
    ASSUME NEW p \in Seq(Names), NEW q \in Seq(Names), IsPrefix(p, q), IsPrefix(q, p)
    PROVE  p = q
<1>1. Len(p) \in Nat /\ Len(q) \in Nat /\ Len(p) <= Len(q) /\ Len(q) <= Len(p)
  BY LenProperties DEF IsPrefix
<1>2. SubSeq(p, 1, Len(p)) = p /\ SubSeq(q, 1, Len(q)) = q
  BY SubSeqFull
<1> QED BY <1>1, <1>2 DEF IsPrefix

LEMMA FrontIsPrefix ==
    ASSUME NEW p \in Seq(Names), p # <<>>
    PROVE  Front(p) \in Seq(Names) /\ IsPrefix(Front(p), p)
<1>1. Len(p) \in Nat /\ Len(p) # 0
  BY LenProperties, EmptySeq
<1>2. /\ Front(p) \in Seq(Names) /\ Len(Front(p)) = Len(p) - 1
      /\ Front(p) = SubSeq(p, 1, Len(p) - 1)
  <2> DEFINE n == Len(p) - 1
  <2>1. n \in Nat /\ 1 \in Int /\ n \in Int /\ \A i \in 1 .. n : p[i] \in Names
    BY <1>1, ElementOfSeq
  <2> HIDE DEF n
  <2>2. Len(SubSeq(p, 1, n)) = (IF 1 <= n THEN n - 1 + 1 ELSE 0) /\ SubSeq(p, 1, n) \in Seq(Names)
    BY ONLY <2>1, SubSeqProperties
  <2>3. Len(SubSeq(p, 1, n)) = n
    BY ONLY <2>1, <2>2
  <2> QED BY <2>2, <2>3 DEF Front, n
<1>3. SubSeq(Front(p), 1, Len(Front(p))) = Front(p)
  BY <1>2, SubSeqFull
<1> QED BY <1>1, <1>2, <1>3 DEF IsPrefix

LEMMA ItemFields ==
    ASSUME NEW a \in Items
    PROVE  a.path \in Seq(Names) /\ a.path # <<>> /\ a.type \in {"file", "folder", "link"}
BY DEF Items

LEMMA SameItem ==
    ASSUME NEW a \in Items, NEW b \in Items, a.path = b.path, a.type = b.type
    PROVE  a = b
BY DEF Items

(* A task is a group's number with one of the group's items.                  *)
LEMMA TaskParts ==
    ASSUME NEW tk \in Tasks
    PROVE  /\ tk = <<tk[1], tk[2]>> /\ tk[1] \in DOMAIN Groups
           /\ tk[2] \in Groups[tk[1]].items /\ tk[2] \in Items
<1>1. PICK gr \in DOMAIN Groups : tk \in {gr} \X Groups[gr].items
  BY DEF Tasks
<1> QED BY <1>1, GroupsAssumption

LEMMA TaskMade ==
    ASSUME NEW gr \in DOMAIN Groups, NEW item \in Groups[gr].items
    PROVE  /\ <<gr, item>> \in Tasks /\ <<gr, item>>[1] = gr /\ <<gr, item>>[2] = item
           /\ item \in Items
<1>1. <<gr, item>> \in {gr} \X Groups[gr].items
  OBVIOUS
<1> QED BY <1>1, GroupsAssumption DEF Tasks

LEMMA LocalPathIsPath ==
    ASSUME NEW gr \in DOMAIN Groups, NEW item \in Groups[gr].items
    PROVE  LocalPath(gr, item) \in Seq(Names) /\ LocalPath(gr, item) # <<>>
<1>1. item.path \in Seq(Names) /\ item.path # <<>>
  BY TaskMade, ItemFields
<1>2. Last(item.path) \in Names
  <2>1. Len(item.path) \in 1 .. Len(item.path)
    BY <1>1, LenProperties, EmptySeq
  <2> QED BY <1>1, <2>1, ElementOfSeq DEF Last
<1> QED BY <1>1, <1>2 DEF LocalPath

(* The local path of an item is one of the paths of the disk.                 *)
LEMMA LocalPathThere ==
    ASSUME NEW gr \in DOMAIN Groups, NEW item \in Groups[gr].items
    PROVE  LocalPath(gr, item) \in Paths
<1> DEFINE p == LocalPath(gr, item)
<1>1. p \in Seq(Names) /\ p # <<>>
  BY LocalPathIsPath
<1> HIDE DEF p
<1>2. Len(p) \in DOMAIN p /\ SubSeq(p, 1, Len(p)) = p
  BY <1>1, LenProperties, EmptySeq, SubSeqFull
<1>3. p \in {SubSeq(p, 1, n) : n \in DOMAIN p}
  BY <1>2
<1>4. p \in {SubSeq(LocalPath(gr, item), 1, n) : n \in DOMAIN LocalPath(gr, item)}
  BY <1>3 DEF p
<1>5. p \in UNION {{SubSeq(LocalPath(gr, other), 1, n) : n \in DOMAIN LocalPath(gr, other)} :
                   other \in Groups[gr].items}
  BY <1>4
<1>6. p \in Paths
  BY <1>5 DEF Paths
<1> QED BY <1>6 DEF p

-----------------------------------------------------------------------------
(* The producer.  What it has queued lies, group by group, at local paths of  *)
(* its own; it is counted; and, unless there is an error, it covers what was  *)
(* found in the groups that are finished.                                     *)

Place(tk) == LocalPath(tk[1], tk[2])
Real(tk) == tk[2].type # "folder"
Counted == {tk \in ToSet(tasks) : Real(tk)}
Working == {"gpg", "search", "produce", "close"}

GroupInv ==
    /\ pc = "version" => tasks = <<>> /\ g = 1
    /\ pc \in Working => g \in DOMAIN Groups
    /\ \A tk \in ToSet(tasks) : tk[1] <= g /\ (pc \in {"gpg", "search"} => tk[1] < g)
    /\ pc = "produce" => unread \subseteq Group.items
    /\ pc = "produce" => folders \subseteq Group.items /\ \A item \in folders : item.type = "folder"

ApartInv ==
    /\ \A i, j \in DOMAIN tasks :
          i # j /\ Real(tasks[i]) /\ Real(tasks[j]) /\ tasks[i][1] = tasks[j][1] =>
             Place(tasks[i]) # Place(tasks[j])
    /\ pc = "produce" =>
         /\ \A a, b \in unread : LocalPath(g, a) = LocalPath(g, b) => a = b
         /\ \A a \in unread : a.type # "folder" =>
              \A tk \in Counted : tk[1] = g => LocalPath(g, a) # Place(tk)

CountInv == expected = Cardinality(Counted)

(* A folder is made with the task of something at or below it.                *)
FolderTask(gr, folder) ==
    Groups[gr].flat \/ \E tk \in ToSet(tasks) : tk[1] = gr /\ IsPrefix(folder.path, tk[2].path)

HasTask(gr, item) ==
    IF item.type = "folder" THEN FolderTask(gr, item) ELSE <<gr, item>> \in ToSet(tasks)

Covered(gr) ==
    \A item \in Groups[gr].items : \E other \in Groups[gr].items :
        LocalPath(gr, other) = LocalPath(gr, item) /\ HasTask(gr, other)

Finished(gr) == gr < g \/ (gr = g /\ pc = "close")

CoverInv ==
    ~failed =>
       /\ pc \in {"over", "done"} => g = Len(Groups) + 1
       /\ \A gr \in DOMAIN Groups : Finished(gr) => Covered(gr)
       /\ pc = "produce" =>
            /\ \A p \in implied : \E tk \in ToSet(tasks) : tk[1] = g /\ IsPrefix(p, tk[2].path)
            /\ \A item \in Group.items : \E other \in Group.items :
                  /\ LocalPath(g, other) = LocalPath(g, item)
                  /\ other \in unread \cup folders \/ (other.type # "folder" /\ <<g, other>> \in ToSet(tasks))

ProducerInv == GroupInv /\ ApartInv /\ CountInv /\ CoverInv

-----------------------------------------------------------------------------
(* The consumers.  A task that was taken is run by one consumer, or it was    *)
(* reported, or it failed; what is reported is counted as a success.          *)

Busy(t) == stage[t] # "idle"
Taken == {tasks[i] : i \in 1 .. next - 1}

BusyInv ==
    /\ next <= Len(tasks) + 1
    /\ \A t \in Threads : Busy(t) => task[t] \in Taken
    /\ \A t \in Threads : stage[t] \in {"link", "compare", "write"} => Real(task[t]) /\ ~dryRun
    /\ \A t \in Threads : stage[t] = "link" => Item(t).type = "link"

OnceInv ==
    \A t \in Threads : Busy(t) /\ Real(task[t]) =>
        /\ task[t] \notin reported
        /\ \A u \in Threads : u # t /\ Busy(u) => task[u] # task[t]

ReportInv ==
    /\ reported \subseteq Taken /\ \A tk \in reported : Real(tk)
    /\ IsFiniteSet(reported)
    /\ ~dryRun => succeeded = Cardinality(reported)

DoneInv ==
    ~failed /\ ~dryRun => \A tk \in Taken :
        Real(tk) => tk \in reported \/ \E t \in Threads : Busy(t) /\ task[t] = tk

EndInv ==
    pc = "done" =>
        /\ next = Len(tasks) + 1 /\ \A t \in Threads : ~Busy(t)
        /\ result = [err |-> failed, succeeded |-> succeeded, expected |-> expected]

ConsumerInv == BusyInv /\ OnceInv /\ ReportInv /\ DoneInv /\ EndInv

IInv == TypeOK /\ ProducerInv /\ ConsumerInv

-----------------------------------------------------------------------------
(* The disk, if no two tasks put a file at the same local path.               *)

WriteInv == \A t \in Threads : stage[t] = "write" => disk[Target(t)] = Partial(t)

FolderInv ==
    ~failed /\ ~dryRun => \A tk \in Taken :
        ~Real(tk) => disk[Place(tk)] = Directory \/ \E t \in Threads : Busy(t) /\ task[t] = tk

DiskInv == ReportedIsThere /\ WriteInv /\ FolderInv

-----------------------------------------------------------------------------
(* Lists of tasks *)

LEMMA ListFinite == ASSUME NEW S, NEW s \in Seq(S) PROVE IsFiniteSet(ToSet(s)) /\ ToSet(s) \subseteq S
<1>1. Len(s) \in Nat /\ DOMAIN s = 1 .. Len(s) /\ s \in [1 .. Len(s) -> S]
  BY LenProperties
<1>2. IsFiniteSet(1 .. Len(s))
  BY <1>1, FS_Interval
<1> DEFINE T == ToSet(s)
           f == [i \in 1 .. Len(s) |-> s[i]]
<1>3. f \in [1 .. Len(s) -> T] /\ \A x \in T : \E i \in 1 .. Len(s) : f[i] = x
  BY <1>1 DEF ToSet
<1>4. f \in Surjection(1 .. Len(s), T)
  BY <1>3 DEF Surjection
<1> HIDE DEF T, f
<1>5. IsFiniteSet(T)
  BY <1>2, <1>4, FS_Surjection
<1>6. T \subseteq S
  BY <1>1 DEF T, ToSet
<1> QED BY <1>5, <1>6 DEF T

LEMMA OneMore ==
    ASSUME NEW S, NEW s \in Seq(S), NEW x \in S
    PROVE  /\ Append(s, x) \in Seq(S) /\ Len(Append(s, x)) = Len(s) + 1
           /\ DOMAIN Append(s, x) = 1 .. Len(s) + 1 /\ DOMAIN s = 1 .. Len(s) /\ Len(s) \in Nat
           /\ \A i \in 1 .. Len(s) : Append(s, x)[i] = s[i]
           /\ Append(s, x)[Len(s) + 1] = x
           /\ ToSet(Append(s, x)) = ToSet(s) \cup {x}
<1> DEFINE a == Append(s, x)
<1>1. /\ Len(s) \in Nat /\ DOMAIN s = 1 .. Len(s)
      /\ a \in Seq(S) /\ Len(a) = Len(s) + 1
      /\ (\A i \in 1 .. Len(s) : a[i] = s[i]) /\ a[Len(s) + 1] = x
  BY LenProperties, AppendProperties
<1>2. DOMAIN a = 1 .. Len(s) + 1
  BY <1>1, LenProperties
<1> HIDE DEF a
<1>3. ToSet(a) = ToSet(s) \cup {x}
  BY <1>1, <1>2 DEF ToSet
<1> QED BY <1>1, <1>2, <1>3 DEF a

LEMMA ManyMore ==
    ASSUME NEW S, NEW s \in Seq(S), NEW r \in Seq(S)
    PROVE  /\ s \o r \in Seq(S) /\ Len(s \o r) = Len(s) + Len(r)
           /\ Len(s) \in Nat /\ Len(r) \in Nat
           /\ DOMAIN (s \o r) = 1 .. Len(s) + Len(r) /\ DOMAIN s = 1 .. Len(s)
           /\ \A i \in 1 .. Len(s) : (s \o r)[i] = s[i]
           /\ \A i \in Len(s) + 1 .. Len(s) + Len(r) : (s \o r)[i] \in ToSet(r)
           /\ ToSet(s \o r) = ToSet(s) \cup ToSet(r)
<1> DEFINE a == s \o r
<1>1. /\ Len(s) \in Nat /\ DOMAIN s = 1 .. Len(s) /\ Len(r) \in Nat /\ DOMAIN r = 1 .. Len(r)
      /\ a \in Seq(S) /\ Len(a) = Len(s) + Len(r)
      /\ \A i \in 1 .. Len(s) + Len(r) : a[i] = IF i <= Len(s) THEN s[i] ELSE r[i - Len(s)]
  BY LenProperties, ConcatProperties
<1>2. DOMAIN a = 1 .. Len(s) + Len(r)
  BY <1>1, LenProperties
<1> HIDE DEF a
<1>3. \A i \in 1 .. Len(s) : i \in 1 .. Len(s) + Len(r) /\ a[i] = s[i]
  BY <1>1
<1>4. \A i \in 1 .. Len(r) : Len(s) + i \in 1 .. Len(s) + Len(r) /\ a[Len(s) + i] = r[i]
  BY <1>1
<1>5. \A i \in Len(s) + 1 .. Len(s) + Len(r) : i - Len(s) \in 1 .. Len(r) /\ a[i] = r[i - Len(s)]
  BY <1>1
<1>6. \A i \in Len(s) + 1 .. Len(s) + Len(r) : a[i] \in ToSet(r)
  BY <1>1, <1>5 DEF ToSet
<1>7. ToSet(a) \subseteq ToSet(s) \cup ToSet(r)
  <2> SUFFICES ASSUME NEW i \in 1 .. Len(s) + Len(r) PROVE a[i] \in ToSet(s) \cup ToSet(r)
    BY <1>2 DEF ToSet
  <2>1. CASE i <= Len(s)
    <3>1. i \in 1 .. Len(s) /\ i \in DOMAIN s
      BY <1>1, <2>1
    <3>2. a[i] = s[i]
      BY <1>3, <3>1
    <3> QED BY <3>1, <3>2 DEF ToSet
  <2>2. CASE ~(i <= Len(s))
    <3>0. Len(s) \in Nat /\ Len(r) \in Nat
      BY <1>1
    <3>1. i \in Len(s) + 1 .. Len(s) + Len(r)
      BY <2>2, <3>0
    <3> QED BY <1>6, <3>1
  <2> QED BY <2>1, <2>2
<1>8. ToSet(s) \cup ToSet(r) \subseteq ToSet(a)
  <2>1. \A i \in 1 .. Len(s) : s[i] \in ToSet(a)
    BY <1>2, <1>3 DEF ToSet
  <2>2. \A i \in 1 .. Len(r) : r[i] \in ToSet(a)
    BY <1>2, <1>4 DEF ToSet
  <2> QED BY <1>1, <2>1, <2>2 DEF ToSet
<1> QED BY <1>1, <1>2, <1>3, <1>6, <1>7, <1>8 DEF a

(* SetToSeq lists the elements of a finite set.                               *)
LEMMA ListOfSet ==
    ASSUME NEW S, IsFiniteSet(S)
    PROVE  SetToSeq(S) \in Seq(S) /\ ToSet(SetToSeq(S)) = S
<1> DEFINE n == Cardinality(S)
           f == SetToSeq(S)
<1>1. n \in Nat /\ ExistsBijection(1 .. n, S)
  BY FS_CardinalityType
<1>2. \E h \in [1 .. n -> S] : IsInjective(h)
  BY <1>1 DEF ExistsBijection, Bijection, Injection
<1>3. f \in [1 .. n -> S] /\ IsInjective(f)
  BY <1>2 DEF SetToSeq
<1>4. IsFiniteSet(1 .. n) /\ Cardinality(1 .. n) = n
  BY <1>1, FS_Interval
<1> HIDE DEF f
<1>5. f \in Injection(1 .. n, S)
  BY <1>3 DEF Injection
<1>6. f \in Surjection(1 .. n, S)
  BY <1>4, <1>5, FS_Injection
<1>7. \A x \in S : \E i \in 1 .. n : f[i] = x
  BY <1>6 DEF Surjection
<1>8. f \in Seq(S) /\ DOMAIN f = 1 .. n
  BY <1>1, <1>3
<1>9. ToSet(f) = S
  BY <1>3, <1>7, <1>8 DEF ToSet
<1> QED BY <1>8, <1>9 DEF f

(* At or below each folder is one that is not on the way to another one.      *)
LEMMA LowestFolder ==
    ASSUME NEW F \in SUBSET Items, IsFiniteSet(F), \A a \in F : a.type = "folder", NEW f \in F
    PROVE  \E m \in F : IsPrefix(f.path, m.path) /\ ~\E below \in F : OnTheWay(m, below)
<1> DEFINE Below(a) == {b \in F : OnTheWay(a, b)}
           AtOrBelow == {a \in F : IsPrefix(f.path, a.path)}
           Counts == {n \in Nat : \E a \in AtOrBelow : n = Cardinality(Below(a))}
<1>1. \A a \in F : IsFiniteSet(Below(a)) /\ Cardinality(Below(a)) \in Nat
  BY FS_Subset, FS_CardinalityType
<1>2. f \in AtOrBelow
  BY PrefixReflexive, ItemFields
<1>3. Counts # {} /\ Counts \subseteq Nat
  BY <1>1, <1>2
<1>4. PICK n \in Counts : \A k \in Counts : n <= k
  <2> HIDE DEF Counts
  <2>1. PICK n \in Counts : \A k \in Counts : ~(<<k, n>> \in OpToRel(<, Nat))
    BY <1>3, WFMin, NatLessThanWellFounded
  <2>2. \A k \in Counts : ~(k < n) /\ k \in Nat /\ n \in Nat
    BY <1>3, <2>1 DEF OpToRel
  <2>3. \A k \in Counts : n <= k
    BY <2>2
  <2> QED BY <2>3
<1>5. PICK m \in AtOrBelow : n = Cardinality(Below(m))
  BY <1>4
<1>6. SUFFICES ASSUME NEW b \in F, OnTheWay(m, b) PROVE FALSE
  BY <1>5
<1>7. m # b /\ IsPrefix(m.path, b.path) /\ IsPrefix(f.path, m.path) /\ m \in F
  BY <1>6 DEF OnTheWay
<1>8. \A a \in F : a.path \in Seq(Names) /\ a \in Items
  BY ItemFields
<1>9. IsPrefix(f.path, b.path)
  BY <1>7, <1>8, PrefixOfPrefix
<1>10. Below(b) \subseteq Below(m)
  <2> SUFFICES ASSUME NEW c \in F, OnTheWay(b, c) PROVE OnTheWay(m, c)
    OBVIOUS
  <2>1. IsPrefix(b.path, c.path)
    BY DEF OnTheWay
  <2>2. IsPrefix(m.path, c.path)
    BY <1>7, <1>8, <2>1, PrefixOfPrefix
  <2>3. CASE m = c
    <3>1. m.path = b.path
      BY <1>7, <1>8, <2>1, <2>3, PrefixesEqual
    <3>2. m = b
      BY <1>7, <1>8, <3>1, SameItem
    <3> QED BY <1>7, <3>2
  <2> QED BY <2>2, <2>3 DEF OnTheWay
<1>11. b \in Below(m) /\ b \notin Below(b)
  BY <1>6 DEF OnTheWay
<1>12. Cardinality(Below(b)) <= Cardinality(Below(m)) /\ Cardinality(Below(b)) # Cardinality(Below(m))
  <2> DEFINE S == Below(m)
             T == Below(b)
  <2>1. IsFiniteSet(S) /\ T \in SUBSET S /\ S # T
    BY <1>1, <1>7, <1>10, <1>11
  <2> HIDE DEF S, T
  <2>2. Cardinality(T) <= Cardinality(S) /\ (Cardinality(S) = Cardinality(T) => S = T)
    BY <2>1, FS_Subset
  <2>3. Cardinality(T) <= Cardinality(S) /\ Cardinality(T) # Cardinality(S)
    BY <2>1, <2>2
  <2> QED BY <2>3 DEF S, T
<1>13. Cardinality(Below(b)) \in Counts
  BY <1>1, <1>9
<1>14. n <= Cardinality(Below(b)) /\ n \in Nat /\ Cardinality(Below(b)) \in Nat
  BY <1>1, <1>4, <1>13
<1> QED BY <1>5, <1>12, <1>14

-----------------------------------------------------------------------------
(* The start *)

LEMMA NoTasks ==
    ASSUME tasks = <<>>
    PROVE  ToSet(tasks) = {} /\ Counted = {} /\ DOMAIN tasks = {} /\ Len(tasks) = 0
<1>1. Len(tasks) = 0 /\ DOMAIN tasks = {}
  OBVIOUS
<1> QED BY <1>1 DEF ToSet, Counted

LEMMA Initially == Init => IInv
<1> SUFFICES ASSUME Init PROVE IInv
  OBVIOUS
<1>1. ToSet(tasks) = {} /\ Counted = {} /\ DOMAIN tasks = {} /\ Len(tasks) = 0
  BY NoTasks DEF Init
<1>2. Cardinality({}) = 0 /\ IsFiniteSet({})
  BY FS_EmptySet
<1>3. TypeOK
  <2>1. disk \in [Paths -> Contents]
    <3>1. PICK l \in LocalFiles : disk = [p \in Paths |-> IF p \in DOMAIN l THEN l[p] ELSE Nothing]
      BY DEF Init
    <3>2. Nothing \in Contents /\ \A p \in DOMAIN l : l[p] \in Contents
      BY FilesAssumption DEF Contents
    <3> QED BY <3>1, <3>2
  <2>2. tasks \in Seq(Tasks)
    BY DEF Init
  <2>3. 1 \in 1 .. Len(Groups) + 1
    BY GroupsAssumption
  <2>4. result \in Results
    BY DEF Init, Results
  <2>5. /\ stage \in [Threads -> {"idle", "start", "compare", "link", "write"}]
        /\ task \in [Threads -> Tasks \cup {<<>>}]
    BY DEF Init
  <2>6. /\ dryRun \in BOOLEAN /\ pc = "version" /\ g = 1 /\ bundles = {}
        /\ unread = {} /\ folders = {} /\ implied = {}
        /\ next = 1 /\ expected = 0 /\ succeeded = 0 /\ reported = {} /\ failed = FALSE
    BY DEF Init
  <2>7. /\ g \in 1 .. Len(Groups) + 1 /\ bundles \subseteq {Groups[gr].key : gr \in DOMAIN Groups}
        /\ unread \subseteq Items /\ folders \subseteq Items /\ implied \subseteq Seq(Names)
        /\ reported \subseteq Tasks
    BY <2>3, <2>6
  <2>8. /\ pc \in {"version", "gpg", "search", "produce", "close", "over", "done"} /\ next \in Nat \ {0}
        /\ expected \in Nat /\ succeeded \in Nat
    BY <2>6
  <2>9. failed \in BOOLEAN /\ dryRun \in BOOLEAN
    BY <2>6, Zenon
  <2> QED BY <2>1, <2>2, <2>4, <2>5, <2>7, <2>8, <2>9 DEF TypeOK
<1>4. ProducerInv
  <2>1. GroupInv
    BY <1>1 DEF Init, GroupInv, Working
  <2>2. ApartInv
    BY <1>1 DEF Init, ApartInv
  <2>3. CountInv
    BY <1>1, <1>2 DEF Init, CountInv
  <2>4. CoverInv
    <3>1. \A gr \in DOMAIN Groups : ~Finished(gr)
      BY GroupsAssumption DEF Init, Finished
    <3> QED BY <3>1 DEF Init, CoverInv
  <2> QED BY <2>1, <2>2, <2>3, <2>4 DEF ProducerInv
<1>5. ConsumerInv
  <2>1. Taken = {}
    BY DEF Init, Taken
  <2>2. \A t \in Threads : ~Busy(t) /\ stage[t] = "idle"
    BY DEF Init, Busy
  <2> QED BY <1>1, <1>2, <2>1, <2>2 DEF Init, ConsumerInv, BusyInv, OnceInv, ReportInv, DoneInv, EndInv
<1> QED BY <1>3, <1>4, <1>5 DEF IInv

-----------------------------------------------------------------------------
(* What a step leaves alone *)

(* The consumers' steps do not touch what the producer has.                   *)
LEMMA ProducerUnaffected ==
    ASSUME ProducerInv, UNCHANGED <<producer, tasks>>, failed => failed'
    PROVE  ProducerInv'
<1> USE DEF producer
<1>1. GroupInv'
  BY DEF ProducerInv, GroupInv, Group
<1>2. Counted' = Counted
  BY DEF Counted
<1>3. ApartInv' /\ CountInv'
  BY <1>2 DEF ProducerInv, ApartInv, CountInv
<1>4. \A gr \in DOMAIN Groups : Covered(gr)' <=> Covered(gr)
  BY DEF Covered, HasTask, FolderTask
<1>5. CoverInv'
  BY <1>4 DEF ProducerInv, CoverInv, Finished, Group
<1> QED BY <1>1, <1>3, <1>5 DEF ProducerInv

(* The producer's steps add tasks after those that the consumers know.        *)
LEMMA ConsumersUnaffected ==
    ASSUME TypeOK, ConsumerInv, UNCHANGED <<dryRun, consumers, result>>, failed => failed',
           pc # "done", pc' # "done",
           Len(tasks') \in Nat, Len(tasks) <= Len(tasks'), \A i \in 1 .. Len(tasks) : tasks'[i] = tasks[i]
    PROVE  ConsumerInv' /\ Taken' = Taken
<1> USE DEF consumers
<1>0. Len(tasks) \in Nat /\ next \in Nat \ {0} /\ next <= Len(tasks) + 1
  BY LenProperties DEF TypeOK, ConsumerInv, BusyInv
<1>1. Taken' = Taken
  <2>1. \A i \in 1 .. next - 1 : i \in 1 .. Len(tasks) /\ tasks'[i] = tasks[i]
    BY <1>0
  <2> QED BY <2>1 DEF Taken
<1>2. BusyInv'
  <2>1. next' <= Len(tasks') + 1
    BY <1>0
  <2> QED BY <1>1, <2>1 DEF ConsumerInv, BusyInv, Busy, Real, Item
<1>3. OnceInv'
  BY DEF ConsumerInv, OnceInv, Busy, Real
<1>4. ReportInv'
  BY <1>1 DEF ConsumerInv, ReportInv, Real
<1>5. DoneInv'
  BY <1>1 DEF ConsumerInv, DoneInv, Busy, Real
<1>6. EndInv'
  BY DEF EndInv
<1> QED BY <1>1, <1>2, <1>3, <1>4, <1>5, <1>6 DEF ConsumerInv

(* More tasks cover no less.                                                  *)
LEMMA CoverGrows ==
    ASSUME ToSet(tasks) \subseteq ToSet(tasks'), NEW gr \in DOMAIN Groups, Covered(gr)
    PROVE  Covered(gr)'
<1>1. ToSet(tasks)' = ToSet(tasks')
  OBVIOUS
<1>2. \A item \in Groups[gr].items : HasTask(gr, item) => HasTask(gr, item)'
  BY <1>1 DEF HasTask, FolderTask
<1> QED BY <1>2 DEF Covered

-----------------------------------------------------------------------------
(* The producer's steps that add no task *)

LEMMA StartGroupKeeps ==
    ASSUME TypeOK, ProducerInv, NEW n \in 1 .. Len(Groups) + 1, StartGroup(n),
           UNCHANGED <<expected, tasks>>, failed => failed',
           \A tk \in ToSet(tasks) : tk[1] < n,
           ~failed' => \A gr \in DOMAIN Groups : gr < n => Covered(gr)
    PROVE  ProducerInv' /\ pc' \in {"gpg", "over"} /\ g' = n
<1>0. Len(Groups) \in Nat /\ DOMAIN Groups = 1 .. Len(Groups)
  BY GroupsAssumption
<1>1. g' = n /\ pc' \in {"gpg", "over"} /\ (pc' = "gpg" => n \in DOMAIN Groups)
      /\ (pc' = "over" => n = Len(Groups) + 1)
  BY <1>0 DEF StartGroup
<1>2. Counted' = Counted /\ ToSet(tasks)' = ToSet(tasks)
  BY DEF Counted
<1>3. \A tk \in ToSet(tasks) : tk[1] \in Nat
  <2>1. ToSet(tasks) \subseteq Tasks
    BY ListFinite DEF TypeOK
  <2> QED BY <1>0, <2>1, TaskParts
<1>4. GroupInv'
  BY <1>1, <1>2, <1>3 DEF GroupInv, Working
<1>5. ApartInv' /\ CountInv'
  BY <1>1, <1>2 DEF ProducerInv, ApartInv, CountInv
<1>6. \A gr \in DOMAIN Groups : Covered(gr)' <=> Covered(gr)
  BY DEF Covered, HasTask, FolderTask
<1>7. \A gr \in DOMAIN Groups : Finished(gr)' => gr < n
  BY <1>1 DEF Finished
<1>8. CoverInv'
  BY <1>1, <1>6, <1>7 DEF CoverInv
<1> QED BY <1>1, <1>4, <1>5, <1>8 DEF ProducerInv

LEMMA NumbersOfGroups ==
    ASSUME TypeOK
    PROVE  /\ Len(Groups) \in Nat /\ DOMAIN Groups = 1 .. Len(Groups)
           /\ g \in 1 .. Len(Groups) + 1
           /\ ToSet(tasks) \subseteq Tasks /\ IsFiniteSet(ToSet(tasks)) /\ IsFiniteSet(Counted)
           /\ \A tk \in ToSet(tasks) : tk[1] \in Nat
<1>1. ToSet(tasks) \subseteq Tasks /\ IsFiniteSet(ToSet(tasks))
  BY ListFinite DEF TypeOK
<1>2. Counted \in SUBSET ToSet(tasks)
  BY DEF Counted
<1>3. IsFiniteSet(Counted)
  BY <1>1, <1>2, FS_Subset
<1>4. Len(Groups) \in Nat /\ DOMAIN Groups = 1 .. Len(Groups)
  BY GroupsAssumption
<1>5. \A tk \in ToSet(tasks) : tk[1] \in Nat
  BY <1>1, <1>4, TaskParts
<1> QED BY <1>1, <1>3, <1>4, <1>5 DEF TypeOK

(* GetVersion, SearchFails and CloseReader begin the next group.              *)
LEMMA NextGroupKeeps ==
    ASSUME IInv, GetVersion \/ SearchFails \/ CloseReader
    PROVE  ProducerInv' /\ pc' \in {"gpg", "over"} /\ g' \in 1 .. Len(Groups) + 1
<1>0. TypeOK /\ ProducerInv
  BY DEF IInv
<1> USE NumbersOfGroups
<1>1. CASE GetVersion
  <2>1. StartGroup(1) /\ UNCHANGED <<expected, tasks, failed>> /\ tasks = <<>>
    BY <1>0, <1>1 DEF GetVersion, ProducerInv, GroupInv
  <2>2. ToSet(tasks) = {} /\ 1 \in 1 .. Len(Groups) + 1 /\ \A gr \in DOMAIN Groups : ~(gr < 1)
    BY <1>0, <2>1, NoTasks
  <2> QED BY <1>0, <2>1, <2>2, StartGroupKeeps
<1>2. CASE SearchFails
  <2>1. StartGroup(g + 1) /\ UNCHANGED <<expected, tasks>> /\ failed' /\ pc = "search"
    BY <1>2 DEF SearchFails
  <2>2. g \in DOMAIN Groups /\ \A tk \in ToSet(tasks) : tk[1] < g
    BY <1>0, <2>1 DEF ProducerInv, GroupInv, Working
  <2>3. g + 1 \in 1 .. Len(Groups) + 1 /\ \A tk \in ToSet(tasks) : tk[1] < g + 1
    BY <1>0, <2>2
  <2> QED BY <1>0, <2>1, <2>3, StartGroupKeeps
<1>3. CASE CloseReader
  <2>1. StartGroup(g + 1) /\ UNCHANGED <<expected, tasks, failed>> /\ pc = "close"
    BY <1>3 DEF CloseReader
  <2>2. g \in DOMAIN Groups /\ \A tk \in ToSet(tasks) : tk[1] <= g
    BY <1>0, <2>1 DEF ProducerInv, GroupInv, Working
  <2>3. g + 1 \in 1 .. Len(Groups) + 1 /\ \A tk \in ToSet(tasks) : tk[1] < g + 1
    BY <1>0, <2>2
  <2>4. \A gr \in DOMAIN Groups : gr < g + 1 => Finished(gr)
    BY <1>0, <2>1, <2>2 DEF Finished
  <2>5. ~failed => \A gr \in DOMAIN Groups : gr < g + 1 => Covered(gr)
    BY <1>0, <2>4 DEF ProducerInv, CoverInv
  <2> QED BY <1>0, <2>1, <2>3, <2>5, StartGroupKeeps
<1> QED BY <1>1, <1>2, <1>3

(* Validate, GivesUp, SortFails, CollectFolder and ProduceFails stay in their *)
(* group.                                                                     *)
LEMMA ValidateKeeps == ASSUME IInv, Validate PROVE ProducerInv' /\ pc' = "search" /\ g' = g
<1>0. TypeOK /\ GroupInv /\ ApartInv /\ CountInv /\ CoverInv
  BY DEF IInv, ProducerInv
<1>1. pc = "gpg" /\ pc' = "search" /\ UNCHANGED <<g, tasks, expected, failed>>
  BY DEF Validate
<1>2. Counted' = Counted /\ \A gr \in DOMAIN Groups : Covered(gr)' <=> Covered(gr)
  BY <1>1 DEF Counted, Covered, HasTask, FolderTask
<1>3. GroupInv'
  BY <1>0, <1>1 DEF GroupInv, Working
<1>4. ApartInv' /\ CountInv'
  BY <1>0, <1>1, <1>2 DEF ApartInv, CountInv
<1>5. CoverInv'
  BY <1>0, <1>1, <1>2 DEF CoverInv, Finished
<1> QED BY <1>1, <1>3, <1>4, <1>5 DEF ProducerInv

LEMMA FailureKeeps ==
    ASSUME IInv, GivesUp \/ SortFails \/ ProduceFails
    PROVE  ProducerInv' /\ pc' \in {"close", "over"} /\ g' = g
<1>0. TypeOK /\ GroupInv /\ ApartInv /\ CountInv
  BY DEF IInv, ProducerInv
<1>1. /\ pc \in {"version", "gpg", "search", "produce", "close"} /\ UNCHANGED <<g, tasks, expected>>
      /\ failed' /\ (pc' = "over" \/ (pc' = "close" /\ pc \in Working))
  BY DEF GivesUp, SortFails, ProduceFails, Working
<1>2. Counted' = Counted
  BY <1>1 DEF Counted
<1>3. GroupInv'
  BY <1>0, <1>1 DEF GroupInv, Working
<1>4. ApartInv' /\ CountInv'
  BY <1>0, <1>1, <1>2 DEF ApartInv, CountInv
<1>5. CoverInv'
  BY <1>1 DEF CoverInv
<1> QED BY <1>1, <1>3, <1>4, <1>5 DEF ProducerInv

LEMMA CollectKeeps ==
    ASSUME IInv, NEW item \in unread, CollectFolder(item)
    PROVE  ProducerInv' /\ pc' = "produce" /\ g' = g
<1>0. TypeOK /\ GroupInv /\ ApartInv /\ CountInv /\ CoverInv
  BY DEF IInv, ProducerInv
<1>1. /\ pc = "produce" /\ pc' = pc /\ UNCHANGED <<g, tasks, expected, failed, implied>>
      /\ item.type = "folder" /\ unread' = unread \ {item} /\ folders' = folders \cup {item}
  BY DEF CollectFolder
<1>2. Counted' = Counted /\ \A gr \in DOMAIN Groups : Covered(gr)' <=> Covered(gr)
  BY <1>1 DEF Counted, Covered, HasTask, FolderTask
<1>3. GroupInv'
  BY <1>0, <1>1 DEF GroupInv, Working, Group
<1>4. ApartInv' /\ CountInv'
  BY <1>0, <1>1, <1>2 DEF ApartInv, CountInv
<1>5. unread \cup folders = unread' \cup folders'
  BY <1>1
<1>6. CoverInv'
  BY <1>0, <1>1, <1>2, <1>5 DEF CoverInv, Finished, Group
<1> QED BY <1>1, <1>3, <1>4, <1>6 DEF ProducerInv

(* A group is searched; of the items with one local path one is left.         *)
LEMMA SearchKeeps ==
    ASSUME IInv, SearchAndSort
    PROVE  ProducerInv' /\ pc' = "produce" /\ g' = g /\ unread' \subseteq Items
<1>0. TypeOK /\ GroupInv /\ ApartInv /\ CountInv /\ CoverInv
  BY DEF IInv, ProducerInv
<1>1. /\ pc = "search" /\ pc' = "produce" /\ UNCHANGED <<g, tasks, expected, failed>>
      /\ unread' \in OnePerLocalPath(Group.items) /\ folders' = {} /\ implied' = {}
  BY DEF SearchAndSort
<1>2. Counted' = Counted /\ \A gr \in DOMAIN Groups : Covered(gr)' <=> Covered(gr)
  BY <1>1 DEF Counted, Covered, HasTask, FolderTask
<1>3. /\ unread' \subseteq Groups[g].items
      /\ \A item \in Groups[g].items : \E one \in unread' :
            {other \in unread' : LocalPath(g, other) = LocalPath(g, item)} = {one}
  BY <1>1 DEF OnePerLocalPath, Group
<1>4. \A a, b \in unread' : LocalPath(g, a) = LocalPath(g, b) => a = b
  <2> TAKE a, b \in unread'
  <2>1. PICK one \in unread' : {other \in unread' : LocalPath(g, other) = LocalPath(g, a)} = {one}
    BY <1>3
  <2> QED BY <2>1
<1>5. \A item \in Groups[g].items : \E one \in unread' : LocalPath(g, one) = LocalPath(g, item)
  <2> TAKE item \in Groups[g].items
  <2>1. PICK one \in unread' : {other \in unread' : LocalPath(g, other) = LocalPath(g, item)} = {one}
    BY <1>3
  <2> QED BY <2>1
<1>6. g \in DOMAIN Groups /\ \A tk \in ToSet(tasks) : tk[1] < g
  BY <1>0, <1>1 DEF GroupInv, Working
<1>7. \A tk \in Counted : tk[1] # g
  BY <1>0, <1>6, NumbersOfGroups DEF Counted
<1>8. GroupInv'
  BY <1>0, <1>1, <1>3, <1>6 DEF GroupInv, Working, Group
<1>9. ApartInv'
  BY <1>0, <1>1, <1>2, <1>4, <1>7 DEF ApartInv
<1>10. CountInv'
  BY <1>0, <1>1, <1>2 DEF CountInv
<1>11. CoverInv'
  <2>1. \A gr \in DOMAIN Groups : Finished(gr)' <=> Finished(gr)
    BY <1>1 DEF Finished
  <2>2. \A item \in Groups[g].items : \E other \in Groups[g].items :
           LocalPath(g, other) = LocalPath(g, item) /\ other \in unread'
    BY <1>3, <1>5
  <2> QED BY <1>0, <1>1, <1>2, <2>1, <2>2 DEF CoverInv, Group
<1>12. unread' \subseteq Items
  BY <1>3, <1>6, GroupsAssumption
<1> QED BY <1>1, <1>8, <1>9, <1>10, <1>11, <1>12 DEF ProducerInv

-----------------------------------------------------------------------------
(* A task is added *)

LEMMA AddTaskKeeps ==
    ASSUME IInv, NEW item \in unread, AddTask(item)
    PROVE  /\ ProducerInv' /\ pc' = "produce" /\ g' = g
           /\ tasks' \in Seq(Tasks) /\ expected' \in Nat /\ implied' \subseteq Seq(Names)
           /\ Len(tasks') \in Nat /\ Len(tasks) <= Len(tasks')
           /\ \A i \in 1 .. Len(tasks) : tasks'[i] = tasks[i]
<1>0. TypeOK /\ GroupInv /\ ApartInv /\ CountInv /\ CoverInv
  BY DEF IInv, ProducerInv
<1> DEFINE new == <<g, item>>
<1>1. /\ pc = "produce" /\ pc' = pc /\ UNCHANGED <<g, folders, failed>>
      /\ item.type # "folder" /\ unread' = unread \ {item}
      /\ tasks' = Append(tasks, new) /\ expected' = expected + 1
      /\ implied' = implied \cup {Front(item.path)}
  BY DEF AddTask
<1>2. g \in DOMAIN Groups /\ item \in Groups[g].items
  BY <1>0, <1>1 DEF GroupInv, Working, Group
<1>3. new \in Tasks /\ new[1] = g /\ new[2] = item /\ item \in Items
  BY <1>2, TaskMade
<1> HIDE DEF new
<1>4. tasks \in Seq(Tasks)
  BY <1>0 DEF TypeOK
<1>5. /\ tasks' \in Seq(Tasks) /\ Len(tasks') = Len(tasks) + 1 /\ Len(tasks) \in Nat
      /\ DOMAIN tasks' = 1 .. Len(tasks) + 1 /\ DOMAIN tasks = 1 .. Len(tasks)
      /\ \A i \in 1 .. Len(tasks) : tasks'[i] = tasks[i]
      /\ tasks'[Len(tasks) + 1] = new
      /\ ToSet(tasks') = ToSet(tasks) \cup {new}
  BY <1>1, <1>3, <1>4, OneMore
<1>6. ToSet(tasks)' = ToSet(tasks')
  OBVIOUS
<1>7. Real(new) /\ Place(new) = LocalPath(g, item)
  BY <1>1, <1>3 DEF Real, Place
<1>8. Counted' = Counted \cup {new}
  <2>1. Counted' = {tk \in ToSet(tasks') : Real(tk)}
    BY DEF Counted, Real
  <2> QED BY <1>5, <1>7, <2>1 DEF Counted
<1>9. \A tk \in Counted : tk[1] = g => Place(tk) # Place(new)
  BY <1>0, <1>1, <1>7 DEF ApartInv
<1>10. GroupInv'
  <2>1. \A tk \in ToSet(tasks') : tk[1] <= g
    BY <1>0, <1>1, <1>2, <1>3, <1>5, NumbersOfGroups DEF GroupInv
  <2>2. tasks' # <<>>
    BY <1>1, <1>3, <1>4, AppendProperties
  <2>3. unread' \subseteq Groups[g].items /\ folders \subseteq Groups[g].items
        /\ \A folder \in folders : folder.type = "folder"
    BY <1>0, <1>1 DEF GroupInv, Group
  <2> QED BY <1>1, <1>2, <1>6, <2>1, <2>3 DEF GroupInv, Working, Group
<1>11. ApartInv'
  <2>1. \A i, j \in DOMAIN tasks' :
           i # j /\ Real(tasks'[i]) /\ Real(tasks'[j]) /\ tasks'[i][1] = tasks'[j][1] =>
              Place(tasks'[i]) # Place(tasks'[j])
    <3> TAKE i, j \in DOMAIN tasks'
    <3> SUFFICES ASSUME i # j, Real(tasks'[i]), Real(tasks'[j]), tasks'[i][1] = tasks'[j][1]
                 PROVE  Place(tasks'[i]) # Place(tasks'[j])
      OBVIOUS
    <3>0. \A k \in 1 .. Len(tasks) : Real(tasks[k]) => tasks[k] \in Counted
      BY <1>5 DEF Counted, ToSet
    <3>1. CASE i \in 1 .. Len(tasks) /\ j \in 1 .. Len(tasks)
      <4>1. tasks'[i] = tasks[i] /\ tasks'[j] = tasks[j] /\ i \in DOMAIN tasks /\ j \in DOMAIN tasks
        BY <1>5, <3>1
      <4> QED BY <1>0, <4>1 DEF ApartInv
    <3>2. CASE i = Len(tasks) + 1
      <4>1. j \in 1 .. Len(tasks)
        BY <1>5, <3>2
      <4>2. tasks'[i] = new /\ tasks'[j] = tasks[j] /\ tasks[j] \in Counted
        BY <1>5, <3>0, <3>2, <4>1
      <4> QED BY <1>3, <1>9, <4>2
    <3>3. CASE j = Len(tasks) + 1
      <4>1. i \in 1 .. Len(tasks)
        BY <1>5, <3>3
      <4>2. tasks'[j] = new /\ tasks'[i] = tasks[i] /\ tasks[i] \in Counted
        BY <1>5, <3>0, <3>3, <4>1
      <4> QED BY <1>3, <1>9, <4>2
    <3> QED BY <1>5, <3>1, <3>2, <3>3
  <2>2. \A a, b \in unread' : LocalPath(g, a) = LocalPath(g, b) => a = b
    BY <1>0, <1>1 DEF ApartInv
  <2>3. \A a \in unread' : a.type # "folder" =>
           \A tk \in Counted \cup {new} : tk[1] = g => LocalPath(g, a) # Place(tk)
    <3> SUFFICES ASSUME NEW a \in unread', a.type # "folder", NEW tk \in Counted \cup {new}, tk[1] = g
                 PROVE  LocalPath(g, a) # Place(tk)
      OBVIOUS
    <3>1. CASE tk \in Counted
      BY <1>0, <1>1, <3>1 DEF ApartInv
    <3>2. CASE tk = new
      BY <1>0, <1>1, <1>7, <3>2 DEF ApartInv
    <3> QED BY <3>1, <3>2
  <2> QED BY <1>1, <1>8, <2>1, <2>2, <2>3 DEF ApartInv, Real, Place
<1>12. CountInv' /\ expected' \in Nat
  <2>1. IsFiniteSet(Counted) /\ new \notin Counted
    BY <1>0, <1>3, <1>9, NumbersOfGroups
  <2>2. Cardinality(Counted \cup {new}) = Cardinality(Counted) + 1
    BY <2>1, FS_AddElement
  <2>3. expected \in Nat
    BY <1>0 DEF TypeOK
  <2> QED BY <1>0, <1>1, <1>8, <2>2, <2>3 DEF CountInv
<1>13. item.path \in Seq(Names) /\ Front(item.path) \in Seq(Names) /\ IsPrefix(Front(item.path), item.path)
  BY <1>3, ItemFields, FrontIsPrefix
<1>14. CoverInv'
  <2> SUFFICES ASSUME ~failed PROVE CoverInv'
    BY <1>1 DEF CoverInv
  <2>1. \A gr \in DOMAIN Groups : Finished(gr)' => Covered(gr)'
    <3>1. \A gr \in DOMAIN Groups : Finished(gr)' => Finished(gr)
      BY <1>1 DEF Finished
    <3>2. \A gr \in DOMAIN Groups : Finished(gr) => Covered(gr)
      BY <1>0 DEF CoverInv
    <3> QED BY <1>5, <3>1, <3>2, CoverGrows
  <2>2. \A p \in implied' : \E tk \in ToSet(tasks') : tk[1] = g /\ IsPrefix(p, tk[2].path)
    <3> TAKE p \in implied'
    <3>1. CASE p \in implied
      BY <1>0, <1>1, <1>5, <3>1 DEF CoverInv
    <3>2. CASE p = Front(item.path)
      BY <1>3, <1>5, <1>13, <3>2
    <3> QED BY <1>1, <3>1, <3>2
  <2>3. \A one \in Groups[g].items : \E other \in Groups[g].items :
           /\ LocalPath(g, other) = LocalPath(g, one)
           /\ other \in unread' \cup folders \/ (other.type # "folder" /\ <<g, other>> \in ToSet(tasks'))
    <3> TAKE one \in Groups[g].items
    <3>1. PICK other \in Groups[g].items :
             /\ LocalPath(g, other) = LocalPath(g, one)
             /\ other \in unread \cup folders \/ (other.type # "folder" /\ <<g, other>> \in ToSet(tasks))
      BY <1>0, <1>1 DEF CoverInv, Group
    <3>2. CASE other = item
      BY <1>1, <1>5, <3>1, <3>2 DEF new
    <3>3. CASE other # item
      BY <1>1, <1>5, <3>1, <3>3
    <3> QED BY <3>2, <3>3
  <2> QED BY <1>1, <1>6, <2>1, <2>2, <2>3 DEF CoverInv, Group
<1>15. implied' \subseteq Seq(Names)
  BY <1>0, <1>1, <1>13 DEF TypeOK
<1>16. Len(tasks') \in Nat /\ Len(tasks) <= Len(tasks')
  BY <1>5
<1> QED BY <1>1, <1>5, <1>10, <1>11, <1>12, <1>14, <1>15, <1>16 DEF ProducerInv

(* The folders that need a task get one; the others are above something that  *)
(* has a task already.                                                        *)
LEMMA FolderTasksKeep ==
    ASSUME IInv, AddFolderTasks
    PROVE  /\ ProducerInv' /\ pc' = "close" /\ g' = g /\ tasks' \in Seq(Tasks)
           /\ Len(tasks') \in Nat /\ Len(tasks) <= Len(tasks')
           /\ \A i \in 1 .. Len(tasks) : tasks'[i] = tasks[i]
<1>0. TypeOK /\ GroupInv /\ ApartInv /\ CountInv /\ CoverInv
  BY DEF IInv, ProducerInv
<1> DEFINE needed == {item \in folders : NeedsTask(item)}
           list == SetToSeq(needed)
           more == [i \in DOMAIN list |-> <<g, list[i]>>]
<1>1. /\ pc = "produce" /\ unread = {} /\ pc' = "close"
      /\ UNCHANGED <<g, expected, failed>> /\ tasks' = tasks \o more
  BY DEF AddFolderTasks
<1>2. g \in DOMAIN Groups /\ folders \in SUBSET Groups[g].items /\ \A item \in folders : item.type = "folder"
  BY <1>0, <1>1 DEF GroupInv, Working, Group
<1>3. IsFiniteSet(folders) /\ folders \in SUBSET Items
  BY <1>2, GroupsAssumption, FS_Subset
<1>4. needed \in SUBSET folders /\ IsFiniteSet(needed)
  BY <1>3, FS_Subset
<1> HIDE DEF needed
<1>5. list \in Seq(needed) /\ ToSet(list) = needed
  BY <1>4, ListOfSet
<1> HIDE DEF list
<1>6. Len(list) \in Nat /\ DOMAIN list = 1 .. Len(list) /\ list \in [1 .. Len(list) -> needed]
  BY <1>5, LenProperties
<1>7. \A item \in needed : <<g, item>> \in Tasks /\ <<g, item>>[1] = g /\ <<g, item>>[2] = item
  BY <1>2, <1>4, TaskMade
<1>8. more \in [1 .. Len(list) -> Tasks]
  BY <1>6, <1>7
<1>9. more \in Seq(Tasks) /\ DOMAIN more = 1 .. Len(list)
  BY <1>6, <1>8
<1>10. ToSet(more) = {<<g, item>> : item \in needed}
  <2>1. \A i \in 1 .. Len(list) : more[i] = <<g, list[i]>>
    BY <1>6
  <2>2. needed = {list[i] : i \in 1 .. Len(list)}
    BY <1>5, <1>6 DEF ToSet
  <2> HIDE DEF more
  <2> QED BY <1>9, <2>1, <2>2 DEF ToSet
<1> HIDE DEF more
<1>11. tasks \in Seq(Tasks)
  BY <1>0 DEF TypeOK
<1>12. /\ tasks' \in Seq(Tasks) /\ Len(tasks') = Len(tasks) + Len(more)
       /\ Len(tasks) \in Nat /\ Len(more) \in Nat
       /\ DOMAIN tasks' = 1 .. Len(tasks) + Len(more) /\ DOMAIN tasks = 1 .. Len(tasks)
       /\ \A i \in 1 .. Len(tasks) : tasks'[i] = tasks[i]
       /\ \A i \in Len(tasks) + 1 .. Len(tasks) + Len(more) : tasks'[i] \in ToSet(more)
       /\ ToSet(tasks') = ToSet(tasks) \cup ToSet(more)
  BY <1>1, <1>9, <1>11, ManyMore
<1>13. ToSet(tasks)' = ToSet(tasks')
  OBVIOUS
<1>14. \A tk \in ToSet(more) : tk[1] = g /\ tk[2] \in folders /\ ~Real(tk)
  BY <1>2, <1>4, <1>7, <1>10 DEF Real
<1>15. Counted' = Counted
  <2>1. Counted' = {tk \in ToSet(tasks') : Real(tk)}
    BY DEF Counted, Real
  <2> QED BY <1>12, <1>14, <2>1 DEF Counted
<1>16. GroupInv'
  <2>1. \A tk \in ToSet(tasks') : tk[1] <= g
    BY <1>0, <1>2, <1>12, <1>14, NumbersOfGroups DEF GroupInv
  <2> QED BY <1>1, <1>2, <1>13, <2>1 DEF GroupInv, Working
<1>17. ApartInv'
  <2>1. \A i \in DOMAIN tasks' : Real(tasks'[i]) => i \in DOMAIN tasks /\ tasks'[i] = tasks[i]
    <3> TAKE i \in DOMAIN tasks'
    <3>1. i \in 1 .. Len(tasks) \/ i \in Len(tasks) + 1 .. Len(tasks) + Len(more)
      BY <1>12
    <3> QED BY <1>12, <1>14, <3>1
  <2> QED BY <1>0, <1>1, <2>1 DEF ApartInv, Real, Place
<1>18. CountInv'
  BY <1>0, <1>1, <1>15 DEF CountInv
<1>19. CoverInv'
  <2> SUFFICES ASSUME ~failed PROVE CoverInv'
    BY <1>1 DEF CoverInv
  <2>1. \A gr \in DOMAIN Groups : Covered(gr) => Covered(gr)'
    BY <1>12, CoverGrows
  <2>2. \A gr \in DOMAIN Groups : gr < g => Covered(gr)'
    BY <1>0, <2>1 DEF CoverInv, Finished
  <2>0. PICK gr \in DOMAIN Groups : gr = g
    BY <1>2
  <2>3. \A folder \in folders :
           Groups[gr].flat \/ \E tk \in ToSet(tasks') : tk[1] = gr /\ IsPrefix(folder.path, tk[2].path)
    <3> TAKE folder \in folders
    <3>1. CASE ~Groups[gr].flat
      <4>1. PICK m \in folders : IsPrefix(folder.path, m.path) /\ ~\E below \in folders : OnTheWay(m, below)
        BY <1>2, <1>3, LowestFolder
      <4>2. CASE m \in needed
        <5>1. <<g, m>> \in ToSet(tasks') /\ <<g, m>>[1] = g /\ <<g, m>>[2] = m
          BY <1>7, <1>10, <1>12, <4>2
        <5> QED BY <2>0, <4>1, <5>1
      <4>3. CASE m \notin needed
        <5>1. m.path \in implied
          BY <2>0, <3>1, <4>1, <4>3 DEF needed, NeedsTask, Group
        <5>2. PICK tk \in ToSet(tasks) : tk[1] = g /\ IsPrefix(m.path, tk[2].path)
          BY <1>0, <1>1, <5>1 DEF CoverInv
        <5>3. tk[2] \in Items
          BY <1>0, NumbersOfGroups, TaskParts
        <5>4. IsPrefix(folder.path, tk[2].path)
          BY <1>3, <4>1, <5>2, <5>3, ItemFields, PrefixOfPrefix
        <5> QED BY <1>12, <2>0, <5>2, <5>4
      <4> QED BY <4>2, <4>3
    <3> QED BY <3>1
  <2>4. Covered(gr)'
    <3> SUFFICES ASSUME NEW item \in Groups[gr].items
                 PROVE  \E other \in Groups[gr].items :
                           LocalPath(gr, other) = LocalPath(gr, item) /\ HasTask(gr, other)'
      BY DEF Covered
    <3>1. PICK other \in Groups[gr].items :
             /\ LocalPath(gr, other) = LocalPath(gr, item)
             /\ other \in unread \cup folders \/ (other.type # "folder" /\ <<gr, other>> \in ToSet(tasks))
      BY <1>0, <1>1, <2>0 DEF CoverInv, Group
    <3>2. CASE other \in folders
      BY <1>2, <1>13, <2>3, <3>1, <3>2 DEF HasTask, FolderTask
    <3>3. CASE other.type # "folder" /\ <<gr, other>> \in ToSet(tasks)
      BY <1>12, <1>13, <3>1, <3>3 DEF HasTask
    <3> QED BY <1>1, <3>1, <3>2, <3>3
  <2>5. \A hr \in DOMAIN Groups : Finished(hr)' => hr < g \/ hr = g
    BY <1>1 DEF Finished
  <2>6. \A hr \in DOMAIN Groups : Finished(hr)' => Covered(hr)'
    BY <2>0, <2>2, <2>4, <2>5
  <2> QED BY <1>1, <2>6 DEF CoverInv
<1>20. Len(tasks') \in Nat /\ Len(tasks) <= Len(tasks')
  BY <1>12
<1> QED BY <1>1, <1>12, <1>16, <1>17, <1>18, <1>19, <1>20 DEF ProducerInv

(* The producer, whatever it does.                                            *)
LEMMA ProducerFrame ==
    ASSUME IInv, Produce
    PROVE  /\ UNCHANGED <<dryRun, consumers, result>> /\ pc # "done" /\ pc' # "done"
           /\ failed' \in BOOLEAN /\ (failed => failed')
           /\ ProducerInv' /\ pc' \in {"gpg", "search", "produce", "close", "over"}
           /\ g' \in 1 .. Len(Groups) + 1
           /\ bundles' \subseteq {Groups[gr].key : gr \in DOMAIN Groups}
           /\ unread' \subseteq Items /\ folders' \subseteq Items /\ implied' \subseteq Seq(Names)
           /\ tasks' \in Seq(Tasks) /\ expected' \in Nat
           /\ Len(tasks') \in Nat /\ Len(tasks) <= Len(tasks')
           /\ \A i \in 1 .. Len(tasks) : tasks'[i] = tasks[i]
<1>0. TypeOK /\ ConsumerInv
  BY DEF IInv
<1>1. UNCHANGED <<dryRun, consumers, result>> /\ pc # "done"
  BY DEF Produce, GetVersion, Validate, GivesUp, SearchAndSort, SearchFails, SortFails, CollectFolder,
         AddTask, ProduceFails, AddFolderTasks, CloseReader
<1>2. failed' \in BOOLEAN /\ (failed => failed')
  BY <1>0 DEF TypeOK, Produce, GetVersion, Validate, GivesUp, SearchAndSort, SearchFails, SortFails,
              CollectFolder, AddTask, ProduceFails, AddFolderTasks, CloseReader
<1> DEFINE Kept == /\ ProducerInv' /\ pc' \in {"gpg", "search", "produce", "close", "over"}
                   /\ g' \in 1 .. Len(Groups) + 1
                   /\ bundles' \subseteq {Groups[gr].key : gr \in DOMAIN Groups}
                   /\ unread' \subseteq Items /\ folders' \subseteq Items /\ implied' \subseteq Seq(Names)
                   /\ tasks' \in Seq(Tasks) /\ expected' \in Nat
                   /\ Len(tasks') \in Nat /\ Len(tasks) <= Len(tasks')
                   /\ \A i \in 1 .. Len(tasks) : tasks'[i] = tasks[i]
<1>3. /\ g \in 1 .. Len(Groups) + 1 /\ bundles \subseteq {Groups[gr].key : gr \in DOMAIN Groups}
      /\ unread \subseteq Items /\ folders \subseteq Items /\ implied \subseteq Seq(Names)
      /\ tasks \in Seq(Tasks) /\ expected \in Nat /\ Len(tasks) \in Nat
  BY <1>0, LenProperties DEF TypeOK
<1>4. ASSUME GetVersion \/ SearchFails \/ CloseReader PROVE Kept
  <2>1. UNCHANGED <<bundles, unread, folders, implied, tasks, expected>>
    BY <1>4 DEF GetVersion, SearchFails, CloseReader
  <2> QED BY <1>3, <1>4, <2>1, NextGroupKeeps
<1>5. ASSUME Validate PROVE Kept
  <2>0. UNCHANGED <<unread, folders, implied, tasks, expected>>
    BY <1>5 DEF Validate
  <2>1. bundles' = bundles \cup ({Group.key} \ {None}) /\ pc = "gpg"
    BY <1>5 DEF Validate
  <2>2. Group.key \in {Groups[gr].key : gr \in DOMAIN Groups}
    BY <2>1 DEF IInv, ProducerInv, GroupInv, Working, Group
  <2>3. bundles' \subseteq {Groups[gr].key : gr \in DOMAIN Groups}
    BY <1>3, <2>1, <2>2
  <2>4. ProducerInv' /\ pc' = "search" /\ g' = g
    BY <1>5, ValidateKeeps
  <2> QED BY <1>3, <2>0, <2>3, <2>4
<1>6. ASSUME GivesUp \/ SortFails \/ ProduceFails PROVE Kept
  <2>1. UNCHANGED <<bundles, unread, folders, implied, tasks, expected>>
    BY <1>6 DEF GivesUp, SortFails, ProduceFails
  <2> QED BY <1>3, <1>6, <2>1, FailureKeeps
<1>7. ASSUME SearchAndSort PROVE Kept
  <2>1. UNCHANGED <<bundles, tasks, expected>> /\ folders' = {} /\ implied' = {}
    BY <1>7 DEF SearchAndSort
  <2> QED BY <1>3, <1>7, <2>1, SearchKeeps
<1>8. ASSUME NEW item \in unread, CollectFolder(item) PROVE Kept
  <2>1. UNCHANGED <<bundles, implied, tasks, expected>> /\ unread' = unread \ {item}
        /\ folders' = folders \cup {item}
    BY <1>8 DEF CollectFolder
  <2> QED BY <1>3, <1>8, <2>1, CollectKeeps
<1>9. ASSUME NEW item \in unread, AddTask(item) PROVE Kept
  <2>1. UNCHANGED <<bundles, folders>> /\ unread' = unread \ {item}
    BY <1>9 DEF AddTask
  <2> QED BY <1>3, <1>9, <2>1, AddTaskKeeps
<1>10. ASSUME AddFolderTasks PROVE Kept
  <2>1. UNCHANGED <<bundles, unread, folders, implied, expected>>
    BY <1>10 DEF AddFolderTasks
  <2> QED BY <1>3, <1>10, <2>1, FolderTasksKeep
<1>11. Kept
  BY <1>4, <1>5, <1>6, <1>7, <1>8, <1>9, <1>10 DEF Produce
<1>12. pc' # "done"
  BY <1>11
<1> QED BY <1>1, <1>2, <1>11, <1>12

LEMMA ProduceKeeps == ASSUME IInv, Produce PROVE IInv'
<1>1. TypeOK /\ ConsumerInv
  BY DEF IInv
<1>2. ConsumerInv'
  BY <1>1, ProducerFrame, ConsumersUnaffected
<1>3. TypeOK'
  <2>1. UNCHANGED <<dryRun, stage, task, next, succeeded, reported, disk, result>>
    BY ProducerFrame DEF consumers
  <2>2. pc' \in {"version", "gpg", "search", "produce", "close", "over", "done"}
    BY ProducerFrame
  <2> QED BY <1>1, ProducerFrame, <2>1, <2>2 DEF TypeOK
<1> QED BY <1>2, <1>3, ProducerFrame DEF IInv

-----------------------------------------------------------------------------
(* The consumers *)

LEMMA TasksTaken ==
    ASSUME TypeOK, BusyInv
    PROVE  /\ Len(tasks) \in Nat /\ next \in Nat \ {0} /\ next <= Len(tasks) + 1
           /\ DOMAIN tasks = 1 .. Len(tasks)
           /\ Taken \subseteq ToSet(tasks) /\ Taken \subseteq Tasks
           /\ \A i \in 1 .. next - 1 : i \in DOMAIN tasks
<1>1. /\ Len(tasks) \in Nat /\ next \in Nat \ {0} /\ next <= Len(tasks) + 1
      /\ DOMAIN tasks = 1 .. Len(tasks) /\ tasks \in Seq(Tasks)
  BY LenProperties DEF TypeOK, BusyInv
<1>2. \A i \in 1 .. next - 1 : i \in DOMAIN tasks
  BY <1>1
<1>3. Taken \subseteq ToSet(tasks)
  BY <1>2 DEF Taken, ToSet
<1>4. ToSet(tasks) \subseteq Tasks
  BY <1>1, ListFinite
<1> QED BY <1>1, <1>2, <1>3, <1>4

LEMMA TaskOfBusy ==
    ASSUME TypeOK, BusyInv, NEW t \in Threads, Busy(t)
    PROVE  /\ task[t] \in Tasks /\ task[t] \in Taken /\ task[t] \in ToSet(tasks)
           /\ task[t] = <<task[t][1], Item(t)>> /\ task[t][1] \in DOMAIN Groups
           /\ Item(t) \in Groups[task[t][1]].items /\ Item(t) \in Items
           /\ Target(t) = Place(task[t]) /\ Target(t) \in Paths
<1>1. task[t] \in Taken /\ task[t] \in ToSet(tasks) /\ task[t] \in Tasks
  BY TasksTaken DEF BusyInv
<1>2. /\ task[t] = <<task[t][1], task[t][2]>> /\ task[t][1] \in DOMAIN Groups
      /\ task[t][2] \in Groups[task[t][1]].items /\ task[t][2] \in Items
  BY <1>1, TaskParts
<1>3. LocalPath(task[t][1], task[t][2]) \in Paths
  BY <1>2, LocalPathThere
<1> QED BY <1>1, <1>2, <1>3 DEF Item, Target, Place

(* The invariant of the consumers, by the kind of the step: a consumer takes  *)
(* a task, goes on with it, reports it, or ends it without a report.          *)
LEMMA TakeKeeps ==
    ASSUME IInv, NEW t \in Threads, Take(t)
    PROVE  ConsumerInv' /\ next' \in Nat \ {0} /\ tasks[next] \in Tasks
<1>0. TypeOK /\ ApartInv /\ BusyInv /\ OnceInv /\ ReportInv /\ DoneInv /\ EndInv
  BY DEF IInv, ProducerInv, ConsumerInv
<1>1. /\ stage[t] = "idle" /\ next <= Len(tasks) /\ task' = [task EXCEPT ![t] = tasks[next]]
      /\ next' = next + 1 /\ stage' = [stage EXCEPT ![t] = "start"]
      /\ UNCHANGED <<dryRun, pc, expected, succeeded, reported, tasks, failed, result>>
  BY DEF Take, producer
<1>2. /\ Len(tasks) \in Nat /\ next \in Nat \ {0} /\ DOMAIN tasks = 1 .. Len(tasks)
      /\ \A i \in 1 .. next - 1 : i \in DOMAIN tasks
      /\ Taken \subseteq ToSet(tasks) /\ Taken \subseteq Tasks
  BY <1>0, TasksTaken
<1> DEFINE new == tasks[next]
<1>3. next \in DOMAIN tasks /\ next' \in Nat \ {0} /\ next' <= Len(tasks) + 1
  BY <1>1, <1>2
<1>4. new \in Tasks
  <2>1. new \in ToSet(tasks)
    BY <1>3 DEF ToSet
  <2> QED BY <1>0, <2>1, NumbersOfGroups
<1>5. Taken' = Taken \cup {new}
  <2>1. Taken' = {tasks[i] : i \in 1 .. next}
    BY <1>1, <1>2 DEF Taken
  <2>2. \A i \in 1 .. next : i \in 1 .. next - 1 \/ i = next
    BY <1>2
  <2>3. (\A i \in 1 .. next - 1 : i \in 1 .. next) /\ next \in 1 .. next
    BY <1>2
  <2> QED BY <2>1, <2>2, <2>3 DEF Taken
<1>6. \A tk \in Taken : Real(tk) => tk # new
  <2> SUFFICES ASSUME NEW i \in 1 .. next - 1, Real(tasks[i]), tasks[i] = new PROVE FALSE
    BY DEF Taken
  <2>1. i \in DOMAIN tasks /\ i # next
    BY <1>2
  <2>2. Place(tasks[i]) # Place(tasks[next])
    BY <1>0, <1>3, <2>1 DEF ApartInv
  <2> QED BY <2>2
<1> HIDE DEF new
<1>7. /\ stage'[t] = "start" /\ task'[t] = new
      /\ \A u \in Threads : u # t => stage'[u] = stage[u] /\ task'[u] = task[u]
  BY <1>0, <1>1 DEF TypeOK, new
<1>8. BusyInv'
  <2>1. \A u \in Threads : Busy(u)' => task'[u] \in Taken'
    BY <1>0, <1>5, <1>7 DEF BusyInv, Busy
  <2>2. \A u \in Threads :
           stage'[u] \in {"link", "compare", "write"} => u # t /\ Real(task'[u]) /\ ~dryRun'
    BY <1>0, <1>1, <1>7 DEF BusyInv
  <2>3. \A u \in Threads : stage'[u] = "link" => task'[u][2].type = "link"
    BY <1>0, <1>7 DEF BusyInv, Item
  <2> QED BY <1>1, <1>3, <2>1, <2>2, <2>3 DEF BusyInv, Item, Real
<1>9. OnceInv'
  <2> SUFFICES ASSUME NEW u \in Threads, stage'[u] # "idle", Real(task'[u])
               PROVE  /\ task'[u] \notin reported
                      /\ \A v \in Threads : v # u /\ stage'[v] # "idle" => task'[v] # task'[u]
    BY <1>1 DEF OnceInv, Busy, Real
  <2>1. CASE u = t
    <3>1. Real(new) /\ task'[u] = new
      BY <1>7, <2>1
    <3>2. new \notin Taken
      BY <1>6, <3>1
    <3>3. \A v \in Threads : v # t /\ stage'[v] # "idle" => task'[v] \in Taken
      BY <1>0, <1>7 DEF BusyInv, Busy
    <3> QED BY <1>0, <2>1, <3>1, <3>2, <3>3 DEF ReportInv
  <2>2. CASE u # t
    <3>1. stage[u] # "idle" /\ task'[u] = task[u] /\ Real(task[u]) /\ task[u] \in Taken
      BY <1>0, <1>7, <2>2 DEF BusyInv, Busy
    <3>2. task[u] # new
      BY <1>6, <3>1
    <3>3. task[u] \notin reported /\ \A v \in Threads : v # u /\ stage[v] # "idle" => task[v] # task[u]
      BY <1>0, <3>1 DEF OnceInv, Busy
    <3> QED BY <1>7, <3>1, <3>2, <3>3
  <2> QED BY <2>1, <2>2
<1>10. ReportInv'
  BY <1>0, <1>1, <1>5 DEF ReportInv, Real
<1>11. DoneInv'
  <2> SUFFICES ASSUME ~failed, ~dryRun, NEW tk \in Taken \cup {new}, Real(tk)
               PROVE  tk \in reported \/ \E u \in Threads : stage'[u] # "idle" /\ task'[u] = tk
    BY <1>1, <1>5 DEF DoneInv, Busy, Real
  <2>1. CASE tk = new
    BY <1>7, <2>1
  <2>2. CASE tk \in Taken
    <3>1. tk \in reported \/ \E u \in Threads : stage[u] # "idle" /\ task[u] = tk
      BY <1>0, <2>2 DEF DoneInv, Busy
    <3> QED BY <1>1, <1>7, <3>1
  <2> QED BY <2>1, <2>2
<1>12. EndInv'
  <2>1. pc # "done"
    BY <1>0, <1>1, <1>2 DEF EndInv
  <2> QED BY <1>1, <2>1 DEF EndInv
<1> QED BY <1>3, <1>4, <1>8, <1>9, <1>10, <1>11, <1>12 DEF ConsumerInv, new

LEMMA StayKeeps ==
    ASSUME IInv, NEW t \in Threads, Busy(t), Real(task[t]), ~dryRun,
           NEW s \in {"link", "compare", "write"}, s = "link" => Item(t).type = "link",
           stage' = [stage EXCEPT ![t] = s],
           UNCHANGED <<dryRun, pc, expected, task, next, succeeded, reported, tasks, failed, result>>
    PROVE  ConsumerInv'
<1>0. TypeOK /\ BusyInv /\ OnceInv /\ ReportInv /\ DoneInv /\ EndInv
  BY DEF IInv, ConsumerInv
<1>1. stage'[t] = s /\ \A u \in Threads : u # t => stage'[u] = stage[u]
  BY <1>0 DEF TypeOK
<1>2. \A u \in Threads : stage'[u] # "idle" <=> stage[u] # "idle"
  BY <1>1 DEF Busy
<1>3. Taken' = Taken
  BY DEF Taken
<1>4. BusyInv'
  <2>1. \A u \in Threads : stage'[u] \in {"link", "compare", "write"} => Real(task[u]) /\ ~dryRun
    BY <1>0, <1>1 DEF BusyInv
  <2>2. \A u \in Threads : stage'[u] = "link" => Item(u).type = "link"
    BY <1>0, <1>1 DEF BusyInv
  <2> QED BY <1>0, <1>2, <1>3, <2>1, <2>2 DEF BusyInv, Busy, Item, Real
<1>5. OnceInv' /\ DoneInv'
  BY <1>0, <1>2, <1>3 DEF OnceInv, DoneInv, Busy, Real
<1>6. ReportInv'
  BY <1>0, <1>3 DEF ReportInv, Real
<1>7. EndInv'
  BY <1>0 DEF EndInv
<1> QED BY <1>4, <1>5, <1>6, <1>7 DEF ConsumerInv

(* Ends                                                                       *)
LEMMA OthersStay ==
    ASSUME TypeOK, NEW t \in Threads, Ends(t)
    PROVE  /\ stage'[t] = "idle" /\ \A u \in Threads : u # t => stage'[u] = stage[u] /\ task'[u] = task[u]
           /\ stage' \in [Threads -> {"idle", "start", "compare", "link", "write"}]
           /\ task' \in [Threads -> Tasks \cup {<<>>}]
BY DEF TypeOK, Ends

LEMMA EndKeepsBusy ==
    ASSUME IInv, NEW t \in Threads, Busy(t), Ends(t),
           UNCHANGED <<dryRun, pc, expected, next, tasks, result>>
    PROVE  BusyInv' /\ EndInv' /\ Taken' = Taken
<1>0. TypeOK /\ BusyInv /\ EndInv
  BY DEF IInv, ConsumerInv
<1>1. stage'[t] = "idle" /\ \A u \in Threads : u # t => stage'[u] = stage[u] /\ task'[u] = task[u]
  BY <1>0, OthersStay
<1>2. Taken' = Taken
  BY DEF Taken
<1>3. \A u \in Threads : stage'[u] # "idle" => u # t
  BY <1>1
<1>4. BusyInv'
  <2>1. \A u \in Threads : stage'[u] # "idle" => task'[u] \in Taken
    BY <1>0, <1>1 DEF BusyInv, Busy
  <2>2. \A u \in Threads : stage'[u] \in {"link", "compare", "write"} => Real(task'[u]) /\ ~dryRun
    BY <1>0, <1>1 DEF BusyInv
  <2>3. \A u \in Threads : stage'[u] = "link" => task'[u][2].type = "link"
    BY <1>0, <1>1 DEF BusyInv, Item
  <2> QED BY <1>0, <1>2, <2>1, <2>2, <2>3 DEF BusyInv, Busy, Item, Real
<1>5. EndInv'
  BY <1>0 DEF EndInv
<1> QED BY <1>2, <1>4, <1>5

LEMMA ReportKeeps ==
    ASSUME IInv, NEW t \in Threads, Busy(t), Real(task[t]), ~dryRun, Report(t),
           UNCHANGED <<dryRun, pc, expected, next, tasks, failed, result>>
    PROVE  ConsumerInv' /\ succeeded' \in Nat /\ reported' \subseteq Tasks
<1>0. TypeOK /\ BusyInv /\ OnceInv /\ ReportInv /\ DoneInv
  BY DEF IInv, ConsumerInv
<1>1. Ends(t) /\ succeeded' = succeeded + 1 /\ reported' = reported \cup {task[t]}
  BY DEF Report
<1>2. BusyInv' /\ EndInv' /\ Taken' = Taken
  BY <1>1, EndKeepsBusy
<1>3. stage'[t] = "idle" /\ \A u \in Threads : u # t => stage'[u] = stage[u] /\ task'[u] = task[u]
  BY <1>0, <1>1, OthersStay
<1>4. task[t] \in Tasks /\ task[t] \in Taken /\ task[t] \notin reported
  BY <1>0, TaskOfBusy DEF OnceInv
<1>5. OnceInv'
  <2> SUFFICES ASSUME NEW u \in Threads, stage'[u] # "idle", Real(task'[u])
               PROVE  /\ task'[u] \notin reported'
                      /\ \A v \in Threads : v # u /\ stage'[v] # "idle" => task'[v] # task'[u]
    BY DEF OnceInv, Busy, Real
  <2>1. u # t /\ stage[u] # "idle" /\ task'[u] = task[u] /\ Real(task[u])
    BY <1>3
  <2>2. task[u] \notin reported /\ \A v \in Threads : v # u /\ stage[v] # "idle" => task[v] # task[u]
    BY <1>0, <2>1 DEF OnceInv, Busy
  <2>3. task[t] # task[u]
    BY <2>1, <2>2 DEF Busy
  <2>4. \A v \in Threads : stage'[v] # "idle" => stage[v] # "idle" /\ task'[v] = task[v]
    BY <1>3
  <2> QED BY <1>1, <2>1, <2>2, <2>3, <2>4
<1>6. ReportInv' /\ succeeded' \in Nat
  <2>1. /\ IsFiniteSet(reported \cup {task[t]})
        /\ Cardinality(reported \cup {task[t]}) = Cardinality(reported) + 1
    BY <1>0, <1>4, FS_AddElement DEF ReportInv
  <2>2. succeeded = Cardinality(reported) /\ succeeded \in Nat
    BY <1>0 DEF ReportInv, TypeOK
  <2>3. \A tk \in reported \cup {task[t]} : tk \in Taken /\ Real(tk)
    BY <1>0, <1>4 DEF ReportInv
  <2>4. succeeded' = Cardinality(reported') /\ IsFiniteSet(reported') /\ succeeded' \in Nat
    BY <1>1, <2>1, <2>2
  <2> QED BY <1>1, <1>2, <2>3, <2>4 DEF ReportInv, Real
<1>7. DoneInv'
  <2> SUFFICES ASSUME ~failed, NEW tk \in Taken, Real(tk)
               PROVE  tk \in reported' \/ \E u \in Threads : stage'[u] # "idle" /\ task'[u] = tk
    BY <1>2 DEF DoneInv, Busy, Real
  <2>1. tk \in reported \/ \E u \in Threads : stage[u] # "idle" /\ task[u] = tk
    BY <1>0 DEF DoneInv, Busy
  <2>2. CASE tk = task[t]
    BY <1>1, <2>2
  <2>3. CASE tk # task[t]
    BY <1>1, <1>3, <2>1, <2>3
  <2> QED BY <2>2, <2>3
<1>8. reported' \subseteq Tasks
  BY <1>0, <1>1, <1>4 DEF TypeOK
<1> QED BY <1>2, <1>5, <1>6, <1>7, <1>8 DEF ConsumerInv

LEMMA EndKeeps ==
    ASSUME IInv, NEW t \in Threads, Busy(t), Ends(t),
           UNCHANGED <<dryRun, pc, expected, next, reported, tasks, result>>,
           failed => failed', ~dryRun => succeeded' = succeeded,
           ~failed' /\ ~dryRun => ~Real(task[t])
    PROVE  ConsumerInv'
<1>0. TypeOK /\ BusyInv /\ OnceInv /\ ReportInv /\ DoneInv
  BY DEF IInv, ConsumerInv
<1>2. BusyInv' /\ EndInv' /\ Taken' = Taken
  BY EndKeepsBusy
<1>3. stage'[t] = "idle" /\ \A u \in Threads : u # t => stage'[u] = stage[u] /\ task'[u] = task[u]
  BY <1>0, OthersStay
<1>4. \A u \in Threads : stage'[u] # "idle" => stage[u] # "idle" /\ task'[u] = task[u]
  BY <1>3
<1>5. OnceInv'
  <2> SUFFICES ASSUME NEW u \in Threads, stage'[u] # "idle", Real(task'[u])
               PROVE  /\ task'[u] \notin reported
                      /\ \A v \in Threads : v # u /\ stage'[v] # "idle" => task'[v] # task'[u]
    BY DEF OnceInv, Busy, Real
  <2>1. stage[u] # "idle" /\ task'[u] = task[u] /\ Real(task[u])
    BY <1>4
  <2>2. task[u] \notin reported /\ \A v \in Threads : v # u /\ stage[v] # "idle" => task[v] # task[u]
    BY <1>0, <2>1 DEF OnceInv, Busy
  <2> QED BY <1>4, <2>1, <2>2
<1>6. ReportInv'
  BY <1>0, <1>2 DEF ReportInv, Real
<1>7. DoneInv'
  <2> SUFFICES ASSUME ~failed', ~dryRun, NEW tk \in Taken, Real(tk)
               PROVE  tk \in reported \/ \E u \in Threads : stage'[u] # "idle" /\ task'[u] = tk
    BY <1>2 DEF DoneInv, Busy, Real
  <2>1. tk \in reported \/ \E u \in Threads : stage[u] # "idle" /\ task[u] = tk
    BY <1>0 DEF DoneInv, Busy
  <2>2. tk # task[t]
    OBVIOUS
  <2> QED BY <1>3, <2>1, <2>2
<1> QED BY <1>2, <1>5, <1>6, <1>7 DEF ConsumerInv

-----------------------------------------------------------------------------
(* What the steps write *)

LEMMA ContentOfBusy ==
    ASSUME TypeOK, BusyInv, NEW t \in Threads, Busy(t)
    PROVE  Partial(t) \in Contents /\ File(Item(t)) \in Contents
<1>1. task[t] \in Tasks
  BY TaskOfBusy
<1>2. File(task[t][2]) \in {File(tk[2]) : tk \in Tasks}
  BY <1>1
<1> QED BY <1>2 DEF Contents, Item

(* The first components tell the contents apart.                              *)
LEMMA ContentsApart ==
    ASSUME NEW item, NEW t
    PROVE  /\ File(item) # Directory /\ File(item) # Nothing /\ Link # Directory /\ Link # Nothing
           /\ Partial(t) # Directory /\ Partial(t) # Nothing /\ Directory # Nothing
           /\ Directory \in Contents /\ Link \in Contents /\ Nothing \in Contents /\ Mixed \in Contents
BY DEF File, Directory, Nothing, Link, Partial, Mixed, Contents

(* A step of a task at path p leaves the directories, and changes another     *)
(* path at most by making a directory where there was nothing.                *)
Framed(p) ==
    \A q \in Paths :
        /\ disk[q] = Directory => disk'[q] = Directory
        /\ q # p => disk'[q] = disk[q] \/ (disk[q] = Nothing /\ disk'[q] = Directory)

LEMMA PutFrames ==
    ASSUME TypeOK, NEW p \in Paths, NEW content \in Contents, disk[p] # Directory, Put(p, content)
    PROVE  disk' \in [Paths -> Contents] /\ disk'[p] = content /\ Framed(p)
<1>1. /\ \A q \in Paths : IsPrefix(q, Front(p)) => disk[q] \in {Nothing, Directory}
      /\ disk' = [q \in Paths |-> IF q = p THEN content ELSE
                                  IF IsPrefix(q, Front(p)) THEN Directory ELSE disk[q]]
  BY DEF Put, CanMakeDirs, MakeDirs
<1>2. disk \in [Paths -> Contents] /\ Directory \in Contents
  BY ContentsApart DEF TypeOK
<1> QED BY <1>1, <1>2 DEF Framed

LEMMA WriteFrames ==
    ASSUME TypeOK, NEW p \in Paths, NEW content \in Contents, disk[p] # Directory,
           disk' = [disk EXCEPT ![p] = content]
    PROVE  disk' \in [Paths -> Contents] /\ disk'[p] = content /\ Framed(p)
<1>1. disk \in [Paths -> Contents]
  BY DEF TypeOK
<1> QED BY <1>1 DEF Framed

(* What each step of a consumer does to the disk.                             *)
LEMMA DiskOfStep ==
    ASSUME IInv, NEW t \in Threads, Busy(t), Consume(t)
    PROVE  /\ disk' \in [Paths -> Contents]
           /\ WriteInv => Framed(Target(t))
<1>0. TypeOK /\ BusyInv
  BY DEF IInv, ConsumerInv
<1>1. Target(t) \in Paths /\ Partial(t) \in Contents /\ File(Item(t)) \in Contents
  BY <1>0, TaskOfBusy, ContentOfBusy
<1>2. /\ Directory \in Contents /\ Link \in Contents /\ Nothing \in Contents /\ Mixed \in Contents
      /\ Link # Directory /\ Nothing # Directory /\ Partial(t) # Directory
  BY ContentsApart
<1>3. disk \in [Paths -> Contents]
  BY <1>0 DEF TypeOK
<1>4. CASE disk' = disk
  BY <1>3, <1>4 DEF Framed
<1>5. CASE CreateDir(t)
  <2>1. /\ \A q \in Paths : IsPrefix(q, Target(t)) => disk[q] \in {Nothing, Directory}
        /\ disk' = [q \in Paths |-> IF IsPrefix(q, Target(t)) THEN Directory ELSE disk[q]]
    BY <1>5 DEF CreateDir, CanMakeDirs, MakeDirs
  <2> QED BY <1>2, <1>3, <2>1 DEF Framed
<1>6. CASE RemoveLink(t)
  <2>1. disk' = [disk EXCEPT ![Target(t)] = IF disk[Target(t)] = Link THEN Nothing ELSE disk[Target(t)]]
    BY <1>6 DEF RemoveLink
  <2> QED BY <1>1, <1>2, <1>3, <2>1 DEF Framed
<1>7. CASE MakeLink(t)
  <2>1. disk[Target(t)] # Directory /\ Put(Target(t), Link)
    BY <1>7 DEF MakeLink
  <2> QED BY <1>0, <1>1, <1>2, <2>1, PutFrames
<1>8. CASE LinkFails(t)
  <2>1. \/ disk' = disk
        \/ disk' = [disk EXCEPT ![Target(t)] = IF disk[Target(t)] = Directory THEN disk[Target(t)] ELSE Nothing]
    BY <1>8 DEF LinkFails
  <2> QED BY <1>1, <1>2, <1>3, <1>4, <2>1 DEF Framed
<1>9. CASE Open(t)
  <2>1. disk[Target(t)] # Directory /\ Put(Target(t), Partial(t))
    BY <1>9 DEF Open
  <2> QED BY <1>0, <1>1, <2>1, PutFrames
<1>10. CASE Downloaded(t)
  <2>1. disk' = [disk EXCEPT ![Target(t)] = Written(t)] /\ stage[t] = "write"
    BY <1>10 DEF Downloaded
  <2>2. Written(t) \in Contents
    BY <1>1, <1>2 DEF Written
  <2>3. disk' \in [Paths -> Contents]
    BY <1>3, <2>1, <2>2
  <2>4. WriteInv => disk[Target(t)] # Directory
    BY <1>2, <2>1 DEF WriteInv
  <2>5. WriteInv => Framed(Target(t))
    BY <1>0, <1>1, <2>1, <2>2, <2>4, WriteFrames
  <2> QED BY <2>3, <2>5
<1>11. CASE DownloadedInParts(t)
  <2>1. disk[Target(t)] # Directory /\ Put(Target(t), File(Item(t)))
    BY <1>11 DEF DownloadedInParts
  <2> QED BY <1>0, <1>1, <2>1, PutFrames
<1>12. CASE Take(t) \/ DryTask(t) \/ IsEqual(t) \/ DownloadFails(t) \/ TaskFails(t)
  BY <1>4, <1>12 DEF Take, DryTask, IsEqual, DownloadFails, TaskFails
<1> QED BY <1>5, <1>6, <1>7, <1>8, <1>9, <1>10, <1>11, <1>12 DEF Consume

-----------------------------------------------------------------------------
(* The steps of a consumer keep the invariant *)

LEMMA ConsumerFrame ==
    ASSUME NEW t \in Threads, Consume(t)
    PROVE  UNCHANGED <<dryRun, producer, tasks, result>> /\ (failed => failed')
BY DEF Consume, Take, DryTask, CreateDir, RemoveLink, MakeLink, LinkFails, IsEqual, Open, Downloaded,
       DownloadFails, DownloadedInParts, TaskFails, UnchangedByTasks

LEMMA TakesOrWorks == ASSUME NEW t \in Threads, Consume(t) PROVE Take(t) \/ Busy(t)
BY DEF Consume, DryTask, CreateDir, RemoveLink, MakeLink, LinkFails, IsEqual, Open, Downloaded,
       DownloadFails, DownloadedInParts, TaskFails, Busy

(* The task of a folder makes it or fails.                                    *)
LEMMA FolderStep ==
    ASSUME BusyInv, NEW t \in Threads, Busy(t), ~Real(task[t]), Consume(t)
    PROVE  CreateDir(t) \/ (disk' = disk /\ (failed' \/ dryRun))
<1>1. Item(t).type = "folder" /\ stage[t] # "idle"
  BY DEF Real, Item, Busy
<1>2. stage[t] \notin {"link", "compare", "write"}
  BY DEF BusyInv
<1> QED BY <1>1, <1>2 DEF Consume, Take, DryTask, RemoveLink, MakeLink, LinkFails, IsEqual, Open, Downloaded,
                          DownloadFails, DownloadedInParts, TaskFails

LEMMA ConsumeKeeps ==
    ASSUME IInv, NEW t \in Threads, Consume(t)
    PROVE  IInv'
<1>0. TypeOK /\ ProducerInv /\ BusyInv
  BY DEF IInv, ConsumerInv
<1>1. UNCHANGED <<dryRun, producer, tasks, result>> /\ (failed => failed')
  BY ConsumerFrame
<1>2. UNCHANGED <<dryRun, pc, g, bundles, unread, folders, implied, expected, tasks, result>>
  BY <1>1 DEF producer
<1>3. ProducerInv'
  BY <1>0, <1>1, ProducerUnaffected
<1>4. /\ stage \in [Threads -> {"idle", "start", "compare", "link", "write"}]
      /\ task \in [Threads -> Tasks \cup {<<>>}]
      /\ disk \in [Paths -> Contents] /\ next \in Nat \ {0} /\ succeeded \in Nat /\ reported \subseteq Tasks
  BY <1>0 DEF TypeOK
<1>5. failed' \in BOOLEAN
  <2>1. failed' = failed \/ failed' = TRUE
    BY DEF Consume, Take, DryTask, CreateDir, RemoveLink, MakeLink, LinkFails, IsEqual, Open, Downloaded,
           DownloadFails, DownloadedInParts, TaskFails
  <2> QED BY <1>0, <2>1, Zenon DEF TypeOK
<1> DEFINE Kept == /\ ConsumerInv'
                   /\ stage' \in [Threads -> {"idle", "start", "compare", "link", "write"}]
                   /\ task' \in [Threads -> Tasks \cup {<<>>}]
                   /\ next' \in Nat \ {0} /\ succeeded' \in Nat /\ reported' \subseteq Tasks
<1>6. ASSUME Take(t) PROVE Kept /\ disk' = disk
  <2>1. /\ task' = [task EXCEPT ![t] = tasks[next]] /\ stage' = [stage EXCEPT ![t] = "start"]
        /\ UNCHANGED <<succeeded, reported, disk>>
    BY <1>6 DEF Take
  <2>2. ConsumerInv' /\ next' \in Nat \ {0} /\ tasks[next] \in Tasks
    BY <1>6, TakeKeeps
  <2> QED BY <1>4, <2>1, <2>2
<1>7. ASSUME DryTask(t) PROVE Kept
  <2>1. Busy(t) /\ Ends(t) /\ dryRun /\ succeeded' = succeeded + 1 /\ UNCHANGED <<next, reported>>
    BY <1>7 DEF DryTask, UnchangedByTasks, Busy
  <2>2. ConsumerInv'
    BY <1>1, <1>2, <2>1, EndKeeps
  <2> QED BY <1>0, <1>4, <2>1, <2>2, OthersStay
<1>8. ASSUME CreateDir(t) PROVE Kept
  <2>1. Busy(t) /\ Ends(t) /\ UNCHANGED <<next, succeeded, reported>> /\ Item(t).type = "folder"
    BY <1>8 DEF CreateDir, UnchangedByTasks, Busy
  <2>2. ~Real(task[t])
    BY <2>1 DEF Real, Item
  <2>3. ConsumerInv'
    BY <1>1, <1>2, <2>1, <2>2, EndKeeps
  <2> QED BY <1>0, <1>4, <2>1, <2>3, OthersStay
<1>9. ASSUME RemoveLink(t) PROVE Kept
  <2>1. /\ Busy(t) /\ ~dryRun /\ Item(t).type # "folder"
        /\ UNCHANGED <<task, next, succeeded, reported, failed>>
    BY <1>9 DEF RemoveLink, UnchangedByTasks, Busy
  <2>2. PICK s \in {"link", "compare"} :
           stage' = [stage EXCEPT ![t] = s] /\ (s = "link" => Item(t).type = "link")
    BY <1>9 DEF RemoveLink
  <2>3. Real(task[t])
    BY <2>1 DEF Real, Item
  <2>4. ConsumerInv'
    BY <1>2, <2>1, <2>2, <2>3, StayKeeps
  <2>5. stage' \in [Threads -> {"idle", "start", "compare", "link", "write"}]
    BY <1>4, <2>2
  <2> QED BY <1>4, <2>1, <2>4, <2>5
<1>10. ASSUME Open(t) PROVE Kept
  <2>1. /\ Busy(t) /\ stage[t] = "compare" /\ stage' = [stage EXCEPT ![t] = "write"]
        /\ UNCHANGED <<task, next, succeeded, reported, failed>>
    BY <1>10 DEF Open, UnchangedByTasks, Busy
  <2>2. Real(task[t]) /\ ~dryRun
    BY <1>0, <2>1 DEF BusyInv
  <2>3. ConsumerInv'
    BY <1>2, <2>1, <2>2, StayKeeps
  <2>4. stage' \in [Threads -> {"idle", "start", "compare", "link", "write"}]
    BY <1>4, <2>1
  <2> QED BY <1>4, <2>1, <2>3, <2>4
<1>11. ASSUME MakeLink(t) \/ IsEqual(t) \/ Downloaded(t) \/ DownloadedInParts(t) PROVE Kept
  <2>1. Busy(t) /\ stage[t] \in {"link", "compare", "write"} /\ Report(t) /\ UNCHANGED <<next, failed>>
    BY <1>11 DEF MakeLink, IsEqual, Downloaded, DownloadedInParts, UnchangedByTasks, Busy
  <2>2. Real(task[t]) /\ ~dryRun
    BY <1>0, <2>1 DEF BusyInv
  <2>3. ConsumerInv' /\ succeeded' \in Nat /\ reported' \subseteq Tasks
    BY <1>2, <2>1, <2>2, ReportKeeps
  <2>4. Ends(t)
    BY <2>1 DEF Report
  <2> QED BY <1>0, <1>4, <2>1, <2>3, <2>4, OthersStay
<1>12. ASSUME LinkFails(t) \/ DownloadFails(t) \/ TaskFails(t) PROVE Kept
  <2>1. Busy(t) /\ Ends(t) /\ failed' /\ UNCHANGED <<next, succeeded, reported>>
    BY <1>12 DEF LinkFails, DownloadFails, TaskFails, UnchangedByTasks, Busy
  <2>2. ConsumerInv'
    BY <1>2, <2>1, EndKeeps
  <2> QED BY <1>0, <1>4, <2>1, <2>2, OthersStay
<1>13. Kept
  BY <1>6, <1>7, <1>8, <1>9, <1>10, <1>11, <1>12 DEF Consume
<1>14. disk' \in [Paths -> Contents]
  <2>1. Take(t) \/ Busy(t)
    BY TakesOrWorks
  <2> QED BY <1>4, <1>6, <2>1, DiskOfStep
<1>15. TypeOK'
  <2>1. /\ dryRun' \in BOOLEAN /\ result' \in Results
        /\ pc' \in {"version", "gpg", "search", "produce", "close", "over", "done"}
        /\ g' \in 1 .. Len(Groups) + 1
        /\ bundles' \subseteq {Groups[gr].key : gr \in DOMAIN Groups}
        /\ unread' \subseteq Items /\ folders' \subseteq Items /\ implied' \subseteq Seq(Names)
        /\ tasks' \in Seq(Tasks) /\ expected' \in Nat
    BY <1>0, <1>2 DEF TypeOK
  <2> QED BY <1>5, <1>13, <1>14, <2>1 DEF TypeOK
<1> QED BY <1>3, <1>13, <1>15 DEF IInv

-----------------------------------------------------------------------------
(* The end, and the whole *)

LEMMA SummarizeKeeps == ASSUME IInv, Summarize PROVE IInv'
<1>0. TypeOK /\ ProducerInv /\ ConsumerInv /\ BusyInv /\ GroupInv /\ ApartInv /\ CountInv /\ CoverInv
  BY DEF IInv, ProducerInv, ConsumerInv
<1>1. /\ pc = "over" /\ next > Len(tasks) /\ (\A t \in Threads : stage[t] = "idle") /\ pc' = "done"
      /\ result' = [err |-> failed, succeeded |-> succeeded, expected |-> expected]
      /\ UNCHANGED <<dryRun, g, bundles, unread, folders, implied, expected, tasks, failed,
                     stage, task, next, succeeded, reported, disk>>
  BY DEF Summarize, consumers
<1>2. next = Len(tasks) + 1
  BY <1>0, <1>1, TasksTaken
<1>3. ProducerInv'
  <2>1. GroupInv'
    BY <1>0, <1>1 DEF GroupInv, Working
  <2>2. Counted' = Counted
    BY <1>1 DEF Counted
  <2>3. ApartInv' /\ CountInv'
    BY <1>0, <1>1, <2>2 DEF ApartInv, CountInv
  <2>4. \A gr \in DOMAIN Groups : Covered(gr)' <=> Covered(gr)
    BY <1>1 DEF Covered, HasTask, FolderTask
  <2>5. CoverInv'
    BY <1>0, <1>1, <2>4 DEF CoverInv, Finished
  <2> QED BY <2>1, <2>3, <2>5 DEF ProducerInv
<1>4. Taken' = Taken
  BY <1>1 DEF Taken
<1>5. BusyInv' /\ OnceInv' /\ ReportInv' /\ DoneInv'
  BY <1>0, <1>1, <1>4 DEF ConsumerInv, BusyInv, OnceInv, ReportInv, DoneInv, Busy, Real, Item
<1>6. EndInv'
  BY <1>1, <1>2 DEF EndInv, Busy
<1>7. TypeOK'
  <2>1. result' \in Results
    <3>1. failed \in BOOLEAN /\ succeeded \in Nat /\ expected \in Nat
      BY <1>0 DEF TypeOK
    <3> QED BY <1>1, <3>1 DEF Results
  <2> QED BY <1>0, <1>1, <2>1 DEF TypeOK
<1> QED BY <1>3, <1>5, <1>6, <1>7 DEF IInv, ConsumerInv

LEMMA StutterKeeps == ASSUME IInv, UNCHANGED vars PROVE IInv'
<1>1. UNCHANGED <<dryRun, pc, g, bundles, unread, folders, implied, expected, tasks, failed, result,
                  stage, task, next, succeeded, reported, disk>>
  BY DEF vars, producer, consumers
<1>2. TypeOK'
  BY <1>1 DEF IInv, TypeOK
<1>3. ProducerInv'
  BY <1>1, ProducerUnaffected DEF IInv, producer
<1>4. Taken' = Taken
  BY <1>1 DEF Taken
<1>5. ConsumerInv'
  BY <1>1, <1>4 DEF IInv, ConsumerInv, BusyInv, OnceInv, ReportInv, DoneInv, EndInv, Busy, Real, Item
<1> QED BY <1>2, <1>3, <1>5 DEF IInv

LEMMA Inductive == IInv /\ [Next]_vars => IInv'
<1> SUFFICES ASSUME IInv, [Next]_vars PROVE IInv'
  OBVIOUS
<1>1. CASE Produce
  BY <1>1, ProduceKeeps
<1>2. CASE Summarize
  BY <1>2, SummarizeKeeps
<1>3. ASSUME NEW t \in Threads, Consume(t) PROVE IInv'
  BY <1>3, ConsumeKeeps
<1>4. CASE UNCHANGED vars
  BY <1>4, StutterKeeps
<1> QED BY <1>1, <1>2, <1>3, <1>4 DEF Next

(* The variables keep their types.                                            *)
THEOREM TypeCorrect == Spec => []TypeOK
<1>1. IInv => TypeOK
  BY DEF IInv
<1> QED BY <1>1, Initially, Inductive, PTL DEF Spec

LEMMA Summary == IInv => SummaryHonest
<1> SUFFICES ASSUME IInv, pc = "done", ~dryRun
             PROVE  /\ result.succeeded = Cardinality(reported) /\ result.succeeded <= result.expected
                    /\ ~result.err => result.succeeded = result.expected
  BY DEF SummaryHonest
<1>0. TypeOK /\ BusyInv /\ ReportInv /\ DoneInv /\ EndInv /\ CountInv
  BY DEF IInv, ProducerInv, ConsumerInv
<1>1. /\ next = Len(tasks) + 1 /\ (\A t \in Threads : ~Busy(t))
      /\ result.succeeded = succeeded /\ result.expected = expected /\ result.err = failed
  BY <1>0 DEF EndInv
<1>2. succeeded = Cardinality(reported) /\ expected = Cardinality(Counted) /\ IsFiniteSet(Counted)
  BY <1>0, NumbersOfGroups DEF ReportInv, CountInv
<1>3. Taken = ToSet(tasks)
  <2>1. Len(tasks) \in Nat /\ DOMAIN tasks = 1 .. Len(tasks) /\ next - 1 = Len(tasks)
    BY <1>0, <1>1, TasksTaken
  <2> QED BY <2>1 DEF Taken, ToSet
<1>4. reported \in SUBSET Counted
  BY <1>0, <1>3 DEF ReportInv, Counted
<1>5. Cardinality(reported) <= Cardinality(Counted)
  BY <1>2, <1>4, FS_Subset
<1>6. ~failed => reported = Counted
  BY <1>0, <1>1, <1>3, <1>4 DEF DoneInv, Counted
<1> QED BY <1>1, <1>2, <1>5, <1>6

(* What DownloadFiles returns counts what happened: the successes are the     *)
(* files that were reported, and without an error they are all that were      *)
(* queued, whatever consumers, faults and orders there were.                  *)
THEOREM SummaryHonestHolds == Spec => []SummaryHonest
BY Initially, Inductive, Summary, PTL DEF Spec

-----------------------------------------------------------------------------
(* The disk *)

LEMMA TasksApart ==
    ASSUME TargetsApart, TypeOK, ApartInv, NEW tk \in ToSet(tasks), NEW uk \in ToSet(tasks),
           Real(tk), Real(uk), tk # uk
    PROVE  Place(tk) # Place(uk)
<1>1. tk \in Tasks /\ uk \in Tasks
  BY NumbersOfGroups
<1>2. /\ tk[1] \in DOMAIN Groups /\ tk[2] \in Groups[tk[1]].items
      /\ uk[1] \in DOMAIN Groups /\ uk[2] \in Groups[uk[1]].items
  BY <1>1, TaskParts
<1>3. CASE tk[1] = uk[1]
  <2>1. PICK i, j \in DOMAIN tasks : tk = tasks[i] /\ uk = tasks[j]
    BY DEF ToSet
  <2> QED BY <1>3, <2>1 DEF ApartInv
<1>4. CASE tk[1] # uk[1]
  BY <1>2, <1>4 DEF TargetsApart, Real, Place
<1> QED BY <1>3, <1>4

(* What was reported and what others write is not where the step's task is.   *)
LEMMA StepElsewhere ==
    ASSUME TargetsApart, IInv, NEW t \in Threads, Busy(t)
    PROVE  /\ Real(task[t]) => \A tk \in reported : Place(tk) # Target(t)
           /\ \A u \in Threads : u # t /\ stage[u] = "write" /\ Real(task[t]) => Target(u) # Target(t)
<1>0. TypeOK /\ ApartInv /\ BusyInv /\ OnceInv /\ ReportInv
  BY DEF IInv, ProducerInv, ConsumerInv
<1>1. Target(t) = Place(task[t]) /\ task[t] \in ToSet(tasks) /\ Taken \subseteq ToSet(tasks)
  BY <1>0, TaskOfBusy, TasksTaken
<1>2. ASSUME Real(task[t]), NEW tk \in reported PROVE Place(tk) # Target(t)
  <2>1. tk \in ToSet(tasks) /\ Real(tk) /\ tk # task[t]
    BY <1>0, <1>1, <1>2 DEF ReportInv, OnceInv
  <2> QED BY <1>0, <1>1, <1>2, <2>1, TasksApart
<1>3. ASSUME Real(task[t]), NEW u \in Threads, u # t, stage[u] = "write" PROVE Target(u) # Target(t)
  <2>1. Busy(u) /\ Real(task[u])
    BY <1>0, <1>3 DEF Busy, BusyInv
  <2>2. Target(u) = Place(task[u]) /\ task[u] \in ToSet(tasks)
    BY <1>0, <2>1, TaskOfBusy
  <2>3. task[u] # task[t]
    BY <1>0, <1>3, <2>1 DEF OnceInv
  <2> QED BY <1>0, <1>1, <1>3, <2>1, <2>2, <2>3, TasksApart
<1> QED BY <1>2, <1>3

(* Files, links and what is being written stay, and so do directories.        *)
LEMMA StepKeepsContents ==
    ASSUME TargetsApart, IInv, DiskInv, NEW t \in Threads, Busy(t), Consume(t)
    PROVE  /\ \A tk \in reported : disk'[Place(tk)] = disk[Place(tk)]
           /\ \A u \in Threads : u # t /\ stage[u] = "write" => disk'[Target(u)] = disk[Target(u)]
           /\ \A q \in Paths : disk[q] = Directory => disk'[q] = Directory
<1>0. TypeOK /\ BusyInv /\ ReportInv /\ WriteInv /\ ReportedIsThere
  BY DEF IInv, ProducerInv, ConsumerInv, DiskInv
<1>1. Framed(Target(t))
  BY <1>0, DiskOfStep
<1>2. \A q \in Paths : disk[q] # Nothing /\ (q # Target(t) \/ disk[q] = Directory) => disk'[q] = disk[q]
  BY <1>1 DEF Framed
<1>3. ~Real(task[t]) => \A q \in Paths : disk[q] # Nothing => disk'[q] = disk[q]
  <2> SUFFICES ASSUME ~Real(task[t]) PROVE \A q \in Paths : disk[q] # Nothing => disk'[q] = disk[q]
    OBVIOUS
  <2>2. disk' = disk \/ CreateDir(t)
    BY <1>0, FolderStep
  <2>3. CASE CreateDir(t)
    <3>1. /\ \A q \in Paths : IsPrefix(q, Target(t)) => disk[q] \in {Nothing, Directory}
          /\ disk' = [q \in Paths |-> IF IsPrefix(q, Target(t)) THEN Directory ELSE disk[q]]
      BY <2>3 DEF CreateDir, CanMakeDirs, MakeDirs
    <3> QED BY <3>1
  <2> QED BY <2>2, <2>3
<1>4. ASSUME NEW tk \in reported PROVE disk'[Place(tk)] = disk[Place(tk)]
  <2>1. tk \in Tasks /\ Real(tk)
    BY <1>0 DEF TypeOK, ReportInv
  <2>2. Place(tk) \in Paths
    BY <2>1, TaskParts, LocalPathThere DEF Place
  <2>3. disk[Place(tk)] \in {File(tk[2]), Link}
    BY <1>0, <2>1 DEF ReportedIsThere, Place, Content, Real
  <2>4. disk[Place(tk)] # Nothing
    BY <2>3, ContentsApart
  <2> QED BY <1>2, <1>3, <2>2, <2>4, StepElsewhere
<1>5. ASSUME NEW u \in Threads, u # t, stage[u] = "write" PROVE disk'[Target(u)] = disk[Target(u)]
  <2>1. Busy(u) /\ disk[Target(u)] = Partial(u)
    BY <1>0, <1>5 DEF Busy, WriteInv
  <2>2. Target(u) \in Paths /\ disk[Target(u)] # Nothing
    BY <1>0, <2>1, TaskOfBusy, ContentsApart
  <2> QED BY <1>2, <1>3, <1>5, <2>2, StepElsewhere
<1> QED BY <1>1, <1>4, <1>5 DEF Framed

(* A task that is reported has put its content at its path.                   *)
LEMMA ReportPuts ==
    ASSUME IInv, WriteInv, NEW t \in Threads,
           MakeLink(t) \/ IsEqual(t) \/ Downloaded(t) \/ DownloadedInParts(t)
    PROVE  disk'[Place(task[t])] \in {File(task[t][2]), Content(task[t][2])}
<1>0. TypeOK /\ BusyInv
  BY DEF IInv, ConsumerInv
<1>1. Busy(t)
  BY DEF MakeLink, IsEqual, Downloaded, DownloadedInParts, Busy
<1>2. Target(t) \in Paths /\ Target(t) = Place(task[t]) /\ File(Item(t)) \in Contents /\ Link \in Contents
  BY <1>0, <1>1, TaskOfBusy, ContentOfBusy, ContentsApart
<1>3. CASE MakeLink(t)
  <2>1. disk[Target(t)] # Directory /\ Put(Target(t), Link) /\ stage[t] = "link"
    BY <1>3 DEF MakeLink
  <2>2. disk'[Target(t)] = Link
    BY <1>0, <1>2, <2>1, PutFrames
  <2>3. Content(Item(t)) = Link
    BY <1>0, <2>1 DEF BusyInv, Content
  <2> QED BY <1>2, <2>2, <2>3 DEF Item
<1>4. CASE IsEqual(t)
  BY <1>2, <1>4 DEF IsEqual, Item
<1>5. CASE Downloaded(t)
  <2>1. disk' = [disk EXCEPT ![Target(t)] = Written(t)] /\ stage[t] = "write"
    BY <1>5 DEF Downloaded
  <2>2. disk \in [Paths -> Contents]
    BY <1>0 DEF TypeOK
  <2>3. Written(t) = File(Item(t))
    BY <2>1 DEF Written, WriteInv
  <2> QED BY <1>2, <2>1, <2>2, <2>3 DEF Item
<1>6. CASE DownloadedInParts(t)
  <2>1. disk[Target(t)] # Directory /\ Put(Target(t), File(Item(t)))
    BY <1>6 DEF DownloadedInParts
  <2>2. disk'[Target(t)] = File(Item(t))
    BY <1>0, <1>2, <2>1, PutFrames
  <2> QED BY <1>2, <2>2 DEF Item
<1> QED BY <1>3, <1>4, <1>5, <1>6

LEMMA DiskConsume ==
    ASSUME TargetsApart, IInv, DiskInv, NEW t \in Threads, Busy(t), Consume(t)
    PROVE  DiskInv'
<1>0. TypeOK /\ BusyInv /\ ReportInv /\ WriteInv /\ ReportedIsThere /\ FolderInv
  BY DEF IInv, ProducerInv, ConsumerInv, DiskInv
<1>1. /\ \A tk \in reported : disk'[Place(tk)] = disk[Place(tk)]
      /\ \A u \in Threads : u # t /\ stage[u] = "write" => disk'[Target(u)] = disk[Target(u)]
      /\ \A q \in Paths : disk[q] = Directory => disk'[q] = Directory
  BY StepKeepsContents
<1>2. ReportedIsThere'
  <2>1. \A tk \in reported : disk'[Place(tk)] \in {File(tk[2]), Content(tk[2])}
    BY <1>0, <1>1 DEF ReportedIsThere, Place
  <2>2. reported' = reported \/
        (/\ reported' = reported \cup {task[t]}
         /\ (MakeLink(t) \/ IsEqual(t) \/ Downloaded(t) \/ DownloadedInParts(t)))
    BY DEF Consume, Take, DryTask, CreateDir, RemoveLink, MakeLink, LinkFails, IsEqual, Open, Downloaded,
           DownloadFails, DownloadedInParts, TaskFails, Report
  <2>3. \A tk \in reported' : disk'[Place(tk)] \in {File(tk[2]), Content(tk[2])}
    BY <1>0, <2>1, <2>2, ReportPuts
  <2> QED BY <2>3 DEF ReportedIsThere, Place, Content
<1>3. /\ \A u \in Threads : u # t => stage'[u] = stage[u] /\ task'[u] = task[u]
      /\ stage'[t] = "write" => Open(t) /\ task'[t] = task[t]
      /\ next' = next /\ UNCHANGED <<dryRun, tasks>>
  BY <1>0, OthersStay
     DEF TypeOK, Consume, Take, DryTask, CreateDir, RemoveLink, MakeLink, LinkFails, IsEqual, Open, Downloaded,
         DownloadFails, DownloadedInParts, TaskFails, Report, Busy, UnchangedByTasks
<1>4. WriteInv'
  <2> SUFFICES ASSUME NEW u \in Threads, stage'[u] = "write"
               PROVE  disk'[LocalPath(task'[u][1], task'[u][2])] = Partial(u)
    BY DEF WriteInv, Target, Item
  <2>1. CASE u # t
    BY <1>0, <1>1, <1>3, <2>1 DEF WriteInv, Target, Item
  <2>2. CASE u = t
    <3>1. disk[Target(t)] # Directory /\ Put(Target(t), Partial(t)) /\ task'[t] = task[t]
      BY <1>3, <2>2 DEF Open
    <3>2. disk'[Target(t)] = Partial(t)
      BY <1>0, <3>1, TaskOfBusy, ContentOfBusy, PutFrames
    <3> QED BY <2>2, <3>1, <3>2 DEF Target, Item
  <2> QED BY <2>1, <2>2
<1>5. FolderInv'
  <2> SUFFICES ASSUME ~failed', ~dryRun, NEW tk \in Taken, ~Real(tk)
               PROVE  disk'[Place(tk)] = Directory \/ \E u \in Threads : stage'[u] # "idle" /\ task'[u] = tk
    BY <1>3 DEF FolderInv, Busy, Real, Place, Taken
  <2>0. ~failed
    BY ConsumerFrame
  <2>1. Place(tk) \in Paths
    BY <1>0, TasksTaken, TaskParts, LocalPathThere DEF Place
  <2>2. CASE disk[Place(tk)] = Directory
    BY <1>1, <2>1, <2>2
  <2>3. CASE \E u \in Threads : u # t /\ Busy(u) /\ task[u] = tk
    BY <1>3, <2>3 DEF Busy
  <2>4. CASE task[t] = tk
    <3>2. CreateDir(t)
      BY <1>0, <2>4, FolderStep
    <3>3. disk' = [q \in Paths |-> IF IsPrefix(q, Target(t)) THEN Directory ELSE disk[q]]
      BY <3>2 DEF CreateDir, MakeDirs
    <3>4. Target(t) = Place(tk)
      BY <2>4 DEF Target, Place, Item
    <3>5. IsPrefix(Target(t), Target(t))
      BY <1>0, <3>4, TaskOfBusy, LocalPathIsPath, PrefixReflexive DEF Place
    <3> QED BY <2>1, <3>3, <3>4, <3>5
  <2> QED BY <1>0, <2>0, <2>2, <2>3, <2>4 DEF FolderInv
<1> QED BY <1>2, <1>4, <1>5 DEF DiskInv

LEMMA DiskTake ==
    ASSUME IInv, DiskInv, NEW t \in Threads, Take(t)
    PROVE  DiskInv'
<1>0. TypeOK /\ BusyInv /\ ReportedIsThere /\ WriteInv /\ FolderInv
  BY DEF IInv, ConsumerInv, DiskInv
<1>1. /\ stage[t] = "idle" /\ task' = [task EXCEPT ![t] = tasks[next]]
      /\ next' = next + 1 /\ stage' = [stage EXCEPT ![t] = "start"]
      /\ UNCHANGED <<dryRun, reported, disk, tasks, failed>>
  BY DEF Take
<1>2. /\ stage'[t] = "start" /\ task'[t] = tasks[next]
      /\ \A u \in Threads : u # t => stage'[u] = stage[u] /\ task'[u] = task[u]
  BY <1>0, <1>1 DEF TypeOK
<1>3. ReportedIsThere'
  BY <1>0, <1>1 DEF ReportedIsThere, Content
<1>4. WriteInv'
  <2>1. \A u \in Threads : stage'[u] = "write" =>
           disk[LocalPath(task'[u][1], task'[u][2])] = Partial(u)
    BY <1>0, <1>2 DEF WriteInv, Target, Item
  <2> QED BY <1>1, <2>1 DEF WriteInv, Target, Item
<1>5. \A tk \in Taken' : tk \in Taken \/ tk = tasks[next]
  <2>1. next \in Nat \ {0}
    BY <1>0 DEF TypeOK
  <2>2. Taken' = {tasks[i] : i \in 1 .. next}
    BY <1>1, <2>1 DEF Taken
  <2>3. \A i \in 1 .. next : i \in 1 .. next - 1 \/ i = next
    BY <2>1
  <2> QED BY <2>2, <2>3 DEF Taken
<1>6. FolderInv'
  <2> SUFFICES ASSUME ~failed, ~dryRun, NEW tk \in Taken', ~Real(tk)
               PROVE  disk[Place(tk)] = Directory \/ \E u \in Threads : stage'[u] # "idle" /\ task'[u] = tk
    BY <1>1 DEF FolderInv, Busy, Real, Place
  <2>1. CASE tk = tasks[next]
    BY <1>2, <2>1
  <2>2. CASE tk \in Taken
    <3>1. disk[Place(tk)] = Directory \/ \E u \in Threads : stage[u] # "idle" /\ task[u] = tk
      BY <1>0, <2>2 DEF FolderInv, Busy
    <3> QED BY <1>1, <1>2, <3>1
  <2> QED BY <1>5, <2>1, <2>2
<1> QED BY <1>3, <1>4, <1>6 DEF DiskInv

LEMMA DiskUnchanged ==
    ASSUME DiskInv, UNCHANGED <<dryRun, reported, disk, stage, task>>, failed => failed', Taken' = Taken
    PROVE  DiskInv'
<1>1. ReportedIsThere'
  BY DEF DiskInv, ReportedIsThere, Content
<1>2. WriteInv'
  BY DEF DiskInv, WriteInv, Target, Item
<1>3. FolderInv'
  BY DEF DiskInv, FolderInv, Busy, Real, Place
<1> QED BY <1>1, <1>2, <1>3 DEF DiskInv

LEMMA DiskInitially == Init => DiskInv
<1> SUFFICES ASSUME Init PROVE DiskInv
  OBVIOUS
<1>1. Taken = {} /\ reported = {} /\ \A t \in Threads : stage[t] = "idle"
  BY DEF Init, Taken
<1> QED BY <1>1 DEF DiskInv, ReportedIsThere, WriteInv, FolderInv

LEMMA DiskInductive == ASSUME TargetsApart PROVE IInv /\ DiskInv /\ [Next]_vars => DiskInv'
<1> SUFFICES ASSUME IInv, DiskInv, [Next]_vars PROVE DiskInv'
  OBVIOUS
<1>0. TypeOK /\ ConsumerInv
  BY DEF IInv
<1>1. CASE Produce
  <2>1. UNCHANGED <<dryRun, consumers, result>> /\ pc # "done" /\ pc' # "done" /\ (failed => failed')
    BY <1>1, ProducerFrame
  <2>2. Len(tasks') \in Nat /\ Len(tasks) <= Len(tasks') /\ \A i \in 1 .. Len(tasks) : tasks'[i] = tasks[i]
    BY <1>1, ProducerFrame
  <2>3. Taken' = Taken
    BY <1>0, <2>1, <2>2, ConsumersUnaffected
  <2> QED BY <2>1, <2>3, DiskUnchanged DEF consumers
<1>2. CASE Summarize
  <2>1. UNCHANGED <<dryRun, reported, disk, stage, task, next, tasks, failed>>
    BY <1>2 DEF Summarize, consumers
  <2>2. Taken' = Taken
    BY <2>1 DEF Taken
  <2> QED BY <2>1, <2>2, DiskUnchanged
<1>3. ASSUME NEW t \in Threads, Consume(t) PROVE DiskInv'
  <2>1. Take(t) \/ Busy(t)
    BY <1>3, TakesOrWorks
  <2> QED BY <1>3, <2>1, DiskTake, DiskConsume
<1>4. CASE UNCHANGED vars
  <2>1. UNCHANGED <<dryRun, reported, disk, stage, task, next, tasks, failed>>
    BY <1>4 DEF vars, consumers
  <2>2. Taken' = Taken
    BY <2>1 DEF Taken
  <2> QED BY <2>1, <2>2, DiskUnchanged
<1> QED BY <1>1, <1>2, <1>3, <1>4 DEF Next

(* If no two tasks put a file at the same local path: a file or a link that   *)
(* was reported is there, whole, and stays there, whatever the other          *)
(* consumers write, remove and fail to finish.                                *)
THEOREM ReportedIsThereHolds == ASSUME TargetsApart PROVE Spec => []ReportedIsThere
<1>1. IInv /\ DiskInv => ReportedIsThere
  BY DEF DiskInv
<1> QED BY <1>1, Initially, Inductive, DiskInitially, DiskInductive, PTL DEF Spec

LEMMA AllIsThere == ASSUME TargetsApart, IInv, DiskInv PROVE NilMeansAll
<1> SUFFICES ASSUME pc = "done", ~result.err, ~dryRun, NEW gr \in DOMAIN Groups, NEW item \in Groups[gr].items
             PROVE  IF item.type = "folder"
                      THEN Groups[gr].flat \/ FolderThere(item.path)
                      ELSE \E other \in Groups[gr].items :
                             /\ LocalPath(gr, other) = LocalPath(gr, item)
                             /\ disk[LocalPath(gr, item)] \in {File(other), Content(other)}
  BY DEF NilMeansAll
<1>0. /\ TypeOK /\ BusyInv /\ ReportInv /\ DoneInv /\ EndInv /\ CoverInv
      /\ ReportedIsThere /\ FolderInv
  BY DEF IInv, ProducerInv, ConsumerInv, DiskInv
<1>1. next = Len(tasks) + 1 /\ (\A t \in Threads : ~Busy(t)) /\ ~failed
  BY <1>0 DEF EndInv
<1>2. Taken = ToSet(tasks)
  <2>1. Len(tasks) \in Nat /\ DOMAIN tasks = 1 .. Len(tasks) /\ next - 1 = Len(tasks)
    BY <1>0, <1>1, TasksTaken
  <2> QED BY <2>1 DEF Taken, ToSet
<1>3. \A tk \in ToSet(tasks) :
         /\ Real(tk) => tk \in reported
         /\ ~Real(tk) => disk[Place(tk)] = Directory
  BY <1>0, <1>1, <1>2 DEF DoneInv, FolderInv
<1>4. \A tk \in ToSet(tasks) : Real(tk) => disk[Place(tk)] \in {File(tk[2]), Content(tk[2])}
  BY <1>0, <1>3 DEF ReportedIsThere, Place
<1>5. Covered(gr)
  <2>1. gr \in 1 .. Len(Groups) /\ Len(Groups) \in Nat /\ g = Len(Groups) + 1
    BY <1>0, <1>1, GroupsAssumption DEF CoverInv
  <2>2. Finished(gr)
    BY <2>1 DEF Finished
  <2> QED BY <1>0, <1>1, <2>2 DEF CoverInv
<1>6. PICK other \in Groups[gr].items : LocalPath(gr, other) = LocalPath(gr, item) /\ HasTask(gr, other)
  BY <1>5 DEF Covered
<1>7. other.type = "folder" <=> item.type = "folder"
  BY <1>6 DEF TargetsApart
<1>8. CASE item.type = "folder"
  <2> SUFFICES ASSUME ~Groups[gr].flat PROVE FolderThere(item.path)
    BY <1>8
  <2>1. other.path = item.path
    BY <1>6 DEF LocalPath
  <2>2. PICK tk \in ToSet(tasks) : tk[1] = gr /\ IsPrefix(item.path, tk[2].path)
    BY <1>6, <1>7, <1>8, <2>1 DEF HasTask, FolderTask
  <2>3. tk[2] \in Groups[gr].items
    BY <1>0, <2>2, NumbersOfGroups, TaskParts
  <2>4. Place(tk) = tk[2].path /\ Place(tk) \in Paths
    BY <2>2, <2>3, LocalPathThere DEF Place, LocalPath
  <2>5. disk[Place(tk)] # Nothing
    <3>1. Real(tk) => disk[Place(tk)] \in {File(tk[2]), Link}
      BY <1>4 DEF Content, Real
    <3> QED BY <1>3, <3>1, ContentsApart
  <2> QED BY <2>2, <2>4, <2>5 DEF FolderThere
<1>9. CASE item.type # "folder"
  <2>1. <<gr, other>> \in ToSet(tasks) /\ Real(<<gr, other>>) /\ Place(<<gr, other>>) = LocalPath(gr, item)
    BY <1>6, <1>7, <1>9 DEF HasTask, Real, Place
  <2>2. disk[LocalPath(gr, item)] \in {File(other), Content(other)}
    BY <1>4, <2>1
  <2> QED BY <1>6, <1>9, <2>2
<1> QED BY <1>8, <1>9

(* If no two tasks put a file at the same local path: an error that is nil    *)
(* means that everything that was found, in every group, is on the disk.      *)
THEOREM NilMeansAllHolds == ASSUME TargetsApart PROVE Spec => []NilMeansAll
<1>1. IInv /\ DiskInv => NilMeansAll
  BY AllIsThere
<1> QED BY <1>1, Initially, Inductive, DiskInitially, DiskInductive, PTL DEF Spec
=============================================================================
