----------------------------- MODULE Answers_proofs ---------------------------
(* Proofs that what a caller is told is what happened, about the modules that *)
(* answer for somebody else.                                                  *)
(*   ContentReader, which answers with records: for every number of files,    *)
(* records, consumers and resets and every capacity, as long as Reset and     *)
(* Length are called at the ends of a reading.                                *)
(*   RetryableConnection, which answers with a result: for every number of    *)
(* retries, with or without a window and a handler, and every length of the   *)
(* response.                                                                  *)
(*   Administration, which answers for a server with an error or none: for    *)
(* every method of every kind, and every number of callers and attempts.      *)
EXTENDS ContentReader, RetryableConnection, Administration, SequenceTheorems, FiniteSetTheorems, TLAPS

-----------------------------------------------------------------------------
(* The records, and the order of a reading *)

LEMMA RecordPlaces ==
    ASSUME NEW f, NEW n
    PROVE  <<f, n>> \in Record <=> f \in 1 .. Len(Files) /\ n \in 1 .. Files[f]
BY FilesAssumption DEF Record

LEMMA RecordPairs ==
    ASSUME NEW r \in Record
    PROVE  /\ r = <<r[1], r[2]>> /\ r[1] \in 1 .. Len(Files) /\ r[2] \in 1 .. Files[r[1]]
           /\ r \in Nat \X Nat
<1>1. PICK f \in DOMAIN Files : r \in {f} \X (1 .. Files[f])
  BY DEF Record
<1>2. Files[f] \in Nat /\ f \in 1 .. Len(Files)
  BY FilesAssumption
<1> QED BY <1>1, <1>2

LEMMA RecordFinite == IsFiniteSet(Record) /\ Total \in Nat
<1> DEFINE File(f) == {f} \X (1 .. Files[f])
           Whole == {File(f) : f \in DOMAIN Files}
           fun == [f \in DOMAIN Files |-> File(f)]
<1>1. DOMAIN Files = 1 .. Len(Files) /\ Len(Files) \in Nat /\ \A f \in DOMAIN Files : Files[f] \in Nat
  BY FilesAssumption
<1>2. IsFiniteSet(DOMAIN Files)
  BY <1>1, FS_Interval
<1>3. fun \in Surjection(DOMAIN Files, Whole)
  BY DEF Surjection
<1>4. IsFiniteSet(Whole)
  BY <1>2, <1>3, FS_Surjection
<1>5. ASSUME NEW f \in DOMAIN Files PROVE IsFiniteSet(File(f))
  <2>1. IsFiniteSet(1 .. Files[f])
    BY <1>1, FS_Interval
  <2>2. IsFiniteSet({f})
    BY FS_Singleton
  <2> QED BY <2>1, <2>2, FS_Product
<1>6. \A T \in Whole : IsFiniteSet(T)
  BY <1>5
<1>7. IsFiniteSet(UNION Whole)
  BY ONLY <1>4, <1>6, FS_UNION
<1>8. IsFiniteSet(Record)
  BY <1>7 DEF Record
<1> QED BY <1>8, FS_CardinalityType DEF Total

LEMMA BeforeOrder ==
    ASSUME NEW r \in Nat \X Nat, NEW s \in Nat \X Nat, NEW t \in Nat \X Nat
    PROVE  /\ ~Before(r, r)
           /\ Before(r, s) /\ Before(s, t) => Before(r, t)
           /\ Before(r, s) => ~Before(s, r)
BY DEF Before

-----------------------------------------------------------------------------
(* Lists of records *)

(* Receiving moves the first record of the channel to the end of what was     *)
(* received.                                                                  *)
LEMMA HeadMoves ==
    ASSUME NEW S, NEW a \in Seq(S), NEW q \in Seq(S), q # <<>>
    PROVE  Append(a, Head(q)) \o Tail(q) = a \o q
<1>1. Head(q) \in S /\ Tail(q) \in Seq(S)
  BY HeadTailProperties
<1>2. Len(q) \in Nat /\ Len(q) # 0
  BY LenProperties, EmptySeq
<1>3. q = <<Head(q)>> \o Tail(q)
  OBVIOUS
<1>4. <<Head(q)>> \in Seq(S)
  BY <1>1
<1>5. Append(a, Head(q)) = a \o <<Head(q)>>
  BY <1>1, AppendIsConcat
<1>6. (a \o <<Head(q)>>) \o Tail(q) = a \o (<<Head(q)>> \o Tail(q))
  BY <1>1, <1>4, ConcatAssociative
<1> QED BY <1>3, <1>5, <1>6

LEMMA TailGrows ==
    ASSUME NEW a \in Seq(Record), NEW q \in Seq(Record), NEW e \in Record
    PROVE  a \o Append(q, e) = Append(a \o q, e)
<1>1. <<e>> \in Seq(Record) /\ a \o q \in Seq(Record)
  BY ConcatProperties
<1>2. Append(q, e) = q \o <<e>> /\ Append(a \o q, e) = (a \o q) \o <<e>>
  BY <1>1, AppendIsConcat
<1>3. (a \o q) \o <<e>> = a \o (q \o <<e>>)
  BY <1>1, ConcatAssociative
<1> QED BY <1>2, <1>3

(* A list in order has no repetition: it is as long as its set is large.      *)
LEMMA OrderedLength ==
    ASSUME NEW list \in Seq(Record), InOrder(list), ToSet(list) = Record
    PROVE  Len(list) = Total
<1>1. Len(list) \in Nat /\ list \in [1 .. Len(list) -> Record]
  BY LenProperties
<1>2. ASSUME NEW m \in 1 .. Len(list), NEW n \in 1 .. Len(list), list[m] = list[n]
      PROVE  m = n
  <2>1. list[m] \in Nat \X Nat
    BY <1>1, RecordPairs
  <2>2. ~Before(list[m], list[m])
    BY <2>1, BeforeOrder
  <2>3. m < n \/ n < m \/ m = n
    BY <1>1
  <2> QED BY <1>1, <1>2, <2>2, <2>3 DEF InOrder
<1>3. \A r \in Record : \E n \in 1 .. Len(list) : list[n] = r
  BY <1>1 DEF ToSet
<1>4. list \in Bijection(1 .. Len(list), Record)
  <2>1. list \in Injection(1 .. Len(list), Record)
    BY <1>1, <1>2 DEF Injection, IsInjective
  <2>2. list \in Surjection(1 .. Len(list), Record)
    BY <1>1, <1>3 DEF Surjection
  <2> QED BY <2>1, <2>2 DEF Bijection
<1>5. ExistsBijection(1 .. Len(list), Record)
  BY <1>4 DEF ExistsBijection
<1>6. IsFiniteSet(1 .. Len(list)) /\ Cardinality(1 .. Len(list)) = Len(list)
  BY <1>1, FS_Interval
<1> QED BY <1>5, <1>6, FS_Bijection DEF Total

-----------------------------------------------------------------------------
(* The invariant *)

(* The goroutine of a generation, its channel and what was received from it.  *)
(* Only that of the present generation is under way; it sends to, and closes, *)
(* its own channel.                                                           *)
WorkerAt(g) ==
    /\ worker[g].pc \in {"none", "begin", "read", "send", "gone"}
    /\ g < gen => worker[g].pc \in {"none", "gone"}
    /\ g > gen => worker[g].pc = "none"
    /\ worker[g].pc \in {"none", "begin"} =>
         /\ got[g] = <<>> /\ chan[g].queue = <<>>
         /\ worker[g].file = 1 /\ worker[g].next = 1
    /\ worker[g].pc \notin {"none", "begin"} => worker[g].own = g
    /\ worker[g].pc = "send" =>
         worker[g].to = g /\ <<worker[g].file, worker[g].next>> \in Record
    /\ chan[g].closed <=> worker[g].pc = "gone"
    /\ worker[g].pc = "gone" => worker[g].file > Len(Files)
    /\ eof[g] => worker[g].pc = "gone" /\ chan[g].queue = <<>>

Pushed(g) == got[g] \o chan[g].queue
Place(g)  == <<worker[g].file, worker[g].next>>

(* What was pushed is in order, is before the goroutine's place and, unless   *)
(* an error was queued, is all that is before it.                             *)
Stream(list, spot, skipped) ==
    /\ InOrder(list)
    /\ \A n \in DOMAIN list : Before(list[n], spot)
    /\ ~skipped => \A r \in Record : Before(r, spot) => r \in ToSet(list)
StreamAt(g) == Stream(Pushed(g), Place(g), lost[g])

(* A consumer waits on the channel of a goroutine that was started; nobody    *)
(* calls NextRecord beside Length.                                            *)
CallInv ==
    /\ \A c \in Consumers :
         /\ pc[c] = "recv" => worker[gen].pc # "none"
         /\ pc[c] = "eof" => eof[gen]
         /\ counting = c => \A d \in Consumers \ {c} : pc[d] = "idle"
    /\ counting # Nobody => gen < MaxResets

(* As long as no two consumers have counted at a time and no error was        *)
(* queued, the length is that of what was received, but for one that is just  *)
(* being counted, and before a reading it is 0 or that of an earlier one.     *)
Counted == ~raced /\ \A g \in Gens : ~lost[g]

CountAt(c) ==
    /\ \A d \in Consumers : pc[d] = "count" => d = c
    /\ seen[c] = length /\ length + 1 = Len(got[gen])
Between ==
    IF worker[gen].pc \in {"none", "begin"} THEN length \in {0, Total}
                                            ELSE length = Len(got[gen])
LengthInv ==
    Counted => /\ \A c \in Consumers : pc[c] = "count" => CountAt(c)
               /\ (\A c \in Consumers : pc[c] # "count") => Between

ReadingInv == \A g \in Gens : WorkerAt(g) /\ StreamAt(g)

IInv == TypeOK /\ ReadingInv /\ CallInv /\ LengthInv

-----------------------------------------------------------------------------
(* Streams *)

LEMMA PlacePair ==
    ASSUME TypeOK, NEW g \in Gens
    PROVE  Place(g) \in Nat \X Nat /\ Pushed(g) \in Seq(Record)
<1>1. worker[g].file \in Nat /\ worker[g].next \in Nat
  BY FilesAssumption DEF TypeOK, Channels, Workers
<1>2. got[g] \in Seq(Record) /\ chan[g].queue \in Seq(Record)
  BY DEF TypeOK, Channels, Workers
<1>3. got[g] \o chan[g].queue \in Seq(Record)
  BY <1>2, ConcatProperties
<1> QED BY <1>1, <1>3 DEF Place, Pushed

(* The record at the goroutine's place is pushed.                             *)
LEMMA StreamPushes ==
    ASSUME NEW list \in Seq(Record), NEW skipped \in BOOLEAN, NEW f \in Nat, NEW n \in Nat,
           <<f, n>> \in Record, Stream(list, <<f, n>>, skipped)
    PROVE  Stream(Append(list, <<f, n>>), <<f, n + 1>>, skipped)
<1> DEFINE e == <<f, n>>
           l == Append(list, e)
<1>1. /\ l \in Seq(Record) /\ Len(l) = Len(list) + 1 /\ l[Len(list) + 1] = e
      /\ \A m \in 1 .. Len(list) : l[m] = list[m]
  BY AppendProperties
<1>2. /\ Len(list) \in Nat /\ DOMAIN list = 1 .. Len(list)
      /\ DOMAIN l = 1 .. Len(list) + 1
  BY <1>1, LenProperties
<1> HIDE DEF l
<1>3. \A m \in 1 .. Len(list) : Before(l[m], e)
  BY <1>1, <1>2 DEF Stream
<1>4. InOrder(l)
  <2> SUFFICES ASSUME NEW i \in DOMAIN l, NEW j \in DOMAIN l, i < j PROVE Before(l[i], l[j])
    BY DEF InOrder
  <2>0. i \in 1 .. Len(list)
    BY <1>2
  <2>1. CASE j = Len(list) + 1
    BY <1>1, <1>3, <2>0, <2>1
  <2>2. CASE j # Len(list) + 1
    <3>1. j \in 1 .. Len(list)
      BY <1>2, <2>2
    <3>2. Before(list[i], list[j])
      BY <1>2, <2>0, <3>1 DEF Stream, InOrder
    <3> QED BY <1>1, <2>0, <3>1, <3>2
  <2> QED BY <2>1, <2>2
<1>5. Before(e, <<f, n + 1>>)
  BY DEF Before
<1>6. ASSUME NEW m \in DOMAIN l PROVE Before(l[m], <<f, n + 1>>)
  <2>1. CASE m = Len(list) + 1
    BY <1>1, <1>5, <2>1
  <2>2. CASE m # Len(list) + 1
    <3>1. m \in 1 .. Len(list)
      BY <1>2, <2>2
    <3>2. l[m] \in Record /\ Before(l[m], e)
      <4>1. l[m] \in Record
        BY <1>1, ElementOfSeq, LenProperties
      <4>2. Before(l[m], e)
        BY <1>3, <3>1
      <4> QED BY <4>1, <4>2
    <3>3. l[m] \in Nat \X Nat
      BY <3>2, RecordPairs
    <3>4. e \in Nat \X Nat /\ <<f, n + 1>> \in Nat \X Nat
      OBVIOUS
    <3> QED BY <1>5, <3>2, <3>3, <3>4, BeforeOrder
  <2> QED BY <2>1, <2>2
<1>7. ASSUME ~skipped, NEW r \in Record, Before(r, <<f, n + 1>>) PROVE r \in ToSet(l)
  <2>1. r = <<r[1], r[2]>> /\ r[1] \in Nat /\ r[2] \in Nat
    BY RecordPairs
  <2>2. Before(r, e) \/ r = e
    BY <1>7, <2>1 DEF Before
  <2>3. CASE Before(r, e)
    <3>1. r \in ToSet(list)
      BY <1>7, <2>3 DEF Stream
    <3>2. PICK m \in 1 .. Len(list) : r = list[m]
      BY <1>2, <3>1 DEF ToSet
    <3> QED BY <1>1, <1>2, <3>2 DEF ToSet
  <2>4. CASE r = e
    BY <1>1, <1>2, <2>4 DEF ToSet
  <2> QED BY <2>2, <2>3, <2>4
<1> QED BY <1>4, <1>6, <1>7 DEF Stream, l

(* The rest of a file, if any, is skipped with an error.                      *)
LEMMA StreamSkips ==
    ASSUME NEW list \in Seq(Record), NEW skipped \in BOOLEAN, NEW f \in Nat, NEW n \in Nat,
           NEW more \in BOOLEAN, Stream(list, <<f, n>>, skipped), skipped => more,
           more \/ n > Files[f], f \in 1 .. Len(Files)
    PROVE  Stream(list, <<f + 1, 1>>, more)
<1>1. DOMAIN list = 1 .. Len(list) /\ \A m \in DOMAIN list : list[m] \in Record
  BY LenProperties, ElementOfSeq
<1>2. Before(<<f, n>>, <<f + 1, 1>>)
  BY DEF Before
<1>3. ASSUME NEW m \in DOMAIN list PROVE Before(list[m], <<f + 1, 1>>)
  <2>1. list[m] \in Nat \X Nat
    BY <1>1, RecordPairs
  <2>2. Before(list[m], <<f, n>>)
    BY DEF Stream
  <2>3. <<f, n>> \in Nat \X Nat /\ <<f + 1, 1>> \in Nat \X Nat
    OBVIOUS
  <2> QED BY <1>2, <2>1, <2>2, <2>3, BeforeOrder
<1>4. ASSUME ~more, NEW r \in Record, Before(r, <<f + 1, 1>>) PROVE r \in ToSet(list)
  <2>1. r[1] \in Nat /\ r[2] \in 1 .. Files[r[1]] /\ Files[f] \in Nat /\ r[2] \in Nat
    BY RecordPairs, FilesAssumption
  <2>2. r[1] < f \/ r[1] = f
    BY <1>4, <2>1 DEF Before
  <2>3. r[1] = f => r[2] < n
    BY <1>4, <2>1
  <2>4. Before(r, <<f, n>>)
    BY <2>2, <2>3 DEF Before
  <2> QED BY <1>4, <2>4 DEF Stream
<1> QED BY <1>3, <1>4 DEF Stream

(* The part that was received already is in order and has nothing left out.   *)
LEMMA StreamPrefix ==
    ASSUME NEW a \in Seq(Record), NEW q \in Seq(Record), NEW p \in Nat \X Nat,
           NEW skipped \in BOOLEAN, Stream(a \o q, p, skipped)
    PROVE  InOrder(a) /\ (~skipped => FromStart(a))
<1> DEFINE l == a \o q
<1>1. /\ l \in Seq(Record) /\ Len(l) = Len(a) + Len(q)
      /\ \A i \in 1 .. Len(a) + Len(q) : l[i] = IF i <= Len(a) THEN a[i] ELSE q[i - Len(a)]
  BY ConcatProperties
<1>2. /\ Len(a) \in Nat /\ Len(q) \in Nat /\ DOMAIN a = 1 .. Len(a)
      /\ DOMAIN l = 1 .. Len(a) + Len(q)
  BY <1>1, LenProperties
<1>3. \A i \in DOMAIN a : i \in DOMAIN l /\ l[i] = a[i]
  BY <1>1, <1>2
<1>4. Stream(l, p, skipped)
  OBVIOUS
<1> HIDE DEF l
<1>5. InOrder(a)
  BY <1>3, <1>4 DEF Stream, InOrder
<1>6. ASSUME ~skipped, NEW n \in DOMAIN a, NEW r \in Record, Before(r, a[n])
      PROVE  r \in ToSet(a)
  <2>1. a[n] \in Record /\ Before(a[n], p)
    BY <1>1, <1>2, <1>3, <1>4, <1>6, ElementOfSeq DEF Stream
  <2>2. r \in Nat \X Nat /\ a[n] \in Nat \X Nat
    BY <2>1, RecordPairs
  <2>3. Before(r, p)
    BY <1>6, <2>1, <2>2, BeforeOrder
  <2>4. r \in ToSet(l)
    BY <1>4, <1>6, <2>3 DEF Stream
  <2>5. PICK m \in DOMAIN l : r = l[m]
    BY <2>4 DEF ToSet
  <2>6. ~ Before(a[n], r)
    BY <1>6, <2>2, BeforeOrder
  <2>7. ~ (n < m)
    BY <1>3, <1>4, <2>5, <2>6 DEF Stream, InOrder
  <2>8. m \in DOMAIN a
    BY <1>2, <2>7
  <2> QED BY <1>3, <2>5, <2>8 DEF ToSet
<1> QED BY <1>5, <1>6 DEF FromStart

(* After the last file everything has been received.                          *)
LEMMA StreamWhole ==
    ASSUME TypeOK, NEW g \in Gens, WorkerAt(g), StreamAt(g), eof[g], ~lost[g]
    PROVE  ToSet(got[g]) = Record /\ Len(got[g]) = Total
<1>1. worker[g].file > Len(Files) /\ chan[g].queue = <<>>
  BY DEF WorkerAt
<1>2. got[g] \in Seq(Record)
  BY DEF TypeOK, Channels, Workers
<1>3. Pushed(g) = got[g]
  BY <1>1, <1>2, ConcatEmptySeq DEF Pushed
<1>4. Stream(got[g], Place(g), FALSE)
  <2>1. Stream(got[g], Place(g), lost[g])
    BY <1>3 DEF StreamAt
  <2> QED BY <2>1 DEF Stream
<1>5. ASSUME NEW r \in Record PROVE r \in ToSet(got[g])
  <2>1. r[1] \in 1 .. Len(Files) /\ Len(Files) \in Nat /\ worker[g].file \in Nat
    BY RecordPairs, FilesAssumption DEF TypeOK, Channels, Workers
  <2>2. Before(r, Place(g))
    BY <1>1, <2>1 DEF Before, Place
  <2> QED BY <1>4, <2>2 DEF Stream
<1>6. ToSet(got[g]) \subseteq Record
  BY <1>2, ElementOfSeq, LenProperties DEF ToSet
<1>7. ToSet(got[g]) = Record
  BY <1>5, <1>6
<1> QED BY <1>2, <1>4, <1>7, OrderedLength DEF Stream

-----------------------------------------------------------------------------
(* The goroutines *)

LEMMA AtKept ==
    ASSUME NEW h \in Gens, gen' = gen, worker'[h] = worker[h], chan'[h] = chan[h],
           got'[h] = got[h], eof'[h] = eof[h], lost'[h] = lost[h], WorkerAt(h), StreamAt(h)
    PROVE  WorkerAt(h)' /\ StreamAt(h)'
<1>1. WorkerAt(h)'
  BY DEF WorkerAt
<1>2. Pushed(h)' = Pushed(h) /\ Place(h)' = Place(h) /\ lost[h]' = lost[h]
  BY DEF Pushed, Place
<1>3. Stream(Pushed(h)', Place(h)', lost[h]')
  BY <1>2 DEF StreamAt
<1> QED BY <1>1, <1>3 DEF StreamAt, Stream, InOrder

LEMMA ErrorAdded ==
    ASSUME TypeOK, NoError \/ AddError
    PROVE  /\ errs' \in Nat /\ lost' \in [Gens -> BOOLEAN]
           /\ \A h \in Gens : (lost[h] => lost'[h]) /\ (h # gen => lost'[h] = lost[h])
           /\ (NoError => lost' = lost) /\ (AddError => lost'[gen])
<1>1. gen \in Gens /\ errs \in Nat /\ lost \in [Gens -> BOOLEAN]
  BY DEF TypeOK
<1>2. CASE NoError
  <2>1. errs' = errs /\ lost' = lost
    BY <1>2 DEF NoError
  <2> QED BY <1>1, <2>1 DEF AddError
<1>3. CASE AddError
  <2>1. errs' \in {errs, errs + 1} /\ lost' = [lost EXCEPT ![gen] = TRUE]
    BY <1>3 DEF AddError
  <2>2. lost'[gen] = TRUE /\ \A h \in Gens \ {gen} : lost'[h] = lost[h]
    BY <1>1, <2>1
  <2>3. lost' \in [Gens -> BOOLEAN] /\ errs' \in Nat
    BY <1>1, <2>1
  <2>4. \A h \in Gens : lost[h] => lost'[h]
    BY <1>1, <2>2
  <2>5. NoError => lost' = lost
    BY DEF NoError
  <2> QED BY <2>2, <2>3, <2>4, <2>5
<1> QED BY <1>2, <1>3

LEMMA CountedKept ==
    ASSUME TypeOK, raced => raced', \A h \in Gens : lost[h] => lost'[h]
    PROVE  Counted' => Counted
BY DEF Counted

(* A goroutine that goes on changes nothing of what is counted.               *)
LEMMA LengthKept ==
    ASSUME LengthInv, Counted' => Counted, UNCHANGED <<gen, pc, seen, length, got>>,
           worker'[gen].pc \in {"none", "begin"} <=> worker[gen].pc \in {"none", "begin"}
    PROVE  LengthInv'
BY DEF LengthInv, CountAt, Between

LEMMA CallsKept ==
    ASSUME CallInv, UNCHANGED <<gen, pc, counting, eof>>, worker'[gen].pc # "none"
    PROVE  CallInv'
BY DEF CallInv

LEMMA RecordFields ==
    ASSUME NEW P, NEW F, NEW N, NEW G, NEW w \in [pc : P, file : F, next : N, own : G, to : G]
    PROVE  /\ \A p \in P, g \in G :
                /\ [w EXCEPT !.pc = p, !.own = g] \in [pc : P, file : F, next : N, own : G, to : G]
                /\ [w EXCEPT !.pc = p, !.to = g] \in [pc : P, file : F, next : N, own : G, to : G]
           /\ \A f \in F, n \in N :
                [w EXCEPT !.file = f, !.next = n] \in [pc : P, file : F, next : N, own : G, to : G]
           /\ \A p \in P, n \in N :
                [w EXCEPT !.pc = p, !.next = n] \in [pc : P, file : F, next : N, own : G, to : G]
           /\ \A p \in P :
                [w EXCEPT !.pc = p] \in [pc : P, file : F, next : N, own : G, to : G]
OBVIOUS

(* What a goroutine may do with its registers.                                *)
LEMMA WorkerMoves ==
    ASSUME NEW w \in Workers
    PROVE  /\ \A g \in Gens : /\ [w EXCEPT !.pc = "read", !.own = g] \in Workers
                              /\ [w EXCEPT !.pc = "send", !.to = g] \in Workers
           /\ w.file <= Len(Files) => [w EXCEPT !.file = @ + 1, !.next = 1] \in Workers
           /\ [w EXCEPT !.pc = "read", !.next = @ + 1] \in Workers
           /\ \A p \in {"begin", "gone"} : [w EXCEPT !.pc = p] \in Workers
<1>1. Len(Files) \in Nat /\ w.file \in 1 .. Len(Files) + 1 /\ w.next \in Nat \ {0}
  BY FilesAssumption DEF Workers
<1>2. /\ w.file <= Len(Files) => w.file + 1 \in 1 .. Len(Files) + 1
      /\ w.next + 1 \in Nat \ {0} /\ 1 \in Nat \ {0}
  BY <1>1
<1>3. {"begin", "gone", "read", "send"} \subseteq {"none", "begin", "read", "send", "gone", "panic"}
  OBVIOUS
<1> QED BY <1>2, <1>3, RecordFields DEF Workers

LEMMA BeginRunStep ==
    ASSUME IInv, NEW g \in Gens, BeginRun(g) PROVE IInv'
<1>1. /\ worker[g].pc = "begin" /\ length' = 0 /\ gen \in Gens
      /\ worker' = [worker EXCEPT ![g] = [@ EXCEPT !.pc = "read", !.own = gen]]
      /\ UNCHANGED <<gen, chan, pc, seen, counting, errs, answer, got, eof, raced, lost>>
  BY DEF BeginRun, IInv, TypeOK
<1>2. TypeOK /\ WorkerAt(g) /\ StreamAt(g) /\ CallInv /\ LengthInv
  BY DEF IInv, ReadingInv
<1>3. g = gen
  BY <1>1, <1>2, ResetsAssumption DEF WorkerAt, Gens
<1>4. TypeOK'
  <2>1. [worker[g] EXCEPT !.pc = "read", !.own = gen] \in Workers
    BY <1>1, <1>2, WorkerMoves DEF TypeOK
  <2>2. worker' \in [Gens -> Workers]
    BY <1>1, <1>2, <2>1 DEF TypeOK
  <2> QED BY <1>1, <1>2, <2>2 DEF TypeOK
<1>5. /\ worker'[g].pc = "read" /\ worker'[g].own = g /\ worker'[g].file = worker[g].file
      /\ worker'[g].next = worker[g].next /\ \A h \in Gens \ {g} : worker'[h] = worker[h]
  BY <1>1, <1>2, <1>3 DEF TypeOK, Channels, Workers
<1>6. WorkerAt(g)'
  BY <1>1, <1>2, <1>3, <1>5, ResetsAssumption DEF WorkerAt, Gens
<1>7. StreamAt(g)'
  <2>1. Pushed(g)' = Pushed(g) /\ Place(g)' = Place(g) /\ lost[g]' = lost[g]
    BY <1>1, <1>5 DEF Pushed, Place
  <2>2. Stream(Pushed(g)', Place(g)', lost[g]')
    BY <1>2, <2>1 DEF StreamAt
  <2> QED BY <2>2 DEF StreamAt, Stream, InOrder
<1>8. ReadingInv'
  <2>1. ASSUME NEW h \in Gens PROVE WorkerAt(h)' /\ StreamAt(h)'
    BY <1>1, <1>5, <1>6, <1>7, AtKept DEF IInv, ReadingInv
  <2> QED BY <2>1 DEF ReadingInv
<1>9. CallInv'
  BY <1>1, <1>2, <1>3, <1>5, CallsKept
<1>10. LengthInv'
  <2>1. got[gen] = <<>> /\ length \in Nat
    BY <1>1, <1>2, <1>3 DEF WorkerAt, TypeOK
  <2>2. Len(got[gen]) = 0
    BY <2>1
  <2>3. Counted' => Counted
    BY <1>1 DEF Counted
  <2>4. Counted => \A c \in Consumers : pc[c] # "count"
    BY <1>2, <2>1, <2>2 DEF LengthInv, CountAt
  <2>5. Between'
    BY <1>1, <1>3, <1>5, <2>2 DEF Between
  <2> QED BY <1>1, <2>3, <2>4, <2>5 DEF LengthInv
<1> QED BY <1>4, <1>8, <1>9, <1>10 DEF IInv

LEMMA ReadStep ==
    ASSUME IInv, NEW g \in Gens, Read(g) PROVE IInv'
<1> DEFINE f == worker[g].file
           n == worker[g].next
<1>1. /\ worker[g].pc = "read" /\ f <= Len(Files)
      /\ UNCHANGED <<gen, chan, pc, seen, counting, length, answer, got, eof, raced>>
      /\ \/ /\ n <= Files[f] /\ NoError
            /\ worker' = [worker EXCEPT ![g] = [@ EXCEPT !.pc = "send", !.to = gen]]
         \/ /\ (NoError /\ n > Files[f]) \/ AddError
            /\ worker' = [worker EXCEPT ![g] = [@ EXCEPT !.file = f + 1, !.next = 1]]
  BY DEF Read
<1>2. TypeOK /\ WorkerAt(g) /\ StreamAt(g) /\ CallInv /\ LengthInv
  BY DEF IInv, ReadingInv
<1>3. g = gen /\ gen \in Gens
  BY <1>1, <1>2, ResetsAssumption DEF WorkerAt, Gens, TypeOK
<1>4. f \in 1 .. Len(Files) /\ n \in Nat \ {0} /\ Files[f] \in Nat /\ f \in Nat
  <2>1. Len(Files) \in Nat /\ worker[g] \in Workers
    BY <1>2, FilesAssumption DEF TypeOK
  <2>2. f \in 1 .. Len(Files) + 1 /\ n \in Nat \ {0}
    BY <2>1 DEF Workers
  <2>3. f \in 1 .. Len(Files)
    BY <1>1, <2>1, <2>2
  <2> QED BY <2>2, <2>3, FilesAssumption
<1>5. /\ worker' \in [Gens -> Workers] /\ worker'[g].own = worker[g].own
      /\ \A h \in Gens \ {g} : worker'[h] = worker[h]
      /\ \/ /\ worker'[g].pc = "send" /\ worker'[g].to = g /\ n <= Files[f] /\ NoError
            /\ worker'[g].file = f /\ worker'[g].next = n
         \/ /\ worker'[g].pc = "read" /\ ((NoError /\ n > Files[f]) \/ AddError)
            /\ worker'[g].file = f + 1 /\ worker'[g].next = 1
  <2> DEFINE sent == [worker[g] EXCEPT !.pc = "send", !.to = gen]
             over == [worker[g] EXCEPT !.file = @ + 1, !.next = 1]
  <2>1. worker \in [Gens -> Workers] /\ worker[g] \in Workers
    BY <1>2 DEF TypeOK
  <2>2. sent \in Workers /\ over \in Workers
    BY <1>1, <1>3, <2>1, WorkerMoves
  <2>3. /\ sent.pc = "send" /\ sent.to = g /\ sent.file = f /\ sent.next = n /\ sent.own = worker[g].own
        /\ over.pc = "read" /\ over.file = f + 1 /\ over.next = 1 /\ over.own = worker[g].own
    BY <1>1, <1>3, <2>1 DEF Workers
  <2>4. \/ n <= Files[f] /\ NoError /\ worker' = [worker EXCEPT ![g] = sent]
        \/ ((NoError /\ n > Files[f]) \/ AddError) /\ worker' = [worker EXCEPT ![g] = over]
    BY <1>1
  <2> HIDE DEF f, n, sent, over
  <2> QED BY <2>1, <2>2, <2>3, <2>4
<1> HIDE DEF f, n
<1>6. /\ errs' \in Nat /\ lost' \in [Gens -> BOOLEAN]
      /\ \A h \in Gens : (lost[h] => lost'[h]) /\ (h # g => lost'[h] = lost[h])
      /\ (NoError => lost' = lost) /\ (AddError => lost'[g])
  BY <1>1, <1>2, <1>3, ErrorAdded
<1>7. TypeOK'
  BY <1>1, <1>2, <1>5, <1>6 DEF TypeOK
<1>8. WorkerAt(g)'
  <2>1. n <= Files[f] => <<f, n>> \in Record
    BY <1>4, RecordPlaces
  <2>2. n <= Files[f] => <<worker'[g].file, worker'[g].next>> \in Record \/ worker'[g].pc = "read"
    BY <1>5, <2>1
  <2> QED BY <1>1, <1>2, <1>3, <1>5, <2>2, ResetsAssumption DEF WorkerAt, Gens
<1>9. StreamAt(g)'
  <2>1. Pushed(g) \in Seq(Record) /\ Pushed(g)' = Pushed(g) /\ Stream(Pushed(g), <<f, n>>, lost[g])
    BY <1>1, <1>2, PlacePair DEF StreamAt, Pushed, Place, f, n
  <2>2. lost[g] \in BOOLEAN /\ lost'[g] \in BOOLEAN /\ (lost[g] => lost'[g])
    BY <1>2, <1>6 DEF TypeOK, Channels, Workers
  <2>3. Stream(Pushed(g), Place(g)', lost[g]')
    <3>1. CASE worker'[g].file = f /\ worker'[g].next = n /\ NoError
      <4>1. Place(g)' = <<f, n>> /\ lost[g]' = lost[g]
        BY <1>6, <3>1 DEF Place
      <4> QED BY <2>1, <4>1
    <3>2. CASE worker'[g].file = f + 1 /\ worker'[g].next = 1 /\ ((NoError /\ n > Files[f]) \/ AddError)
      <4>1. Place(g)' = <<f + 1, 1>> /\ (lost'[g] \/ n > Files[f])
        BY <1>6, <3>2 DEF Place
      <4>2. Stream(Pushed(g), <<f + 1, 1>>, lost'[g])
        BY <1>4, <2>1, <2>2, <4>1, StreamSkips
      <4> QED BY <4>1, <4>2
    <3> QED BY <1>5, <3>1, <3>2
  <2> QED BY <2>1, <2>3 DEF StreamAt, Stream, InOrder
<1>10. ReadingInv'
  <2>1. ASSUME NEW h \in Gens PROVE WorkerAt(h)' /\ StreamAt(h)'
    BY <1>1, <1>5, <1>6, <1>8, <1>9, AtKept DEF IInv, ReadingInv
  <2> QED BY <2>1 DEF ReadingInv
<1>11. CallInv'
  BY <1>1, <1>2, <1>3, <1>5, CallsKept
<1>12. LengthInv'
  <2>1. Counted' => Counted
    BY <1>1, <1>2, <1>6, CountedKept
  <2> QED BY <1>1, <1>2, <1>3, <1>5, <2>1, LengthKept
<1> QED BY <1>7, <1>10, <1>11, <1>12 DEF IInv

(* What a channel goes through.                                               *)
LEMMA QueueMoves ==
    ASSUME TypeOK, NEW g \in Gens, NEW q \in Seq(Record), chan' = [chan EXCEPT ![g].queue = q]
    PROVE  /\ chan' \in [Gens -> Channels] /\ chan'[g].queue = q /\ chan'[g].closed = chan[g].closed
           /\ \A h \in Gens \ {g} : chan'[h] = chan[h]
<1> DEFINE Q == Seq(Record)
           c == [chan[g] EXCEPT !.queue = q]
<1>1. chan \in [Gens -> [queue : Q, closed : BOOLEAN]] /\ q \in Q
  BY DEF TypeOK, Channels
<1> HIDE DEF Q
<1>2. c \in [queue : Q, closed : BOOLEAN] /\ c.queue = q /\ c.closed = chan[g].closed
  BY <1>1
<1>3. chan' = [chan EXCEPT ![g] = c]
  OBVIOUS
<1> HIDE DEF c
<1> QED BY <1>1, <1>2, <1>3 DEF Channels, Q

LEMMA ClosedMoves ==
    ASSUME TypeOK, NEW g \in Gens, chan' = [chan EXCEPT ![g].closed = TRUE]
    PROVE  /\ chan' \in [Gens -> Channels] /\ chan'[g].queue = chan[g].queue /\ chan'[g].closed = TRUE
           /\ \A h \in Gens \ {g} : chan'[h] = chan[h]
<1> DEFINE Q == Seq(Record)
           c == [chan[g] EXCEPT !.closed = TRUE]
<1>1. chan \in [Gens -> [queue : Q, closed : BOOLEAN]]
  BY DEF TypeOK, Channels
<1> HIDE DEF Q
<1>2. c \in [queue : Q, closed : BOOLEAN] /\ c.queue = chan[g].queue /\ c.closed = TRUE
  BY <1>1
<1>3. chan' = [chan EXCEPT ![g] = c]
  OBVIOUS
<1> HIDE DEF c
<1> QED BY <1>1, <1>2, <1>3 DEF Channels, Q

LEMMA WorkerEnds ==
    ASSUME TypeOK, NEW g \in Gens, NEW p \in {"begin", "gone"}, worker' = [worker EXCEPT ![g].pc = p]
    PROVE  /\ worker' \in [Gens -> Workers] /\ worker'[g].pc = p
           /\ worker'[g].file = worker[g].file /\ worker'[g].next = worker[g].next
           /\ worker'[g].own = worker[g].own /\ worker'[g].to = worker[g].to
           /\ \A h \in Gens \ {g} : worker'[h] = worker[h]
<1> DEFINE w == [worker[g] EXCEPT !.pc = p]
<1>1. worker \in [Gens -> Workers] /\ worker[g] \in Workers
  BY DEF TypeOK
<1>2. w \in Workers
  BY <1>1, WorkerMoves
<1>3. /\ w.pc = p /\ w.file = worker[g].file /\ w.next = worker[g].next
      /\ w.own = worker[g].own /\ w.to = worker[g].to
  BY <1>1 DEF Workers
<1>4. worker' = [worker EXCEPT ![g] = w]
  OBVIOUS
<1> HIDE DEF w
<1> QED BY <1>1, <1>2, <1>3, <1>4

LEMMA PushStep ==
    ASSUME IInv, NEW g \in Gens, Push(g) PROVE IInv'
<1> DEFINE f == worker[g].file
           n == worker[g].next
           queue == Append(chan[g].queue, <<f, n>>)
<1>1. TypeOK /\ WorkerAt(g) /\ StreamAt(g) /\ CallInv /\ LengthInv
  BY DEF IInv, ReadingInv
<1>2. worker[g].pc = "send" /\ worker[g].to = g /\ ~chan[g].closed /\ <<f, n>> \in Record
  BY <1>1 DEF Push, WorkerAt
<1>3. /\ UNCHANGED <<gen, pc, seen, counting, length, errs, answer, got, eof, raced, lost>>
      /\ chan' = [chan EXCEPT ![g].queue = queue]
      /\ worker' = [worker EXCEPT ![g] = [@ EXCEPT !.pc = "read", !.next = n + 1]]
  BY <1>2 DEF Push
<1>4. g = gen /\ gen \in Gens
  BY <1>1, <1>2, ResetsAssumption DEF WorkerAt, Gens, TypeOK
<1>5. chan[g].queue \in Seq(Record) /\ got[g] \in Seq(Record) /\ queue \in Seq(Record)
  BY <1>1, <1>2, AppendProperties DEF TypeOK, Channels
<1>6. /\ chan' \in [Gens -> Channels] /\ chan'[g].queue = queue /\ chan'[g].closed = chan[g].closed
      /\ \A h \in Gens \ {g} : chan'[h] = chan[h]
  BY <1>3, <1>1, <1>5, QueueMoves
<1>7. /\ worker' \in [Gens -> Workers] /\ worker'[g].pc = "read" /\ worker'[g].own = worker[g].own
      /\ worker'[g].file = f /\ worker'[g].next = n + 1
      /\ \A h \in Gens \ {g} : worker'[h] = worker[h]
  <2> DEFINE w == [worker[g] EXCEPT !.pc = "read", !.next = n + 1]
  <2>1. worker \in [Gens -> Workers] /\ worker[g] \in Workers
    BY <1>1 DEF TypeOK
  <2>2. w \in Workers
    BY <2>1, WorkerMoves
  <2>3. w.pc = "read" /\ w.own = worker[g].own /\ w.file = f /\ w.next = n + 1
    BY <2>1 DEF Workers
  <2>4. worker' = [worker EXCEPT ![g] = w]
    BY <1>3
  <2> HIDE DEF w
  <2> QED BY <2>1, <2>2, <2>3, <2>4
<1>8. f \in Nat /\ n \in Nat
  BY <1>1, FilesAssumption DEF TypeOK, Workers
<1> HIDE DEF queue
<1>9. TypeOK'
  BY <1>3, <1>1, <1>6, <1>7 DEF TypeOK
<1>10. WorkerAt(g)'
  BY <1>3, <1>1, <1>2, <1>4, <1>6, <1>7, ResetsAssumption DEF WorkerAt, Gens
<1>11. StreamAt(g)'
  <2>1. Stream(Pushed(g), <<f, n>>, lost[g]) /\ lost[g] \in BOOLEAN /\ Pushed(g) \in Seq(Record)
    BY <1>1, PlacePair DEF StreamAt, Place, TypeOK
  <2> HIDE DEF f, n
  <2>2. Stream(Append(Pushed(g), <<f, n>>), <<f, n + 1>>, lost[g])
    BY <1>2, <1>8, <2>1, StreamPushes
  <2>3. Pushed(g)' = Append(Pushed(g), <<f, n>>)
    <3> DEFINE e == <<f, n>>
    <3>1. e \in Record /\ chan[g].queue \in Seq(Record) /\ got[g] \in Seq(Record)
      BY <1>2, <1>5
    <3> HIDE DEF e
    <3>2. got[g] \o Append(chan[g].queue, e) = Append(got[g] \o chan[g].queue, e)
      BY <3>1, TailGrows
    <3> QED BY <1>3, <1>6, <3>2 DEF Pushed, queue, e
  <2>4. Place(g)' = <<f, n + 1>> /\ lost[g]' = lost[g]
    BY <1>3, <1>7 DEF Place
  <2>5. Stream(Pushed(g)', Place(g)', lost[g]')
    BY <2>2, <2>3, <2>4
  <2> QED BY <2>5 DEF StreamAt, Stream, InOrder
<1>12. ReadingInv'
  <2>1. ASSUME NEW h \in Gens PROVE WorkerAt(h)' /\ StreamAt(h)'
    BY <1>3, <1>6, <1>7, <1>10, <1>11, AtKept DEF IInv, ReadingInv
  <2> QED BY <2>1 DEF ReadingInv
<1>13. CallInv'
  BY <1>3, <1>1, <1>4, <1>7, CallsKept
<1>14. LengthInv'
  <2>1. Counted' => Counted
    BY <1>3 DEF Counted
  <2> QED BY <1>3, <1>1, <1>2, <1>4, <1>7, <2>1, LengthKept
<1> QED BY <1>9, <1>12, <1>13, <1>14 DEF IInv

LEMMA EndRunStep ==
    ASSUME IInv, NEW g \in Gens, EndRun(g) PROVE IInv'
<1>1. TypeOK /\ WorkerAt(g) /\ StreamAt(g) /\ CallInv /\ LengthInv
  BY DEF IInv, ReadingInv
<1>2. worker[g].pc = "read" /\ worker[g].own = g /\ ~chan[g].closed /\ worker[g].file > Len(Files)
  BY <1>1 DEF EndRun, WorkerAt
<1>3. /\ UNCHANGED <<gen, pc, seen, counting, length, errs, answer, got, eof, raced, lost>>
      /\ chan' = [chan EXCEPT ![g].closed = TRUE]
      /\ worker' = [worker EXCEPT ![g].pc = "gone"]
  BY <1>2 DEF EndRun
<1>4. g = gen /\ gen \in Gens
  BY <1>1, <1>2, ResetsAssumption DEF WorkerAt, Gens, TypeOK
<1>5. /\ chan' \in [Gens -> Channels] /\ chan'[g].queue = chan[g].queue /\ chan'[g].closed = TRUE
      /\ \A h \in Gens \ {g} : chan'[h] = chan[h]
  BY <1>3, <1>1, ClosedMoves
<1>6. /\ worker' \in [Gens -> Workers] /\ worker'[g].pc = "gone" /\ worker'[g].own = worker[g].own
      /\ worker'[g].file = worker[g].file /\ worker'[g].next = worker[g].next
      /\ \A h \in Gens \ {g} : worker'[h] = worker[h]
  BY <1>3, <1>1, WorkerEnds
<1>7. TypeOK'
  BY <1>3, <1>1, <1>5, <1>6 DEF TypeOK
<1>8. WorkerAt(g)'
  BY <1>3, <1>1, <1>2, <1>4, <1>5, <1>6, ResetsAssumption DEF WorkerAt, Gens
<1>9. StreamAt(g)'
  <2>1. Pushed(g)' = Pushed(g) /\ Place(g)' = Place(g) /\ lost[g]' = lost[g]
    BY <1>3, <1>5, <1>6 DEF Pushed, Place
  <2>2. Stream(Pushed(g)', Place(g)', lost[g]')
    BY <1>1, <2>1 DEF StreamAt
  <2> QED BY <2>2 DEF StreamAt, Stream, InOrder
<1>10. ReadingInv'
  <2>1. ASSUME NEW h \in Gens PROVE WorkerAt(h)' /\ StreamAt(h)'
    BY <1>3, <1>5, <1>6, <1>8, <1>9, AtKept DEF IInv, ReadingInv
  <2> QED BY <2>1 DEF ReadingInv
<1>11. CallInv'
  BY <1>3, <1>1, <1>4, <1>6, CallsKept
<1>12. LengthInv'
  <2>1. Counted' => Counted
    BY <1>3 DEF Counted
  <2> QED BY <1>3, <1>1, <1>2, <1>4, <1>6, <2>1, LengthKept
<1> QED BY <1>7, <1>10, <1>11, <1>12 DEF IInv

-----------------------------------------------------------------------------
(* The consumers.  Most steps leave the generations alone.                    *)

LEMMA ReadingKept ==
    ASSUME ReadingInv, UNCHANGED <<gen, chan, worker, got, eof, lost>>
    PROVE  ReadingInv'
<1>1. ASSUME NEW h \in Gens PROVE WorkerAt(h)' /\ StreamAt(h)'
  BY <1>1, AtKept DEF ReadingInv
<1> QED BY <1>1 DEF ReadingInv

LEMMA CallStep ==
    ASSUME IInv, NEW c \in Consumers, Call(c) PROVE IInv'
<1>1. /\ pc[c] = "idle" /\ counting \in {Nobody, c} /\ pc' = [pc EXCEPT ![c] = "recv"]
      /\ UNCHANGED <<gen, chan, seen, counting, length, errs, answer, got, eof, raced, lost>>
  BY DEF Call, MayCall
<1>2. TypeOK /\ ReadingInv /\ CallInv /\ LengthInv /\ gen \in Gens
  BY DEF IInv, TypeOK
<1>3. /\ worker' \in [Gens -> Workers] /\ worker'[gen].pc # "none"
      /\ worker'[gen].pc = worker[gen].pc \/ (worker[gen].pc = "none" /\ worker'[gen].pc = "begin")
      /\ worker'[gen].file = worker[gen].file /\ worker'[gen].next = worker[gen].next
      /\ worker'[gen].own = worker[gen].own /\ worker'[gen].to = worker[gen].to
      /\ \A h \in Gens \ {gen} : worker'[h] = worker[h]
  <2>1. CASE worker[gen].pc = "none"
    <3>1. worker' = [worker EXCEPT ![gen].pc = "begin"]
      BY <2>1 DEF Call
    <3> QED BY <1>2, <2>1, <3>1, WorkerEnds
  <2>2. CASE worker[gen].pc # "none"
    <3>1. worker' = worker
      BY <2>2 DEF Call
    <3> QED BY <1>2, <2>2, <3>1 DEF TypeOK
  <2> QED BY <2>1, <2>2
<1>4. TypeOK'
  <2>1. pc' \in [Consumers -> {"idle", "recv", "count", "eof", "error"}]
    BY <1>1, <1>2 DEF TypeOK
  <2> QED BY <1>1, <1>2, <1>3, <2>1 DEF TypeOK
<1>5. ReadingInv'
  <2>1. WorkerAt(gen) /\ StreamAt(gen)
    BY <1>2 DEF ReadingInv
  <2>2. ASSUME NEW h \in Gens PROVE WorkerAt(h)' /\ StreamAt(h)'
    <3>1. CASE h = gen
      <4>1. WorkerAt(h)'
        <5>1. gen' = gen /\ chan' = chan /\ got' = got /\ eof' = eof
          BY <1>1
        <5>2. CASE worker'[gen].pc = worker[gen].pc
          BY ONLY <1>3, <2>1, <3>1, <5>1, <5>2 DEF WorkerAt
        <5>3. CASE worker[gen].pc = "none" /\ worker'[gen].pc = "begin"
          BY ONLY <1>3, <2>1, <3>1, <5>1, <5>3 DEF WorkerAt
        <5> QED BY <1>3, <5>2, <5>3
      <4>2. Pushed(h)' = Pushed(h) /\ Place(h)' = Place(h) /\ lost[h]' = lost[h]
        BY <1>1, <1>3, <3>1 DEF Pushed, Place
      <4>3. Stream(Pushed(h)', Place(h)', lost[h]')
        BY <2>1, <3>1, <4>2 DEF StreamAt
      <4> QED BY <4>1, <4>3 DEF StreamAt, Stream, InOrder
    <3>2. CASE h # gen
      BY <1>1, <1>2, <1>3, <3>2, AtKept DEF ReadingInv
    <3> QED BY <3>1, <3>2
  <2> QED BY <2>2 DEF ReadingInv
<1>6. CallInv'
  BY <1>1, <1>2, <1>3, ConsumersAssumption DEF CallInv, TypeOK
<1>7. LengthInv'
  <2>1. Counted' => Counted
    BY <1>1 DEF Counted
  <2>2. \A d \in Consumers : pc'[d] = "count" <=> pc[d] = "count"
    BY <1>1, <1>2 DEF TypeOK
  <2>3. Between' <=> Between
    BY <1>1, <1>3 DEF Between
  <2> QED BY <1>1, <1>2, <2>1, <2>2, <2>3 DEF LengthInv, CountAt
<1> QED BY <1>4, <1>5, <1>6, <1>7 DEF IInv

LEMMA ReceiveStep ==
    ASSUME IInv, NEW c \in Consumers, Receive(c) PROVE IInv'
<1> DEFINE queue == chan[gen].queue
<1>1. /\ pc[c] = "recv" /\ queue # <<>>
      /\ chan' = [chan EXCEPT ![gen].queue = Tail(queue)]
      /\ got' = [got EXCEPT ![gen] = Append(@, Head(queue))]
      /\ UNCHANGED <<gen, worker, counting, length, answer, eof>>
      /\ \/ /\ pc' = [pc EXCEPT ![c] = "count"] /\ seen' = [seen EXCEPT ![c] = length]
            /\ raced' = (raced \/ \E d \in Consumers : pc[d] = "count") /\ NoError
         \/ AddError /\ pc' = [pc EXCEPT ![c] = "error"] /\ UNCHANGED <<seen, raced>>
  BY DEF Receive
<1>2. TypeOK /\ ReadingInv /\ CallInv /\ LengthInv /\ gen \in Gens
  BY DEF IInv, TypeOK
<1>3. WorkerAt(gen) /\ StreamAt(gen)
  BY <1>2 DEF ReadingInv
<1>4. /\ queue \in Seq(Record) /\ Tail(queue) \in Seq(Record) /\ Head(queue) \in Record
      /\ got[gen] \in Seq(Record) /\ Append(got[gen], Head(queue)) \in Seq(Record)
      /\ Len(Append(got[gen], Head(queue))) = Len(got[gen]) + 1 /\ Len(got[gen]) \in Nat
  <2>1. queue \in Seq(Record) /\ got[gen] \in Seq(Record)
    BY <1>2 DEF TypeOK, Channels
  <2>2. Tail(queue) \in Seq(Record) /\ Head(queue) \in Record
    BY <1>1, <2>1, HeadTailProperties
  <2> QED BY <2>1, <2>2, AppendProperties, LenProperties
<1>5. /\ chan' \in [Gens -> Channels] /\ chan'[gen].queue = Tail(queue)
      /\ chan'[gen].closed = chan[gen].closed
      /\ \A h \in Gens \ {gen} : chan'[h] = chan[h]
  BY <1>1, <1>2, <1>4, QueueMoves
<1>6. /\ got' \in [Gens -> Seq(Record)] /\ got'[gen] = Append(got[gen], Head(queue))
      /\ \A h \in Gens \ {gen} : got'[h] = got[h]
  <2>1. got \in [Gens -> Seq(Record)]
    BY <1>2 DEF TypeOK
  <2> QED BY <1>1, <1>2, <1>4, <2>1
<1>7. /\ errs' \in Nat /\ lost' \in [Gens -> BOOLEAN]
      /\ \A h \in Gens : (lost[h] => lost'[h]) /\ (h # gen => lost'[h] = lost[h])
      /\ (NoError => lost' = lost) /\ (AddError => lost'[gen])
  BY <1>1, <1>2, ErrorAdded
<1>8. worker[gen].pc \notin {"none", "begin"} /\ ~eof[gen]
  BY <1>1, <1>3 DEF WorkerAt
<1> HIDE DEF queue
<1>9. TypeOK'
  <2>1. pc \in [Consumers -> {"idle", "recv", "count", "eof", "error"}] /\ seen \in [Consumers -> Nat]
        /\ length \in Nat /\ raced \in BOOLEAN
    BY <1>2 DEF TypeOK
  <2>2. pc' \in [Consumers -> {"idle", "recv", "count", "eof", "error"}]
    BY <1>1, <2>1
  <2>3. seen' \in [Consumers -> Nat]
    BY <1>1, <2>1
  <2>4. raced' \in BOOLEAN
    BY <1>1, <2>1
  <2> QED BY <1>1, <1>2, <1>5, <1>6, <1>7, <2>2, <2>3, <2>4 DEF TypeOK
<1>10. ReadingInv'
  <2>1. ASSUME NEW h \in Gens PROVE WorkerAt(h)' /\ StreamAt(h)'
    <3>1. CASE h = gen
      <4>1. WorkerAt(h)'
        BY <1>1, <1>3, <1>5, <1>6, <1>8, <3>1 DEF WorkerAt
      <4>2. Append(got[gen], Head(queue)) \o Tail(queue) = got[gen] \o queue
        BY <1>1, <1>4, HeadMoves
      <4>3. Pushed(h)' = Pushed(h) /\ Place(h)' = Place(h)
        BY <1>1, <1>5, <1>6, <3>1, <4>2 DEF Pushed, Place, queue
      <4>4. Stream(Pushed(h)', Place(h)', lost[h])
        BY <1>3, <3>1, <4>3 DEF StreamAt
      <4>5. Stream(Pushed(h)', Place(h)', lost[h]')
        BY <1>7, <4>4 DEF Stream
      <4> QED BY <4>1, <4>5 DEF StreamAt, Stream, InOrder
    <3>2. CASE h # gen
      BY <1>1, <1>2, <1>5, <1>6, <1>7, <3>2, AtKept DEF ReadingInv
    <3> QED BY <3>1, <3>2
  <2> QED BY <2>1 DEF ReadingInv
<1>11. CallInv'
  <2>1. pc \in [Consumers -> {"idle", "recv", "count", "eof", "error"}]
    BY <1>2 DEF TypeOK
  <2>2. pc'[c] \in {"count", "error"} /\ \A d \in Consumers \ {c} : pc'[d] = pc[d]
    BY <1>1, <2>1
  <2> QED BY <1>1, <1>2, <2>2 DEF CallInv
<1>12. LengthInv'
  <2> SUFFICES ASSUME Counted'
               PROVE  /\ \A d \in Consumers : pc'[d] = "count" => CountAt(d)'
                      /\ \E d \in Consumers : pc'[d] = "count"
    BY DEF LengthInv
  <2>0. raced \in BOOLEAN /\ (raced => raced')
    BY <1>1, <1>2 DEF TypeOK
  <2>1. Counted
    BY <1>2, <1>7, <2>0, CountedKept
  <2>2. NoError
    BY <1>1, <1>2, <1>7 DEF Counted
  <2>3. ~AddError
    BY <1>2, <1>7 DEF Counted
  <2>4. /\ pc' = [pc EXCEPT ![c] = "count"] /\ seen' = [seen EXCEPT ![c] = length]
        /\ \A d \in Consumers : pc[d] # "count"
    BY <1>1, <2>3 DEF Counted
  <2>5. length = Len(got[gen])
    BY <1>2, <1>8, <2>1, <2>4 DEF LengthInv, Between
  <2>6. pc \in [Consumers -> {"idle", "recv", "count", "eof", "error"}] /\ seen \in [Consumers -> Nat]
    BY <1>2 DEF TypeOK
  <2>7. pc'[c] = "count" /\ seen'[c] = length /\ \A d \in Consumers \ {c} : pc'[d] # "count"
    BY <2>4, <2>6
  <2>8. length' = length /\ Len(got'[gen']) = length' + 1
    BY <1>1, <1>4, <1>6, <2>5
  <2> QED BY <2>7, <2>8 DEF CountAt
<1> QED BY <1>9, <1>10, <1>11, <1>12 DEF IInv

LEMMA CountStep ==
    ASSUME IInv, NEW c \in Consumers, Count(c) PROVE IInv'
<1>1. /\ pc[c] = "count" /\ length' = seen[c] + 1 /\ pc' = [pc EXCEPT ![c] = "idle"]
      /\ UNCHANGED <<gen, chan, worker, seen, counting, errs, answer, got, eof, raced, lost>>
  BY DEF Count
<1>2. TypeOK /\ ReadingInv /\ CallInv /\ LengthInv /\ gen \in Gens
  BY DEF IInv, TypeOK
<1>3. pc'[c] = "idle" /\ \A d \in Consumers \ {c} : pc'[d] = pc[d]
  BY <1>1, <1>2 DEF TypeOK
<1>4. TypeOK'
  <2>1. pc' \in [Consumers -> {"idle", "recv", "count", "eof", "error"}] /\ length' \in Nat
    BY <1>1, <1>2 DEF TypeOK
  <2> QED BY <1>1, <1>2, <2>1 DEF TypeOK
<1>5. ReadingInv'
  BY <1>1, <1>2, ReadingKept
<1>6. CallInv'
  BY <1>1, <1>2, <1>3 DEF CallInv
<1>7. LengthInv'
  <2> SUFFICES ASSUME Counted'
               PROVE  (\A d \in Consumers : pc'[d] # "count") /\ Between'
    BY DEF LengthInv
  <2>1. Counted
    BY <1>1 DEF Counted
  <2>2. CountAt(c)
    BY <1>1, <1>2, <2>1 DEF LengthInv
  <2>3. length \in Nat /\ WorkerAt(gen)
    BY <1>2 DEF TypeOK, ReadingInv
  <2>4. Len(got[gen]) # 0 /\ length' = Len(got[gen])
    BY <1>1, <2>2, <2>3 DEF CountAt
  <2>5. got[gen] # <<>>
    BY <2>4
  <2>6. worker[gen].pc \notin {"none", "begin"}
    BY <2>3, <2>5 DEF WorkerAt
  <2>7. Between'
    BY <1>1, <2>4, <2>6 DEF Between
  <2> QED BY <1>3, <2>2, <2>7 DEF CountAt
<1> QED BY <1>4, <1>5, <1>6, <1>7 DEF IInv

(* The steps that change the place of a consumer that is not counting.        *)
LEMMA PlaceStep ==
    ASSUME IInv, NEW c \in Consumers, NEW p \in {"idle", "eof"},
           pc[c] # "count", pc' = [pc EXCEPT ![c] = p],
           UNCHANGED <<gen, chan, worker, seen, counting, length, errs, answer, got, raced, lost>>,
           IF p = "eof" THEN EndOfFile(c) ELSE eof' = eof
    PROVE  IInv'
<1>1. TypeOK /\ ReadingInv /\ CallInv /\ LengthInv /\ gen \in Gens
  BY DEF IInv, TypeOK
<1>2. pc'[c] = p /\ \A d \in Consumers \ {c} : pc'[d] = pc[d]
  BY <1>1 DEF TypeOK
<1>3. eof' \in [Gens -> BOOLEAN] /\ \A h \in Gens : eof'[h] => eof[h] \/ (h = gen /\ p = "eof")
  BY <1>1 DEF EndOfFile, TypeOK
<1>4. TypeOK'
  <2>1. pc' \in [Consumers -> {"idle", "recv", "count", "eof", "error"}]
    BY <1>1 DEF TypeOK
  <2> QED BY <1>1, <1>3, <2>1 DEF TypeOK
<1>5. ReadingInv'
  <2>1. ASSUME NEW h \in Gens PROVE WorkerAt(h)' /\ StreamAt(h)'
    <3>1. WorkerAt(h) /\ StreamAt(h)
      BY <1>1 DEF ReadingInv
    <3>2. eof'[h] => worker[h].pc = "gone" /\ chan[h].queue = <<>>
      BY <1>3, <3>1 DEF WorkerAt, EndOfFile
    <3>3. WorkerAt(h)'
      BY <3>1, <3>2 DEF WorkerAt
    <3>4. Pushed(h)' = Pushed(h) /\ Place(h)' = Place(h) /\ lost[h]' = lost[h]
      BY DEF Pushed, Place
    <3>5. Stream(Pushed(h)', Place(h)', lost[h]')
      BY <3>1, <3>4 DEF StreamAt
    <3> QED BY <3>3, <3>5 DEF StreamAt, Stream, InOrder
  <2> QED BY <2>1 DEF ReadingInv
<1>6. CallInv'
  <2>1. \A d \in Consumers : pc'[d] = "eof" => eof'[gen]
    <3>1. CASE p = "eof"
      BY <1>1, <3>1 DEF EndOfFile, TypeOK
    <3>2. CASE p = "idle"
      BY <1>1, <1>2, <3>2 DEF CallInv
    <3> QED BY <3>1, <3>2
  <2>2. \A d, e \in Consumers : counting = d /\ e # d => pc'[e] = "idle"
    <3>1. \A d, e \in Consumers : counting = d /\ e # d => pc[e] = "idle"
      BY <1>1 DEF CallInv
    <3>2. p = "eof" => pc[c] # "idle"
      BY DEF EndOfFile
    <3> QED BY <1>2, <3>1, <3>2
  <2> QED BY <1>1, <1>2, <2>1, <2>2 DEF CallInv
<1>7. LengthInv'
  <2>1. Counted' => Counted
    BY DEF Counted
  <2>2. \A d \in Consumers : pc'[d] = "count" <=> pc[d] = "count"
    BY <1>2
  <2>3. Between' <=> Between
    BY DEF Between
  <2> QED BY <1>1, <2>1, <2>2, <2>3 DEF LengthInv, CountAt
<1> QED BY <1>4, <1>5, <1>6, <1>7 DEF IInv

-----------------------------------------------------------------------------
(* Reset and Length *)

(* What a drained reader has counted, or an unread one was left with.         *)
LEMMA FreshLength ==
    ASSUME IInv, Counted, worker[gen].pc = "none" \/ eof[gen], \A c \in Consumers : pc[c] # "count"
    PROVE  length \in {0, Total} /\ (eof[gen] => length = Total)
<1>1. TypeOK /\ WorkerAt(gen) /\ StreamAt(gen) /\ Between /\ gen \in Gens /\ ~lost[gen]
  BY DEF IInv, TypeOK, ReadingInv, LengthInv, Counted
<1>2. CASE eof[gen]
  <2>1. Len(got[gen]) = Total
    BY <1>1, <1>2, StreamWhole
  <2> QED BY <1>1, <1>2, <2>1 DEF WorkerAt, Between
<1>3. CASE worker[gen].pc = "none" /\ ~eof[gen]
  BY <1>1, <1>3 DEF Between
<1> QED BY <1>2, <1>3

LEMMA NextGeneration ==
    ASSUME IInv, gen < MaxResets, gen' = gen + 1, worker[gen].pc \in {"none", "gone"},
           UNCHANGED <<chan, worker, got, eof, lost>>
    PROVE  gen' \in Gens /\ worker'[gen'].pc = "none" /\ ReadingInv'
<1>1. gen \in Gens /\ gen' \in Gens /\ ReadingInv
  BY ResetsAssumption DEF IInv, TypeOK, Gens
<1>2. ASSUME NEW h \in Gens PROVE WorkerAt(h)' /\ StreamAt(h)'
  <2>1. WorkerAt(h) /\ StreamAt(h) /\ (h < gen + 1 <=> h < gen \/ h = gen) /\ (h > gen + 1 => h > gen)
    BY <1>1, ResetsAssumption DEF ReadingInv, Gens
  <2>2. WorkerAt(h)'
    BY <2>1 DEF WorkerAt
  <2>3. Pushed(h)' = Pushed(h) /\ Place(h)' = Place(h) /\ lost[h]' = lost[h]
    BY DEF Pushed, Place
  <2>4. Stream(Pushed(h)', Place(h)', lost[h]')
    BY <2>1, <2>3 DEF StreamAt
  <2> QED BY <2>2, <2>4 DEF StreamAt, Stream, InOrder
<1>3. gen' > gen
  BY <1>1 DEF Gens
<1>4. worker[gen'].pc = "none"
  BY <1>1, <1>3 DEF ReadingInv, WorkerAt
<1> QED BY <1>1, <1>2, <1>4 DEF ReadingInv

LEMMA ResetStep ==
    ASSUME Careful, IInv, Reset PROVE IInv'
<1>1. /\ counting = Nobody /\ (\A c \in Consumers : pc[c] = "idle") /\ gen < MaxResets
      /\ worker[gen].pc = "none" \/ eof[gen]
      /\ gen' = gen + 1
      /\ UNCHANGED <<chan, worker, pc, seen, counting, length, errs, answer, got, eof, raced, lost>>
  BY DEF Reset, Quiet, Fresh
<1>2. worker[gen].pc \in {"none", "gone"}
  BY <1>1 DEF IInv, TypeOK, ReadingInv, WorkerAt
<1>3. gen' \in Gens /\ worker'[gen'].pc = "none" /\ ReadingInv'
  BY <1>1, <1>2, NextGeneration
<1>4. TypeOK'
  BY <1>1, <1>3 DEF IInv, TypeOK
<1>5. CallInv'
  BY <1>1 DEF CallInv
<1>6. LengthInv'
  <2>1. Counted => length \in {0, Total}
    BY <1>1, FreshLength
  <2>2. Counted' => Counted
    BY <1>1 DEF Counted
  <2>3. Counted' => Between'
    BY <1>1, <1>3, <2>1, <2>2 DEF Between
  <2> QED BY <1>1, <2>3 DEF LengthInv
<1> QED BY <1>3, <1>4, <1>5, <1>6 DEF IInv

LEMMA LengthEndsStep ==
    ASSUME IInv, NEW c \in Consumers, LengthEnds(c)
    PROVE  IInv' /\ (Counted => answer' \in {-1, Total})
<1>1. /\ counting = c /\ pc[c] = "eof" /\ pc' = [pc EXCEPT ![c] = "idle"]
      /\ counting' = Nobody /\ gen' = gen + 1
      /\ answer' = IF errs > 0 THEN -1 ELSE length
      /\ errs' = IF errs > 0 THEN errs - 1 ELSE 0
      /\ UNCHANGED <<chan, worker, seen, length, got, eof, raced, lost>>
  BY DEF LengthEnds
<1>2. TypeOK /\ CallInv /\ ReadingInv /\ gen \in Gens
  BY DEF IInv, TypeOK
<1>3. eof[gen] /\ gen < MaxResets /\ \A d \in Consumers \ {c} : pc[d] = "idle"
  BY <1>1, <1>2, ConsumersAssumption DEF CallInv
<1>4. worker[gen].pc \in {"none", "gone"}
  BY <1>2, <1>3 DEF ReadingInv, WorkerAt
<1>5. gen' \in Gens /\ worker'[gen'].pc = "none" /\ ReadingInv'
  BY <1>1, <1>3, <1>4, NextGeneration
<1>6. pc' \in [Consumers -> {"idle", "recv", "count", "eof", "error"}] /\ \A d \in Consumers : pc'[d] = "idle"
  BY <1>1, <1>2, <1>3 DEF TypeOK
<1>7. TypeOK'
  <2>1. errs' \in Nat /\ answer' \in Nat \cup {-1}
    BY <1>1, <1>2 DEF TypeOK
  <2> QED BY <1>1, <1>2, <1>5, <1>6, <2>1 DEF TypeOK
<1>8. CallInv'
  BY <1>1, <1>6, ConsumersAssumption DEF CallInv
<1>9. Counted => length = Total
  BY <1>1, <1>3, FreshLength
<1>10. LengthInv'
  <2>1. Counted' => Counted
    BY <1>1 DEF Counted
  <2>2. Counted' => Between'
    BY <1>1, <1>5, <1>9, <2>1 DEF Between
  <2> QED BY <1>6, <2>2 DEF LengthInv
<1> QED BY <1>1, <1>5, <1>7, <1>8, <1>9, <1>10 DEF IInv

LEMMA LengthCachedStep ==
    ASSUME Careful, IInv, LengthCached
    PROVE  IInv' /\ (Counted => answer' \in {-1, Total})
<1>1. /\ (\A c \in Consumers : pc[c] = "idle") /\ length # 0 /\ answer' = length
      /\ worker[gen].pc = "none" \/ eof[gen]
      /\ UNCHANGED <<gen, chan, worker, pc, seen, counting, length, errs, got, eof, raced, lost>>
  BY DEF LengthCached, Quiet, Fresh
<1>2. Counted => length = Total
  BY <1>1, FreshLength
<1>3. TypeOK'
  BY <1>1 DEF IInv, TypeOK
<1>4. ReadingInv'
  BY <1>1, ReadingKept DEF IInv
<1>5. CallInv' /\ LengthInv'
  BY <1>1 DEF IInv, CallInv, LengthInv, Counted, CountAt, Between
<1> QED BY <1>1, <1>2, <1>3, <1>4, <1>5 DEF IInv

LEMMA LengthBeginsStep ==
    ASSUME IInv, NEW c \in Consumers, LengthBegins(c) PROVE IInv'
<1>1. /\ (\A d \in Consumers : pc[d] = "idle") /\ gen < MaxResets /\ counting' = c
      /\ UNCHANGED <<gen, chan, worker, pc, seen, length, errs, answer, got, eof, raced, lost>>
  BY DEF LengthBegins, Quiet
<1>2. TypeOK'
  BY <1>1 DEF IInv, TypeOK
<1>3. ReadingInv'
  BY <1>1, ReadingKept DEF IInv
<1>4. CallInv'
  BY <1>1 DEF CallInv
<1>5. LengthInv'
  BY <1>1 DEF IInv, LengthInv, Counted, CountAt, Between
<1> QED BY <1>2, <1>3, <1>4, <1>5 DEF IInv

LEMMA StutterStep == IInv /\ UNCHANGED vars => IInv'
<1> SUFFICES ASSUME IInv, UNCHANGED vars PROVE IInv'
  OBVIOUS
<1>1. UNCHANGED <<gen, chan, worker, pc, seen, counting, length, errs, answer, got, eof, raced, lost>>
  BY DEF vars
<1>2. TypeOK'
  BY <1>1 DEF IInv, TypeOK
<1>3. ReadingInv'
  BY <1>1, ReadingKept DEF IInv
<1>4. CallInv' /\ LengthInv'
  BY <1>1 DEF IInv, CallInv, LengthInv, Counted, CountAt, Between
<1> QED BY <1>2, <1>3, <1>4 DEF IInv

-----------------------------------------------------------------------------
LEMMA Initially == Init => IInv
<1> SUFFICES ASSUME Init PROVE IInv
  OBVIOUS
<1>1. 0 \in Gens /\ Len(Files) \in Nat
  BY ResetsAssumption, FilesAssumption DEF Gens
<1>2. <<>> \in Seq(Record)
  OBVIOUS
<1>3. TypeOK
  <2>1. chan \in [Gens -> Channels]
    BY <1>2 DEF Init, Channels
  <2>2. worker \in [Gens -> Workers]
    BY <1>1 DEF Init, Workers
  <2> QED BY <1>1, <1>2, <2>1, <2>2 DEF Init, TypeOK
<1>4. ASSUME NEW g \in Gens PROVE WorkerAt(g) /\ StreamAt(g)
  <2>1. /\ worker[g].pc = "none" /\ worker[g].file = 1 /\ worker[g].next = 1
        /\ chan[g].queue = <<>> /\ chan[g].closed = FALSE /\ got[g] = <<>>
        /\ gen = 0 /\ eof[g] = FALSE /\ g >= 0
    BY ResetsAssumption DEF Init, Gens
  <2>2. WorkerAt(g)
    BY <2>1 DEF WorkerAt
  <2>3. Pushed(g) = <<>>
    BY <1>2, <2>1, ConcatEmptySeq DEF Pushed
  <2>4. ASSUME NEW r \in Record PROVE ~Before(r, <<1, 1>>)
    <3>1. r[1] \in Nat /\ r[1] >= 1 /\ r[2] \in Nat /\ r[2] >= 1
      <4>1. r[1] \in 1 .. Len(Files) /\ r[2] \in 1 .. Files[r[1]] /\ r \in Nat \X Nat
        BY RecordPairs
      <4> QED BY <4>1
    <3> QED BY <3>1 DEF Before
  <2>5. DOMAIN <<>> = {}
    OBVIOUS
  <2>6. Stream(<<>>, <<1, 1>>, lost[g])
    BY <2>4, <2>5 DEF Stream, InOrder
  <2>7. Place(g) = <<1, 1>>
    BY <2>1 DEF Place
  <2> QED BY <2>2, <2>3, <2>6, <2>7 DEF StreamAt
<1>5. CallInv
  BY ConsumersAssumption DEF Init, CallInv
<1>6. LengthInv
  BY <1>1 DEF Init, LengthInv, CountAt, Between
<1> QED BY <1>3, <1>4, <1>5, <1>6 DEF IInv, ReadingInv

LEMMA Inductive ==
    ASSUME Careful, IInv, [Next]_vars PROVE IInv'
<1>1. ASSUME NEW g \in Gens, Goroutine(g) PROVE IInv'
  BY <1>1, BeginRunStep, ReadStep, PushStep, EndRunStep DEF Goroutine
<1>2. ASSUME NEW c \in Consumers, EndOfFile(c) PROVE IInv'
  <2>1. /\ pc[c] = "recv" /\ pc' = [pc EXCEPT ![c] = "eof"]
        /\ UNCHANGED <<gen, chan, worker, seen, counting, length, errs, answer, got, raced, lost>>
    BY <1>2 DEF EndOfFile
  <2> QED BY <1>2, <2>1, PlaceStep
<1>3. ASSUME NEW c \in Consumers, Return(c) PROVE IInv'
  <2>1. /\ pc[c] \in {"eof", "error"} /\ pc' = [pc EXCEPT ![c] = "idle"] /\ eof' = eof
        /\ UNCHANGED <<gen, chan, worker, seen, counting, length, errs, answer, got, raced, lost>>
    BY <1>3 DEF Return
  <2> QED BY <2>1, PlaceStep
<1>4. ASSUME NEW c \in Consumers, Call(c) \/ Consumer(c) PROVE IInv'
  BY <1>2, <1>3, <1>4, CallStep, ReceiveStep, CountStep, LengthEndsStep DEF Consumer
<1> QED BY <1>1, <1>4, ResetStep, LengthCachedStep, LengthBeginsStep, StutterStep DEF Next

(* The invariant, if every reading ends before the next: only the present     *)
(* generation's goroutine runs, on its own channel; what it has pushed is the *)
(* part of the files before its place; and the length is that of what was     *)
(* received.                                                                  *)
LEMMA ReadingInvariant ==
    ASSUME Careful PROVE Spec => []IInv
<1>1. Init => IInv
  BY Initially
<1>2. IInv /\ [Next]_vars => IInv'
  BY Inductive
<1> QED BY <1>1, <1>2, PTL DEF Spec

(* The end of the file comes after the last record, unless an error was       *)
(* queued, and Length counts every record or is an error, unless two          *)
(* consumers counted at the same time; all of it when Reset and Length are    *)
(* called at the ends of readings, and at no other time.                      *)
THEOREM ReadingsCompleteHolds ==
    ASSUME Careful PROVE Spec => ReadingsComplete
<1>1. IInv => \A g \in Gens : eof[g] /\ ~lost[g] => ToSet(got[g]) = Record
  BY StreamWhole DEF IInv, ReadingInv
<1>2. IInv /\ [Next]_vars
      => [answer' # answer /\ ~raced /\ (\A g \in Gens : ~lost'[g]) => answer' \in {-1, Total}]_vars
  <2> SUFFICES ASSUME IInv, Next, answer' # answer, ~raced, \A g \in Gens : ~lost'[g]
               PROVE  answer' \in {-1, Total}
    BY DEF vars
  <2>1. LengthCached \/ \E c \in Consumers : LengthEnds(c)
    BY DEF Next, Goroutine, Consumer, BeginRun, Read, Push, EndRun, Call, Receive, Count, EndOfFile,
           Return, LengthBegins, Reset
  <2>2. Counted
    BY <2>1 DEF LengthCached, LengthEnds, Counted
  <2> QED BY <2>1, <2>2, LengthCachedStep, LengthEndsStep
<1> QED BY <1>1, <1>2, ReadingInvariant, PTL DEF Spec, ReadingsComplete

-----------------------------------------------------------------------------
(* RetryableConnection.Do *)

(* The invariant.  A reader that has met the end has read everything, and the *)
(* nil in the channel comes from such a reader and stays the last of it.      *)

NilInChannel == errChan = <<"nil">>

ReadInv ==
    /\ reader = "eof" \/ place = "content" => read = Lines
    /\ NilInChannel => read = Lines /\ reader = "gone"
    /\ place = "content" => reader = "gone"
    /\ response = "body" => read = Lines /\ place = "done"

(* The attempts since the last stable connection are the losses that the      *)
(* retry counter has counted, and the connection that is being used.          *)
RetryInv ==
    /\ place \in {"loop", "connect"} => since = retry
    /\ place \in {"wait", "content"} => since = retry + 1
    /\ place = "loop" => retry <= RetriesNum + 1
    /\ place \in {"connect", "wait", "content"} => retry <= RetriesNum
    /\ place = "done" => since <= RetriesNum + 1
    /\ response = "exhausted" => place = "done" /\ since = RetriesNum + 1

\* With unlimited retries nothing is exhausted.
Unlimited == response # "exhausted"

CountInv == IF RetriesNum = -1 THEN Unlimited ELSE RetryInv

ConnTypes ==
    /\ place \in {"loop", "connect", "wait", "content", "done"}
    /\ retry \in Nat /\ since \in 0 .. MaxAttempts /\ read \in 0 .. Lines
    /\ reader \in {"read", "eof", "error", "gone"}
    /\ timer \in {"watch", "send"}
    /\ errChan \in {<<>>, <<"nil">>, <<"error">>, <<"timeout">>}
    /\ response \in {"none", "body", "exhausted"}

ConnInv == ConnTypes /\ ReadInv /\ CountInv

-----------------------------------------------------------------------------
LEMMA ConnInitially == ConnInit => ConnInv
<1> SUFFICES ASSUME ConnInit PROVE ConnInv
  OBVIOUS
<1> USE DEF ConnInit
<1>1. ConnTypes
  BY BoundsAssumption, AttemptsAssumption DEF ConnTypes
<1>2. ReadInv
  BY DEF ReadInv, NilInChannel
<1>3. CountInv
  BY RetriesNumAssumption DEF CountInv, Unlimited, RetryInv
<1> QED BY <1>1, <1>2, <1>3 DEF ConnInv

(* A loss is counted, unless the connection was stable.                       *)
LEMMA LossCounted ==
    ASSUME ConnTypes, NEW isStable \in BOOLEAN, NEW tried \in 0 .. MaxAttempts,
           CheckErrors(isStable, tried), UNCHANGED response, response = "none",
           RetriesNum # -1 => tried = retry + 1 /\ retry <= RetriesNum
    PROVE  /\ place' = "loop" /\ retry' \in Nat /\ since' \in 0 .. MaxAttempts
           /\ CountInv'
BY RetriesNumAssumption, AttemptsAssumption
   DEF ConnTypes, CheckErrors, CountInv, Unlimited, RetryInv

LEMMA ConnInductive == ConnInv /\ [ConnNext]_connVars => ConnInv'
<1> SUFFICES ASSUME ConnInv, [ConnNext]_connVars PROVE ConnInv'
  OBVIOUS
<1> USE RetriesNumAssumption, FlagsAssumption, BoundsAssumption, AttemptsAssumption DEF ConnInv
<1>0. place # "done" => response = "none"
  BY DEF ConnInv, ConnTypes, ReadInv, CountInv, Unlimited, RetryInv
<1>1. CASE Loop
  <2>1. ConnTypes'
    BY <1>1 DEF Loop, monitor, ConnTypes
  <2>2. ReadInv'
    BY <1>0, <1>1 DEF Loop, monitor, ConnTypes, ReadInv, NilInChannel
  <2>3. CountInv'
    BY <1>0, <1>1 DEF Loop, MayTry, monitor, ConnTypes, CountInv, Unlimited, RetryInv
  <2> QED BY <2>1, <2>2, <2>3
<1>2. CASE ConnectFails
  <2>1. Tick(since) \in 0 .. MaxAttempts
    BY DEF ConnTypes, Tick
  <2>2. RetriesNum # -1 => Tick(since) = retry + 1 /\ retry <= RetriesNum
    BY <1>2 DEF ConnectFails, Tick, ConnTypes, CountInv, RetryInv
  <2>3. place' = "loop" /\ retry' \in Nat /\ since' \in 0 .. MaxAttempts /\ CountInv'
    BY <1>0, <1>2, <2>1, <2>2, LossCounted DEF ConnectFails
  <2>4. ConnTypes'
    BY <1>2, <2>3 DEF ConnectFails, monitor, ConnTypes
  <2>5. ReadInv'
    BY <1>0, <1>2, <2>3 DEF ConnectFails, monitor, ReadInv, NilInChannel
  <2> QED BY <2>3, <2>4, <2>5
<1>3. CASE Connected
  <2>1. ConnTypes'
    BY <1>3 DEF Connected, Tick, ConnTypes
  <2>2. ReadInv'
    BY <1>0, <1>3 DEF Connected, ReadInv, NilInChannel
  <2>3. CountInv'
    BY <1>0, <1>3 DEF Connected, Tick, ConnTypes, CountInv, Unlimited, RetryInv
  <2> QED BY <2>1, <2>2, <2>3
<1>4. ASSUME NEW closeErr \in BOOLEAN, ReceiveErr(closeErr) PROVE ConnInv'
  <2>1. CASE Head(errChan) # "nil" \/ closeErr
    <3>1. CheckErrors(stable', since) /\ stable' \in BOOLEAN /\ UNCHANGED <<reader, timer, read, response>>
          /\ place = "wait" /\ errChan' = <<>>
      BY <1>4, <2>1 DEF ReceiveErr
    <3>2. since \in 0 .. MaxAttempts /\ (RetriesNum # -1 => since = retry + 1 /\ retry <= RetriesNum)
      BY <3>1 DEF ConnTypes, CountInv, RetryInv
    <3>3. place' = "loop" /\ retry' \in Nat /\ since' \in 0 .. MaxAttempts /\ CountInv'
      BY <1>0, <3>1, <3>2, LossCounted
    <3>4. ConnTypes'
      BY <3>1, <3>3 DEF ConnTypes
    <3>5. ReadInv'
      BY <1>0, <3>1, <3>3 DEF ReadInv, NilInChannel
    <3> QED BY <3>3, <3>4, <3>5
  <2>2. CASE ~(Head(errChan) # "nil" \/ closeErr)
    <3>1. place = "wait" /\ place' = "content" /\ errChan' = <<>>
          /\ UNCHANGED <<retry, since, reader, timer, read, response>>
      BY <1>4, <2>2 DEF ReceiveErr
    <3>2. NilInChannel
      BY <1>4, <2>2 DEF ReceiveErr, ConnTypes, NilInChannel
    <3>3. ConnTypes'
      BY <3>1 DEF ConnTypes
    <3>4. ReadInv'
      BY <1>0, <3>1, <3>2 DEF ReadInv, NilInChannel
    <3>5. CountInv'
      BY <1>0, <3>1 DEF CountInv, Unlimited, RetryInv
    <3> QED BY <3>3, <3>4, <3>5
  <2> QED BY <2>1, <2>2
<1>5. ASSUME NEW bad \in BOOLEAN, Content(bad) PROVE ConnInv'
  <2>1. place = "content" /\ UNCHANGED <<reader, timer, errChan, read>> /\ response = "none"
    BY <1>0, <1>5 DEF Content, monitor
  <2>2. CASE HasHandler /\ bad
    <3>1. CASE stable
      BY <1>5, <2>1, <2>2, <3>1
         DEF Content, CheckErrors, ConnTypes, ReadInv, NilInChannel, CountInv, Unlimited, RetryInv
    <3>2. CASE ~stable
      BY <1>5, <2>1, <2>2, <3>2
         DEF Content, CheckErrors, ConnTypes, ReadInv, NilInChannel, CountInv, Unlimited, RetryInv
    <3> QED BY <3>1, <3>2
  <2>3. CASE ~(HasHandler /\ bad)
    BY <1>5, <2>1, <2>3 DEF Content, ConnTypes, ReadInv, NilInChannel, CountInv, Unlimited, RetryInv
  <2> QED BY <2>2, <2>3
<1>6. CASE ReadLine
  BY <1>0, <1>6 DEF ReadLine, ConnTypes, ReadInv, NilInChannel, CountInv, Unlimited, RetryInv
<1>7. CASE ReadStops
  BY <1>0, <1>7 DEF ReadStops, ConnTypes, ReadInv, NilInChannel, CountInv, Unlimited, RetryInv
<1>8. CASE ReaderSends
  <2>1. /\ place = "wait" /\ reader' = "gone" /\ UNCHANGED <<place, retry, timer, read, since, response>>
        /\ errChan' = IF reader = "eof" THEN <<"nil">> ELSE <<"error">>
    BY <1>8 DEF ReaderSends
  <2>2. ConnTypes'
    BY <2>1 DEF ConnTypes
  <2>3. ReadInv'
    BY <1>0, <2>1 DEF ReadInv, NilInChannel
  <2>4. CountInv'
    BY <2>1 DEF CountInv, Unlimited, RetryInv
  <2> QED BY <2>2, <2>3, <2>4
<1>9. CASE Timer
  <2>1. /\ place = "wait" /\ timer' \in {"watch", "send"} /\ errChan' \in {errChan, <<"timeout">>}
        /\ UNCHANGED <<place, retry, reader, read, since, response>>
    BY <1>9 DEF Timer, TimerLooks, TimerSends
  <2>2. ConnTypes'
    BY <2>1 DEF ConnTypes
  <2>3. ReadInv'
    <3>1. NilInChannel' => NilInChannel
      BY <2>1 DEF NilInChannel
    <3> QED BY <2>1, <3>1 DEF ReadInv
  <2>4. CountInv'
    BY <2>1 DEF CountInv, Unlimited, RetryInv
  <2> QED BY <2>2, <2>3, <2>4
<1>10. CASE TimePasses \/ UNCHANGED connVars
  <2>1. UNCHANGED <<place, retry, reader, timer, errChan, read, since, response>>
    BY <1>10 DEF TimePasses, connVars
  <2> QED BY <2>1 DEF ConnTypes, ReadInv, NilInChannel, CountInv, Unlimited, RetryInv
<1> QED BY <1>1, <1>2, <1>3, <1>4, <1>5, <1>6, <1>7, <1>8, <1>9, <1>10 DEF ConnNext, Do

-----------------------------------------------------------------------------
(* The types of everything that the verdict depends on, and the invariant:    *)
(* the connections since the last stable one are those that retry counts.     *)
THEOREM RetriesCounted == ConnSpec => []ConnInv
<1>1. ConnInit => ConnInv
  BY ConnInitially
<1>2. ConnInv /\ [ConnNext]_connVars => ConnInv'
  BY ConnInductive
<1> QED BY <1>1, <1>2, PTL DEF ConnSpec

(* Do returns a whole response or, after RetriesNum + 1 attempts, the error   *)
(* of exhausted retries, however the reader and the timer race.               *)
THEOREM ResultHonestHolds == ConnSpec => []ResultHonest
<1>1. ConnInv => ResultHonest
  BY RetriesNumAssumption, AttemptsAssumption
     DEF ConnInv, ConnTypes, ReadInv, CountInv, Unlimited, RetryInv, ResultHonest
<1> QED BY <1>1, RetriesCounted, PTL

-----------------------------------------------------------------------------
(* The methods.  What all of them have in common, by kind of thing.           *)

\* What a method says of a status is what the server meant by it.
Sound(m) ==
    /\ m.lookup \in {"no", "absent", "there"}
    /\ m.accepts \subseteq {200, 201, 202, 204}
    /\ m.missing # {} => m.request \in {"get", "find", "decrypt"}
    /\ m # IsRepoExists => \A status \in m.missing : status \notin Refusals
    /\ \A status \in m.conflict : status \notin Refusals
    /\ m.conflict # {} => m.request = "create" \/ (m.request = "overwrite" /\ 404 \notin m.conflict)
    /\ m.keeps = "existing" => m.request = "create" \/ m.lookup = "absent"

\* It sends no more than its kind allows.
Modest(m, k) ==
    /\ k \in {"user", "group"} /\ m.request = "merge" => m.sends \in {"set", "clear", "nothing"}
    /\ dryRun /\ k # "system" /\ m.dry # "none" => m.dry = "on"

(* A method of one of the usual shapes, with what it sends changed or not.    *)
Plain(m) == Sound(m) /\ m.dry = "none"
Successes == {200, 201, 202, 204}

LEMMA GetIsPlain == ASSUME NEW missing \in SUBSET {404} PROVE Plain(Get(missing))
BY DEF Plain, Sound, Refusals, Get, Method

LEMMA FindIsPlain == ASSUME NEW missing \in SUBSET {Empty} PROVE Plain(Find(missing))
BY DEF Plain, Sound, Refusals, Find, Method, Empty

LEMMA MethodIsPlain ==
    ASSUME NEW request \in {"list", "put", "merge", "overwrite", "delete", "issue"},
           NEW accepts \in SUBSET Successes, NEW sends
    PROVE  /\ Plain(Method(request, accepts)) /\ Plain([Method(request, accepts) EXCEPT !.sends = sends])
           /\ Plain(Decoding(Method(request, accepts)))
BY DEF Plain, Sound, Decoding, Method, Successes

LEMMA ListIsPlain == Plain(List) /\ Plain(Probe)
BY DEF Plain, Sound, List, Probe, Decoding, Method

LEMMA ShapesArePlain ==
    ASSUME NEW accepts \in SUBSET Successes
    PROVE  /\ Plain(List) /\ Plain(Probe) /\ Plain(Put(accepts)) /\ Plain(Merge(accepts))
           /\ Plain(Overwrite(accepts)) /\ Plain(Act(accepts)) /\ Plain(Delete(accepts))
           /\ Plain(Issue(accepts)) /\ Plain(Decoding(Issue(accepts)))
           /\ Plain(Decoding(Overwrite(accepts)))
<1>1. Plain(Act(accepts))
  BY MethodIsPlain DEF Act, Merge
<1>2. Plain(Put(accepts)) /\ Plain(Merge(accepts)) /\ Plain(Overwrite(accepts)) /\ Plain(Delete(accepts))
      /\ Plain(Issue(accepts))
  BY MethodIsPlain DEF Put, Merge, Overwrite, Delete, Issue
<1>3. Plain(Decoding(Issue(accepts))) /\ Plain(Decoding(Overwrite(accepts)))
  BY MethodIsPlain DEF Issue, Overwrite
<1> QED BY <1>1, <1>2, <1>3, ListIsPlain

(* Users and groups                                                           *)
LEMMA UsersSound == \A m \in UserMethods : Plain(m) /\ (m.request = "merge" => m.sends \in {"set", "clear", "nothing"})
<1>1. \A b \in BOOLEAN : Plain(CreateUser(b)) /\ CreateUser(b).request = "put"
  <2>1. Plain(CreateUser(FALSE)) /\ CreateUser(FALSE).request = "put"
    BY DEF Plain, Sound, CreateUser, Put, Method
  <2>2. Plain(CreateUser(TRUE)) /\ CreateUser(TRUE).request = "put"
    BY DEF Plain, Sound, CreateUser, Put, Method
  <2> QED BY <2>1, <2>2
<1>2. \A b \in BOOLEAN : Plain(UpdateUser(b)) /\ UpdateUser(b).sends \in {"set", "clear", "nothing"}
  <2>1. Plain(UpdateUser(FALSE)) /\ UpdateUser(FALSE).sends = "set"
    BY DEF Plain, Sound, UpdateUser, Merge, Method
  <2>2. Plain(UpdateUser(TRUE)) /\ UpdateUser(TRUE).sends = "clear"
    BY DEF Plain, Sound, UpdateUser, Merge, Method
  <2> QED BY <2>1, <2>2
<1>3. /\ Plain(GetUser) /\ Plain(GetAllUsers) /\ Plain(DeleteUser) /\ Plain(GetLockedUsers) /\ Plain(UnlockUser)
  BY GetIsPlain, ShapesArePlain DEF GetUser, GetAllUsers, DeleteUser, GetLockedUsers, UnlockUser, Successes
<1>4. /\ GetUser.request = "get" /\ GetAllUsers.request = "list" /\ DeleteUser.request = "delete"
      /\ GetLockedUsers.request = "list" /\ UnlockUser.sends = "nothing"
  BY DEF GetUser, GetAllUsers, DeleteUser, GetLockedUsers, UnlockUser, Get, List, Decoding, Delete, Act, Merge, Method
<1> QED BY <1>1, <1>2, <1>3, <1>4 DEF UserMethods

LEMMA GroupsSound == \A m \in GroupMethods : Plain(m) /\ (m.request = "merge" => m.sends \in {"set", "clear", "nothing"})
<1>1. \A b \in BOOLEAN : Plain(CreateGroup(b)) /\ CreateGroup(b).request = "put"
  <2>1. Plain(CreateGroup(FALSE)) /\ CreateGroup(FALSE).request = "put"
    BY DEF Plain, Sound, CreateGroup, Put, Method
  <2>2. Plain(CreateGroup(TRUE)) /\ CreateGroup(TRUE).request = "put"
    BY DEF Plain, Sound, CreateGroup, Put, Method
  <2> QED BY <2>1, <2>2
<1>2. Plain(GetAllGroups) /\ Plain(GetGroup) /\ Plain(UpdateGroup) /\ Plain(DeleteGroup)
  BY GetIsPlain, ShapesArePlain DEF GetAllGroups, GetGroup, UpdateGroup, DeleteGroup, Successes
<1>3. /\ GetAllGroups.request = "list" /\ GetGroup.request = "get" /\ UpdateGroup.sends = "set"
      /\ DeleteGroup.request = "delete"
  BY DEF GetAllGroups, GetGroup, UpdateGroup, DeleteGroup, Get, List, Decoding, Delete, Merge, Method
<1> QED BY <1>1, <1>2, <1>3 DEF GroupMethods

(* The other kinds of Artifactory's                                           *)
LEMMA RepositoriesSound == \A m \in RepositoryMethods : Plain(m)
<1>1. Plain(IsRepoExists)
  BY DEF Plain, Sound, Refusals, IsRepoExists, Get, Method
<1>2. Plain(CreateRepository)
  BY DEF Plain, Sound, Refusals, CreateRepository, Create, Method
<1>3. Plain(UpdateRepository)
  BY DEF Plain, Sound, UpdateRepository, Merge, Method
<1>4. Plain(DeleteRepository) /\ Plain(GetRepository) /\ Plain(GetRepositories)
  BY GetIsPlain, ShapesArePlain DEF DeleteRepository, GetRepository, GetRepositories, Successes
<1> QED BY <1>1, <1>2, <1>3, <1>4 DEF RepositoryMethods

LEMMA PermissionsSound == \A m \in PermissionMethods : Plain(m)
<1>1. Plain(UpdatePermissionTarget)
  BY DEF Plain, Sound, Refusals, UpdatePermissionTarget, Overwrite, Method
<1>2. Plain(CreatePermissionTarget)
  BY DEF Plain, Sound, Refusals, CreatePermissionTarget, Create, Method
<1>3. Plain(DeletePermissionTarget) /\ Plain(GetPermissionTarget)
  BY GetIsPlain, ShapesArePlain DEF DeletePermissionTarget, GetPermissionTarget, Successes
<1> QED BY <1>1, <1>2, <1>3 DEF PermissionMethods

LEMMA KeysSound == \A m \in KeyMethods \cup TokenMethods \cup ReplicationMethods : Plain(m)
<1>1. Plain(CreateAPIKey)
  BY DEF Plain, Sound, Refusals, CreateAPIKey, Create, Decoding, Method
<1>2. Plain(CreateReplication)
  BY DEF Plain, Sound, Refusals, CreateReplication, Put, Method
<1>3. Plain(UpdateReplication)
  BY DEF Plain, Sound, Refusals, UpdateReplication, Merge, Method
<1>4. Plain(RegenerateAPIKey) /\ Plain(GetAPIKey)
  BY FindIsPlain, ShapesArePlain DEF RegenerateAPIKey, GetAPIKey, Successes
<1>5. Plain(CreateToken) /\ Plain(RefreshToken) /\ Plain(RevokeToken)
  BY ShapesArePlain DEF CreateToken, RefreshToken, RevokeToken, Successes
<1>6. Plain(GetUserTokens)
  BY ListIsPlain DEF GetUserTokens, GetTokens
<1>7. Plain(DeleteReplication) /\ Plain(GetReplication)
  BY GetIsPlain, ShapesArePlain DEF DeleteReplication, GetReplication, Successes
<1> QED BY <1>1, <1>2, <1>3, <1>4, <1>5, <1>6, <1>7 DEF KeyMethods, TokenMethods, ReplicationMethods

LEMMA ServersSound == \A m \in EncryptionMethods \cup StorageMethods \cup FederationMethods : Plain(m)
<1>1. Plain(DeactivateKeyEncryption)
  BY DEF Plain, Sound, Refusals, DeactivateKeyEncryption, Method
<1>2. Plain(ActivateKeyEncryption)
  BY DEF Plain, Sound, Refusals, ActivateKeyEncryption, Put, Method
<1>3. Plain(SystemGet)
  BY DEF Plain, Sound, Refusals, SystemGet, Decoding, Method
<1>4. Plain(FolderInfo) /\ Plain(FileList) /\ Plain(StorageInfo)
  BY GetIsPlain, ShapesArePlain DEF FolderInfo, FileList, StorageInfo, Successes
<1>5. Plain(StorageInfoRefresh) /\ Plain(Ping)
  BY ShapesArePlain DEF StorageInfoRefresh, Ping, Successes
<1>6. Plain(ConvertLocalToFederated) /\ Plain(TriggerFederatedFullSyncAll) /\ Plain(TriggerFederatedFullSyncMirror)
  BY ShapesArePlain
     DEF ConvertLocalToFederated, TriggerFederatedFullSyncAll, TriggerFederatedFullSyncMirror, Successes
<1> QED BY <1>1, <1>2, <1>3, <1>4, <1>5, <1>6 DEF EncryptionMethods, StorageMethods, FederationMethods

(* Methods with a dry run, on or off                                          *)
Dry(m, on) == Sound(m) /\ m.dry = (IF on THEN "on" ELSE "off")

LEMMA DryIsSound ==
    ASSUME NEW request \in {"put", "issue", "delete"}, NEW accepts \in SUBSET Successes, NEW on \in BOOLEAN
    PROVE  Dry(WithDryRun(Method(request, accepts), on), on)
BY DEF Dry, Sound, WithDryRun, Method, Successes

LEMMA SystemsSound == \A m \in SystemMethods : Sound(m)
<1>1. Sound(Export(FALSE))
  BY DEF Sound, Export, WithDryRun, Issue, Method
<1>2. Sound(Import(FALSE))
  BY DEF Sound, Import, WithDryRun, Issue, Method
<1> QED BY <1>1, <1>2 DEF SystemMethods

LEMMA BuildsSound == ASSUME dryRun \in BOOLEAN PROVE \A m \in BuildMethods(dryRun) : Plain(m) \/ Dry(m, dryRun)
<1>1. Dry(PublishBuildInfo(dryRun), dryRun)
  BY DryIsSound DEF PublishBuildInfo, Put, Successes
<1>2. Dry(BuildPromote(dryRun), dryRun) /\ Dry(BuildDistribute(dryRun), dryRun)
  BY DryIsSound DEF BuildPromote, BuildDistribute, Issue, Successes
<1>3. Plain(DiscardBuilds) /\ Plain(PromoteDocker)
  BY ShapesArePlain DEF DiscardBuilds, PromoteDocker, Successes
<1> QED BY <1>1, <1>2, <1>3 DEF BuildMethods

LEMMA BundlesSound == ASSUME dryRun \in BOOLEAN PROVE \A m \in BundleMethods(dryRun) : Plain(m) \/ Dry(m, dryRun)
<1>1. Dry(CreateReleaseBundle(dryRun), dryRun)
  BY DEF Dry, Sound, CreateReleaseBundle, WithDryRun, Create, Method
<1>2. Dry(UpdateReleaseBundle(dryRun), dryRun)
  BY DEF Dry, Sound, UpdateReleaseBundle, WithDryRun, Overwrite, Method
<1>3. Dry(DeleteLocalBundle(dryRun), dryRun)
  BY DryIsSound DEF DeleteLocalBundle, Delete, Successes
<1>4. Plain(SignReleaseBundle) /\ Plain(GetDistributionVersion)
  BY ShapesArePlain DEF SignReleaseBundle, GetDistributionVersion, Successes
<1> QED BY <1>1, <1>2, <1>3, <1>4 DEF BundleMethods

(* The kinds of the other services                                            *)
LEMMA ProjectsSound == \A m \in ProjectMethods : Plain(m)
<1>1. Plain(CreateProject)
  BY DEF Plain, Sound, CreateProject, Create, Method
<1>2. Plain(GetProject) /\ Plain(GetAllProjects) /\ Plain(UpdateProject) /\ Plain(DeleteProject)
  BY GetIsPlain, ShapesArePlain DEF GetProject, GetAllProjects, UpdateProject, DeleteProject, Successes
<1> QED BY <1>1, <1>2 DEF ProjectMethods

LEMMA AccessSound == \A m \in AssignmentMethods \cup ProjectGroupMethods \cup AccessMethods : Plain(m)
<1>1. Plain(AssignRepo)
  BY DEF Plain, Sound, Refusals, AssignRepo, Put, Method
<1>2. Plain(UpdateProjectGroup)
  BY DEF Plain, Sound, Refusals, UpdateProjectGroup, Put, Method
<1>3. Plain(UnassignRepo)
  BY ShapesArePlain DEF UnassignRepo, Successes
<1>4. Plain(GetProjectGroups) /\ Plain(GetProjectGroup) /\ Plain(DeleteProjectGroup)
  BY GetIsPlain, ShapesArePlain DEF GetProjectGroups, GetProjectGroup, DeleteProjectGroup, Successes
<1>5. Plain(CreateAccessToken) /\ Plain(RefreshAccessToken)
  BY ShapesArePlain DEF CreateAccessToken, RefreshAccessToken, Successes
<1>6. Plain(InviteUser) /\ Plain(AccessPing)
  BY ShapesArePlain DEF InviteUser, AccessPing, Successes
<1> QED BY <1>1, <1>2, <1>3, <1>4, <1>5, <1>6 DEF AssignmentMethods, ProjectGroupMethods, AccessMethods

LEMMA WatchesSound == \A m \in WatchMethods \cup PolicyMethods \cup {SetSigningKey} : Plain(m)
<1>1. Plain(CreateWatch)
  BY DEF Plain, Sound, Refusals, CreateWatch, Create, Method
<1>2. Plain(CreatePolicy)
  BY DEF Plain, Sound, Refusals, CreatePolicy, Create, Method
<1>3. Plain(UpdateWatch)
  BY DEF Plain, Sound, Refusals, UpdateWatch, Overwrite, Method
<1>4. Plain(UpdatePolicy)
  BY DEF Plain, Sound, Refusals, UpdatePolicy, Overwrite, Method
<1>5. Plain(GetWatch) /\ Plain(DeleteWatch)
  BY GetIsPlain, ShapesArePlain DEF GetWatch, DeleteWatch, Successes
<1>6. Plain(GetPolicy) /\ Plain(DeletePolicy)
  BY GetIsPlain, ShapesArePlain DEF GetPolicy, DeletePolicy, Successes
<1>7. Plain(SetSigningKey)
  BY ShapesArePlain DEF SetSigningKey, Successes
<1> QED BY <1>1, <1>2, <1>3, <1>4, <1>5, <1>6, <1>7 DEF WatchMethods, PolicyMethods

LEMMA ReportsSound == \A m \in ReportMethods \cup ScanMethods : Plain(m)
<1>1. Plain(Vulnerabilities) /\ Plain(ReportDetails) /\ Plain(ReportContent) /\ Plain(DeleteReport)
  BY GetIsPlain, ShapesArePlain DEF Vulnerabilities, ReportDetails, ReportContent, DeleteReport, Successes
<1>2. Plain(AddBuildsToIndexing) /\ Plain(ScanGraph) /\ Plain(GetXrayVersion)
  BY ShapesArePlain DEF AddBuildsToIndexing, ScanGraph, GetXrayVersion, Successes
<1>3. Plain(GetBuildSummary) /\ Plain(GetArtifactSummary) /\ Plain(IsEntitled)
  BY GetIsPlain, FindIsPlain DEF GetBuildSummary, GetArtifactSummary, IsEntitled
<1> QED BY <1>1, <1>2, <1>3 DEF ReportMethods, ScanMethods

LEMMA PipelinesSound == \A m \in IntegrationMethods \cup SourceMethods \cup PipelineMethods : Plain(m)
<1>1. Plain(CreateIntegration)
  BY DEF Plain, Sound, Refusals, CreateIntegration, Create, Decoding, Method
<1>2. Plain(AddSource)
  BY DEF Plain, Sound, Refusals, AddSource, Create, Decoding, Already, Method
<1>3. Plain(SyncPipelineSource)
  BY DEF Plain, Sound, Refusals, SyncPipelineSource, GetPipelineResource, Issue, Method
<1>4. Plain(GetSyncStatus)
  BY DEF Plain, Sound, Refusals, GetSyncStatus, GetPipelineResource, List, Decoding, Method
<1>5. Plain(GetIntegrationById) /\ Plain(GetIntegrationByName) /\ Plain(GetSource)
  BY GetIsPlain, FindIsPlain DEF GetIntegrationById, GetIntegrationByName, GetSource, Successes
<1>6. Plain(DeleteIntegration) /\ Plain(GetAllIntegrations)
  BY ShapesArePlain DEF DeleteIntegration, GetAllIntegrations, Successes
<1>7. Plain(GetSourceByFilter) /\ Plain(DeleteSource)
  BY ShapesArePlain DEF GetSourceByFilter, DeleteSource, Successes
<1>8. Plain(TriggerPipelineRun) /\ Plain(CancelRun)
  BY ShapesArePlain DEF TriggerPipelineRun, CancelRun, Successes
<1>9. Plain(GetRunStatus) /\ Plain(GetSystemInfo)
  BY ListIsPlain DEF GetRunStatus, GetSystemInfo
<1> QED BY <1>1, <1>2, <1>3, <1>4, <1>5, <1>6, <1>7, <1>8, <1>9 DEF IntegrationMethods, SourceMethods, PipelineMethods

LEMMA PlainOrDry ==
    ASSUME NEW k \in AllKinds \ {"user", "group", "system"}, NEW m, NEW on \in BOOLEAN,
           Plain(m) \/ Dry(m, on), on = dryRun
    PROVE  Sound(m) /\ Modest(m, k)
BY DEF Plain, Dry, Modest

(* Every method of every kind: the case of each kind is one of the lemmas.    *)
LEMMA MethodsSound ==
    ASSUME NEW k \in AllKinds, dryRun \in BOOLEAN, NEW m \in Methods(k) \cup {NoMethod}
    PROVE  Sound(m) /\ Modest(m, k)
<1>1. CASE m = NoMethod
  BY <1>1 DEF Sound, Modest, NoMethod, Method
<1>2. CASE m \in Methods(k) /\ k \in {"user", "group"}
  BY <1>2, UsersSound, GroupsSound DEF Methods, Plain, Modest
<1>3. CASE m \in Methods(k) /\ k = "system"
  BY <1>3, SystemsSound DEF Methods, Modest
<1>4. CASE m \in Methods(k) /\ k \in AllKinds \ {"user", "group", "system"}
  <2>1. CASE k \in {"repository", "permission", "replication", "key", "token"}
    <3>1. m \in RepositoryMethods \cup PermissionMethods \cup KeyMethods \cup TokenMethods \cup ReplicationMethods
      BY <1>4, <2>1 DEF Methods
    <3>2. Plain(m)
      BY <3>1, RepositoriesSound, PermissionsSound, KeysSound
    <3> QED BY <3>2, <1>4, PlainOrDry
  <2>2. CASE k \in {"encryption", "storage", "federation", "project", "assignment", "projectGroup", "access"}
    <3>1. m \in EncryptionMethods \cup StorageMethods \cup FederationMethods \cup ProjectMethods
                \cup AssignmentMethods \cup ProjectGroupMethods \cup AccessMethods
      BY <1>4, <2>2 DEF Methods
    <3>2. Plain(m)
      BY <3>1, ServersSound, ProjectsSound, AccessSound
    <3> QED BY <3>2, <1>4, PlainOrDry
  <2>3. CASE k \in {"signingKey", "watch", "policy", "report", "scan", "integration", "source", "pipeline"}
    <3>1. m \in WatchMethods \cup PolicyMethods \cup {SetSigningKey} \cup ReportMethods \cup ScanMethods
                \cup IntegrationMethods \cup SourceMethods \cup PipelineMethods
      BY <1>4, <2>3 DEF Methods
    <3>2. Plain(m)
      BY <3>1, WatchesSound, ReportsSound, PipelinesSound
    <3> QED BY <3>2, <1>4, PlainOrDry
  <2>4. CASE k \in {"build", "bundle"}
    <3>1. m \in BuildMethods(dryRun) \cup BundleMethods(dryRun)
      BY <1>4, <2>4 DEF Methods
    <3>2. Plain(m) \/ Dry(m, dryRun)
      BY <3>1, BuildsSound, BundlesSound
    <3> QED BY <3>2, <1>4, PlainOrDry
  <2> QED BY <1>4, <2>1, <2>2, <2>3, <2>4 DEF AllKinds
<1> QED BY <1>1, <1>2, <1>3, <1>4

-----------------------------------------------------------------------------
(* The calls.                                                                 *)

Calls(ms) == [at : Places, method : ms, arg : Values, tries : Nat, lost : Nat, late : BOOLEAN,
              issued : Nat, done : BOOLEAN, saw : Sights]

KnownMethods == Methods(kind) \cup {NoMethod}

\* What is true of a call when it has seen the thing as t.
GoodWith(k, t) ==
    /\ k.at = "lookup" => k.method.lookup # "no"
    /\ k.at = "nil" => k.done \/ AsAsked(k.method, k.arg, t)
    /\ k.at = "nil" /\ k.method.request = "issue" /\ Effective(k.method) => k.issued > 0
    /\ k.at = "absent" /\ k.method # IsRepoExists => "gone" \in k.saw \/ t = Absent
    /\ k.at = "exists" => "there" \in k.saw \/ t # Absent
    /\ k.issued + (IF k.late THEN 1 ELSE 0) <= k.lost + (IF k.at \in {"nil", "garbled"} THEN 1 ELSE 0)
    /\ k.method.dry = "on" => k.issued = 0
    /\ k.method.lookup = "absent" /\ (k.at = "request" \/ k.late) => "gone" \in k.saw \/ t = Absent

\* What is true of a call between two steps.
Good(k) ==
    /\ k.at = "lookup" => k.method.lookup # "no"
    /\ k.at = "nil" => k.done
    /\ k.at = "nil" /\ k.method.request = "issue" /\ Effective(k.method) => k.issued > 0
    /\ k.at = "absent" /\ k.method # IsRepoExists => "gone" \in k.saw
    /\ k.at = "exists" => "there" \in k.saw
    /\ k.issued + (IF k.late THEN 1 ELSE 0) <= k.lost + (IF k.at \in {"nil", "garbled"} THEN 1 ELSE 0)
    /\ k.method.dry = "on" => k.issued = 0
    /\ k.method.lookup = "absent" /\ (k.at = "request" \/ k.late) => "gone" \in k.saw

CallsGood == \A c \in Callers : Good(call[c])

AdminInv == AdminTypeOK /\ CallsGood

LEMMA WatchIs ==
    ASSUME NEW ms, NEW k \in Calls(ms), NEW t
    PROVE  /\ Watch(k, t) \in Calls(ms)
           /\ Watch(k, t).at = k.at /\ Watch(k, t).method = k.method /\ Watch(k, t).arg = k.arg
           /\ Watch(k, t).tries = k.tries /\ Watch(k, t).lost = k.lost /\ Watch(k, t).late = k.late
           /\ Watch(k, t).issued = k.issued
           /\ k.done \/ AsAsked(k.method, k.arg, t) => Watch(k, t).done
           /\ Watch(k, t).saw = k.saw \cup {IF t = Absent THEN "gone" ELSE "there"}
<1> DEFINE done == k.done \/ AsAsked(k.method, k.arg, t)
           saw == k.saw \cup {IF t = Absent THEN "gone" ELSE "there"}
           w == [k EXCEPT !.saw = saw, !.done = done]
<1>1. Watch(k, t) = w
  BY Zenon DEF Watch
<1>2. saw \in Sights
  BY DEF Calls, Sights
<1>3. done \in BOOLEAN
  BY Zenon
<1> HIDE DEF done, saw
<1>4. w \in Calls(ms) /\ w.saw = saw /\ w.done = done
  <2> HIDE DEF Places, Values, Sights
  <2> QED BY <1>2, <1>3 DEF Calls
<1>5. /\ w.at = k.at /\ w.method = k.method /\ w.arg = k.arg
      /\ w.tries = k.tries /\ w.lost = k.lost /\ w.late = k.late /\ w.issued = k.issued
  BY DEF Calls
<1> HIDE DEF w
<1>6. k.done \/ AsAsked(k.method, k.arg, t) => Watch(k, t).done
  BY Zenon, <1>1, <1>4 DEF done
<1> QED BY <1>1, <1>4, <1>5, <1>6 DEF saw

LEMMA WatchGood ==
    ASSUME NEW ms, NEW k \in Calls(ms), NEW t, GoodWith(k, t) PROVE Good(Watch(k, t))
<1> DEFINE w == Watch(k, t)
<1>1. /\ w.at = k.at /\ w.method = k.method /\ w.lost = k.lost /\ w.late = k.late /\ w.issued = k.issued
      /\ w.saw = k.saw \cup {IF t = Absent THEN "gone" ELSE "there"}
  BY WatchIs
<1>2. k.done \/ AsAsked(k.method, k.arg, t) => w.done
  BY WatchIs
<1> HIDE DEF w
<1>3. Good(w)
  BY <1>1, <1>2 DEF Good, GoodWith
<1> QED BY <1>3 DEF w

LEMMA GoodIsGoodWith == ASSUME NEW k, NEW t, Good(k) PROVE GoodWith(k, t)
BY DEF Good, GoodWith

LEMMA TypedCalls == AdminTypeOK <=> /\ kind \in Kinds /\ dryRun \in BOOLEAN /\ thing \in {Absent} \cup Values
                                    /\ call \in [Callers -> Calls(KnownMethods)]
BY Zenon DEF AdminTypeOK, Calls, KnownMethods

LEMMA SameMethods == ASSUME kind' = kind, dryRun' = dryRun PROVE KnownMethods' = KnownMethods
BY DEF KnownMethods, Methods

(* What a step of c's call is: it leaves the other calls where they are.      *)
Moved(c, next, t) ==
    /\ thing' = t /\ kind' = kind /\ dryRun' = dryRun
    /\ call'[c].method = next.method /\ call'[c].issued = next.issued
    /\ \A d \in Callers \ {c} :
         call'[d].at = call[d].at /\ call'[d].tries = call[d].tries /\ call'[d].late = call[d].late

(* A step of c's call keeps the invariant if the call is good afterwards.     *)
LEMMA Continues ==
    ASSUME AdminInv, NEW c \in Callers, NEW next \in Calls(KnownMethods), NEW t \in {Absent} \cup Values,
           GoodWith(next, t), Continue(c, next, t)
    PROVE  AdminInv' /\ Moved(c, next, t)
<1> DEFINE ms == KnownMethods
<1>1. thing' = t /\ kind' = kind /\ dryRun' = dryRun
  BY DEF Continue
<1>2. call \in [Callers -> Calls(ms)] /\ kind \in Kinds /\ dryRun \in BOOLEAN
  BY TypedCalls DEF AdminInv
<1>3. KnownMethods' = ms
  BY <1>1, SameMethods
<1>4. /\ DOMAIN call' = Callers /\ call' = [d \in Callers |-> call'[d]]
      /\ \A d \in Callers : call'[d] = (IF d = c THEN Watch(next, t)
                                        ELSE IF call[d].at \in {"lookup", "request"} THEN Watch(call[d], t)
                                        ELSE call[d])
  BY Zenon DEF Continue
<1> HIDE DEF ms
<1>5. \A d \in Callers : call'[d] \in Calls(ms) /\ Good(call'[d])
  <2> TAKE d \in Callers
  <2>1. CASE d = c
    <3>1. Watch(next, t) \in Calls(ms) /\ Good(Watch(next, t))
      BY WatchIs, WatchGood DEF ms
    <3> QED BY <3>1, <2>1, <1>4
  <2>2. CASE d # c
    <3>1. call[d] \in Calls(ms) /\ Good(call[d])
      BY <1>2 DEF AdminInv, CallsGood
    <3>2. Watch(call[d], t) \in Calls(ms) /\ Good(Watch(call[d], t))
      BY <3>1, WatchIs, WatchGood, GoodIsGoodWith
    <3> QED BY <3>1, <3>2, <2>2, <1>4
  <2> QED BY <2>1, <2>2
<1>6. call' \in [Callers -> Calls(ms)]
  BY <1>4, <1>5
<1>7. AdminTypeOK'
  <2>1. call' \in [Callers -> Calls(KnownMethods')]
    BY <1>6, <1>3
  <2>2. kind' \in Kinds /\ dryRun' \in BOOLEAN /\ thing' \in {Absent} \cup Values
    BY <1>1, <1>2
  <2> QED BY Zenon, <2>1, <2>2 DEF AdminTypeOK, Calls, KnownMethods
<1>8. CallsGood'
  BY <1>5 DEF CallsGood
<1>9. call'[c].method = next.method /\ call'[c].issued = next.issued
  BY <1>4, WatchIs DEF ms
<1>10. ASSUME NEW d \in Callers \ {c}
       PROVE  call'[d].at = call[d].at /\ call'[d].tries = call[d].tries /\ call'[d].late = call[d].late
  <2>1. /\ Watch(call[d], t).at = call[d].at /\ Watch(call[d], t).tries = call[d].tries
        /\ Watch(call[d], t).late = call[d].late
    BY <1>2, WatchIs
  <2> QED BY <2>1, <1>4
<1>11. AdminInv'
  BY <1>7, <1>8 DEF AdminInv
<1> QED BY <1>1, <1>9, <1>10, <1>11 DEF Moved

(* What the server does for a call, and what a step therefore is.             *)
Works(c) ==
    /\ call[c].at = "request" \/ call[c].late
    /\ Able(call[c].method.request) /\ Effective(call[c].method)
    /\ thing' = Done(call[c].method.request, Body(call[c].method, call[c].arg))

Outcome(c) ==
    /\ AdminInv'
    /\ thing' = thing \/ Works(c)
    /\ kind' = kind /\ dryRun' = dryRun
    /\ call'[c].method = call[c].method \/ (call[c].at = "idle" /\ thing' = thing /\ call'[c].issued = 0)
    /\ \A d \in Callers \ {c} :
         call'[d].at = call[d].at /\ call'[d].tries = call[d].tries /\ call'[d].late = call[d].late

(* The record of a call, updated.                                             *)
LEMMA AgainIs ==
    ASSUME NEW ms, NEW c \in Callers, call[c] \in Calls(ms)
    PROVE  /\ Again(c) \in Calls(ms)
           /\ Again(c).at \in {"request", "error"} /\ Again(c).method = call[c].method
           /\ Again(c).arg = call[c].arg /\ Again(c).lost = call[c].lost /\ Again(c).late = call[c].late
           /\ Again(c).issued = call[c].issued /\ Again(c).done = call[c].done /\ Again(c).saw = call[c].saw
           /\ Again(c).tries = call[c].tries + 1
<1> DEFINE k == call[c]
           at == IF k.tries + 1 < Attempts THEN "request" ELSE "error"
           tries == k.tries + 1
           a == [k EXCEPT !.tries = tries, !.at = at]
<1>1. Again(c) = a
  BY Zenon DEF Again
<1>2. at \in {"request", "error"} /\ at \in Places
  BY DEF Places
<1>3. k \in Calls(ms) /\ tries \in Nat /\ tries = k.tries + 1
  BY DEF Calls
<1> HIDE DEF at, tries, k
<1>4. a \in Calls(ms) /\ a.at = at /\ a.tries = tries
  <2> HIDE DEF Places, Values, Sights
  <2> QED BY <1>2, <1>3 DEF Calls
<1>5. /\ a.method = k.method /\ a.arg = k.arg /\ a.lost = k.lost /\ a.late = k.late /\ a.issued = k.issued
      /\ a.done = k.done /\ a.saw = k.saw
  BY <1>3 DEF Calls
<1> HIDE DEF a
<1> QED BY <1>1, <1>2, <1>3, <1>4, <1>5 DEF k

LEMMA EndIs ==
    ASSUME NEW ms, NEW k \in Calls(ms), NEW verdict \in Places
    PROVE  LET e == [k EXCEPT !.at = verdict]
           IN  /\ e \in Calls(ms) /\ e.at = verdict /\ e.method = k.method /\ e.arg = k.arg /\ e.tries = k.tries
               /\ e.lost = k.lost /\ e.late = k.late /\ e.issued = k.issued /\ e.done = k.done /\ e.saw = k.saw
<1> HIDE DEF Places, Values, Sights
<1> QED BY DEF Calls

LEMMA ArrivedIs ==
    ASSUME NEW ms, NEW k \in Calls(ms), NEW late \in BOOLEAN
    PROVE  LET e == [k EXCEPT !.late = late]
           IN  /\ e \in Calls(ms) /\ e.at = k.at /\ e.method = k.method /\ e.arg = k.arg /\ e.tries = k.tries
               /\ e.lost = k.lost /\ e.late = late /\ e.issued = k.issued /\ e.done = k.done /\ e.saw = k.saw
<1> HIDE DEF Places, Values, Sights
<1> QED BY DEF Calls

(* What the server's work leaves is a thing, and what the call asked for.     *)
LEMMA DoneIs ==
    ASSUME thing \in {Absent} \cup Values, NEW m, NEW arg \in Values, Able(m.request)
    PROVE  /\ Done(m.request, Body(m, arg)) \in {Absent} \cup Values
           /\ AsAsked(m, arg, Done(m.request, Body(m, arg)))
<1> DEFINE body == Body(m, arg)
<1>1. /\ DOMAIN body = Sent(m, arg) /\ Sent(m, arg) \subseteq Fields
      /\ \A f \in Sent(m, arg) : body[f] \in Callers \cup {Zero}
  BY DEF Body, Sent, Values, Fields
<1>2. CASE m.request \in {"put", "create", "overwrite"}
  <2> DEFINE t == [f \in Fields |-> IF f \in DOMAIN body THEN body[f] ELSE Zero]
  <2> HIDE DEF body
  <2>1. t \in Values /\ \A f \in Sent(m, arg) : t[f] = body[f]
    BY <1>1 DEF Values
  <2>2. Done(m.request, body) = t
    BY <1>2 DEF Done
  <2> HIDE DEF t
  <2> QED BY <1>2, <2>1, <2>2, AbsentAssumption DEF AsAsked, body
<1>3. CASE m.request = "merge"
  <2> DEFINE t == [f \in Fields |-> IF f \in DOMAIN body THEN body[f] ELSE thing[f]]
  <2> HIDE DEF body
  <2>1. thing \in Values
    BY <1>3 DEF Able, Present
  <2>2. t \in Values /\ \A f \in Sent(m, arg) : t[f] = body[f]
    BY <1>1, <2>1 DEF Values
  <2>3. Done(m.request, body) = t
    BY <1>3 DEF Done
  <2> HIDE DEF t
  <2> QED BY <1>3, <2>2, <2>3, AbsentAssumption DEF AsAsked, body
<1>4. CASE m.request \in {"delete", "decrypt"}
  BY <1>4 DEF Done, AsAsked
<1>5. CASE m.request \in {"get", "find"}
  BY <1>5 DEF Done, AsAsked, Able, Present
<1>6. CASE m.request \notin {"put", "create", "overwrite", "merge", "delete", "decrypt", "get", "find"}
  BY <1>6 DEF Done, AsAsked
<1> QED BY <1>2, <1>3, <1>4, <1>5, <1>6

(* What is known of a call before its step.                                   *)
LEMMA CallIs ==
    ASSUME AdminInv, NEW c \in Callers
    PROVE  /\ call[c] \in Calls(KnownMethods) /\ Good(call[c]) /\ Sound(call[c].method)
           /\ Modest(call[c].method, kind) /\ call[c].arg \in Values /\ call[c].method \in KnownMethods
           /\ call[c].tries \in Nat /\ call[c].lost \in Nat /\ call[c].issued \in Nat
           /\ call[c].late \in BOOLEAN /\ call[c].done \in BOOLEAN
           /\ thing \in {Absent} \cup Values /\ dryRun \in BOOLEAN
<1>1. call \in [Callers -> Calls(KnownMethods)] /\ kind \in Kinds /\ dryRun \in BOOLEAN
      /\ thing \in {Absent} \cup Values
  BY TypedCalls DEF AdminInv
<1>2. call[c] \in Calls(KnownMethods) /\ Good(call[c])
  BY <1>1 DEF AdminInv, CallsGood
<1>3. /\ call[c].arg \in Values /\ call[c].method \in KnownMethods
      /\ call[c].tries \in Nat /\ call[c].lost \in Nat /\ call[c].issued \in Nat
      /\ call[c].late \in BOOLEAN /\ call[c].done \in BOOLEAN
  <2> HIDE DEF Places, Values, Sights, KnownMethods
  <2> QED BY <1>2 DEF Calls
<1>4. Sound(call[c].method) /\ Modest(call[c].method, kind)
  BY <1>1, <1>3, KindsAssumption, MethodsSound DEF KnownMethods
<1> QED BY <1>1, <1>2, <1>3, <1>4

-----------------------------------------------------------------------------
(* The steps, each of which leaves its call good.                             *)

LEMMA IssuedIs == \A m : Issued(m) \in {0, 1} /\ (m.dry = "on" => Issued(m) = 0)
                         /\ (m.request = "issue" /\ Effective(m) => Issued(m) = 1)
BY DEF Issued, Effective

LEMMA BeginKeeps == ASSUME AdminInv, NEW c \in Callers, Begin(c) PROVE Outcome(c)
<1>1. PICK method \in Methods(kind), arg \in Arguments(c),
           at \in {"error", "nil", "lookup", "request"} :
        /\ at = "nil" => PreviewsItself(method)
        /\ at = "request" => method.lookup = "no"
        /\ at = "lookup" => method.lookup # "no"
        /\ Continue(c, [NoCall EXCEPT !.at = at, !.method = method, !.arg = arg,
                                      !.done = PreviewsItself(method)], thing)
  <2>1. PICK method \in Methods(kind), arg \in Arguments(c) :
          \E at \in {"error", IF PreviewsItself(method) THEN "nil"
                              ELSE IF method.lookup # "no" THEN "lookup" ELSE "request"} :
             Continue(c, [NoCall EXCEPT !.at = at, !.method = method, !.arg = arg,
                                        !.done = PreviewsItself(method)], thing)
    BY Zenon DEF Begin
  <2>2. PICK at \in {"error", IF PreviewsItself(method) THEN "nil"
                              ELSE IF method.lookup # "no" THEN "lookup" ELSE "request"} :
          Continue(c, [NoCall EXCEPT !.at = at, !.method = method, !.arg = arg,
                                     !.done = PreviewsItself(method)], thing)
    BY Zenon, <2>1
  <2>3. /\ at \in {"error", "nil", "lookup", "request"}
        /\ at = "nil" => PreviewsItself(method)
        /\ at = "request" => method.lookup = "no"
        /\ at = "lookup" => method.lookup # "no"
    OBVIOUS
  <2> QED BY Zenon, <2>2, <2>3
<1> DEFINE done == PreviewsItself(method)
           next == [NoCall EXCEPT !.at = at, !.method = method, !.arg = arg, !.done = done]
<1>2. done \in BOOLEAN /\ (done => method.dry = "on" /\ method.request \in {"put", "delete"})
  BY Zenon DEF PreviewsItself
<1>3. Continue(c, next, thing)
  BY <1>1
<1>4. at = "nil" => done
  BY <1>1
<1>5. arg \in Values
  BY DEF Arguments, Values, Fields
<1>6. NoCall = [at |-> "idle", method |-> NoMethod, arg |-> [f \in Fields |-> Zero], tries |-> 0,
                lost |-> 0, late |-> FALSE, issued |-> 0, done |-> FALSE, saw |-> {}]
      /\ at \in Places /\ method \in KnownMethods /\ {} \in Sights
  BY DEF NoCall, Places, KnownMethods, Sights
<1> HIDE DEF done
<1>7. /\ next.at = at /\ next.method = method /\ next.lost = 0 /\ next.late = FALSE /\ next.issued = 0
      /\ next.done = done /\ next.saw = {} /\ next \in Calls(KnownMethods)
  <2> HIDE DEF Places, Values, Sights, KnownMethods
  <2> QED BY <1>2, <1>5, <1>6 DEF Calls
<1> HIDE DEF next
<1>8. GoodWith(next, thing)
  BY <1>1, <1>2, <1>4, <1>7 DEF GoodWith
<1>q. AdminInv' /\ Moved(c, next, thing)
  BY <1>3, <1>7, <1>8, CallIs, Continues
<1>9. call[c].at = "idle"
  BY DEF Begin
<1> QED BY <1>q, <1>7, <1>9 DEF Outcome, Moved

LEMMA LookupKeeps == ASSUME AdminInv, NEW c \in Callers, Lookup(c) PROVE Outcome(c)
<1> DEFINE k == call[c]
<1>1. Good(k) /\ k \in Calls(KnownMethods) /\ Sound(k.method) /\ thing \in {Absent} \cup Values
  BY CallIs
<1>2. k.at = "lookup"
  BY DEF Lookup
<1>3. k.method.lookup \in {"absent", "there"}
  BY <1>1, <1>2 DEF Sound, Good
<1>4. PICK at : /\ Continue(c, [k EXCEPT !.at = at], thing)
                /\ at \in {"error", CASE k.method.lookup = "absent" -> IF Present THEN "exists" ELSE "request"
                                      [] k.method.lookup = "there" -> IF Present THEN "request" ELSE "panic"}
  BY DEF Lookup, End
<1> HIDE DEF k
<1>5. /\ at \in {"error", "exists", "request", "panic"}
      /\ at = "exists" => thing # Absent
      /\ at = "request" /\ k.method.lookup = "absent" => thing = Absent
  BY <1>3, <1>4 DEF Present
<1> DEFINE next == [k EXCEPT !.at = at]
<1>6. /\ next \in Calls(KnownMethods) /\ next.at = at /\ next.method = k.method /\ next.lost = k.lost
      /\ next.late = k.late /\ next.issued = k.issued /\ next.saw = k.saw
  <2>1. at \in Places
    BY <1>5 DEF Places
  <2> QED BY <2>1, <1>1, EndIs
<1>7. Continue(c, next, thing)
  BY <1>4
<1> HIDE DEF next
<1>8. GoodWith(next, thing)
  BY <1>1, <1>2, <1>5, <1>6 DEF GoodWith, Good
<1>q. AdminInv' /\ Moved(c, next, thing)
  BY <1>1, <1>6, <1>7, <1>8, Continues
<1> QED BY <1>q, <1>6 DEF Outcome, Moved, k

(* A request that is answered, done or not.                                   *)
LEMMA AfterIs ==
    ASSUME NEW ms, NEW c \in Callers, call[c] \in Calls(ms), NEW status
    PROVE  LET a == After(c, status)
           IN  /\ a \in Calls(ms) /\ a.at \in {"request", "error", "nil", "absent", "exists"}
               /\ a.at \in {"request", "error"} \/ (a.at = Verdict(call[c].method, status) /\ ~Retries(status))
               /\ a.method = call[c].method /\ a.arg = call[c].arg /\ a.lost = call[c].lost
               /\ a.late = call[c].late /\ a.issued = call[c].issued /\ a.done = call[c].done
               /\ a.saw = call[c].saw
<1>1. CASE Retries(status)
  BY <1>1, AgainIs DEF After
<1>2. CASE ~Retries(status)
  <2> DEFINE verdict == Verdict(call[c].method, status)
  <2>1. verdict \in {"nil", "absent", "exists", "error"} /\ verdict \in Places
    BY DEF Verdict, Places
  <2>2. After(c, status) = [call[c] EXCEPT !.at = verdict]
    BY Zenon, <1>2 DEF After
  <2> HIDE DEF verdict
  <2>3. QED BY <2>1, <2>2, <1>2, EndIs DEF verdict
<1> QED BY <1>1, <1>2

LEMMA ServedKeeps == ASSUME AdminInv, NEW c \in Callers, Served(c) PROVE Outcome(c)
<1> DEFINE k == call[c]
           m == call[c].method
           t == IF Effective(m) THEN Done(m.request, Body(m, k.arg)) ELSE thing
<1>1. /\ Good(k) /\ k \in Calls(KnownMethods) /\ Sound(m) /\ k.arg \in Values
      /\ k.issued \in Nat /\ k.lost \in Nat /\ k.late \in BOOLEAN /\ k.done \in BOOLEAN
      /\ thing \in {Absent} \cup Values
  BY CallIs
<1>2. k.at = "request" /\ Able(m.request)
  BY DEF Served
<1>3. PICK status \in Success(m) :
        \E outcome \in Outcomes(c, status) :
           Continue(c, [outcome EXCEPT !.issued = @ + Issued(m), !.done = @ \/ m.dry = "on"], t)
  BY Zenon DEF Served
<1>a. PICK a \in Outcomes(c, status) :
        Continue(c, [a EXCEPT !.issued = @ + Issued(m), !.done = @ \/ m.dry = "on"], t)
  BY <1>3
<1> DEFINE issued == a.issued + Issued(m)
           done == a.done \/ m.dry = "on"
           next == [a EXCEPT !.issued = issued, !.done = done]
<1>4. Continue(c, next, t)
  BY Zenon, <1>a
<1>5. /\ t \in {Absent} \cup Values
      /\ Effective(m) => AsAsked(m, k.arg, t)
  <2>1. /\ Done(m.request, Body(m, k.arg)) \in {Absent} \cup Values
        /\ AsAsked(m, k.arg, Done(m.request, Body(m, k.arg)))
    BY <1>1, <1>2, DoneIs
  <2> QED BY Zenon, <2>1, <1>1
<1>6. /\ a \in Calls(KnownMethods) /\ a.at \in {"nil", "garbled"} /\ a.method = m /\ a.arg = k.arg
      /\ a.lost = k.lost /\ a.late = k.late /\ a.issued = k.issued /\ a.done = k.done /\ a.saw = k.saw
  <2> DEFINE e == After(c, status)
  <2>1. status \in m.accepts /\ status \in {200, 201, 202, 204}
    BY DEF Success
  <2>2. ~Retries(status) /\ Verdict(m, status) = "nil"
    BY <2>1 DEF Retries, Verdict
  <2>3. /\ e \in Calls(KnownMethods) /\ e.method = m /\ e.arg = k.arg
        /\ e.lost = k.lost /\ e.late = k.late /\ e.issued = k.issued /\ e.done = k.done /\ e.saw = k.saw
    BY <1>1, AfterIs
  <2>4. e = [k EXCEPT !.at = "nil"]
    BY Zenon, <2>2 DEF After
  <2>5. "nil" \in Places /\ "garbled" \in Places
    BY DEF Places
  <2>6. e.at = "nil"
    BY <2>4, <2>5, <1>1, EndIs
  <2>7. a = e \/ a = [e EXCEPT !.at = "garbled"]
    BY DEF Outcomes
  <2> HIDE DEF e, k, m
  <2>8. CASE a = e
    BY <2>3, <2>6, <2>8
  <2>9. CASE a = [e EXCEPT !.at = "garbled"]
    BY <2>3, <2>5, <2>9, EndIs
  <2> QED BY <2>7, <2>8, <2>9
<1>7. issued \in Nat /\ done \in BOOLEAN /\ issued = k.issued + Issued(m) /\ (done <=> k.done \/ m.dry = "on")
  <2>1. issued \in Nat /\ issued = k.issued + Issued(m)
    BY <1>1, <1>6, IssuedIs
  <2>2. done \in BOOLEAN /\ (done <=> k.done \/ m.dry = "on")
    BY Zenon, <1>6
  <2> QED BY <2>1, <2>2
<1> HIDE DEF issued, done, t
<1>8. /\ next \in Calls(KnownMethods) /\ next.at = a.at /\ next.method = m /\ next.arg = k.arg
      /\ next.lost = k.lost /\ next.late = k.late /\ next.issued = issued /\ next.done = done
      /\ next.saw = k.saw
  BY <1>6, <1>7 DEF Calls
<1> HIDE DEF next
<1>9. GoodWith(next, t)
  <2>1. Effective(m) \/ m.dry = "on"
    BY DEF Effective
  <2>2. /\ Issued(m) \in {0, 1} /\ (m.dry = "on" => Issued(m) = 0)
        /\ (m.request = "issue" /\ Effective(m) => Issued(m) = 1)
    BY IssuedIs
  <2>3. next.done \/ AsAsked(m, k.arg, t)
    BY Zenon, <2>1, <1>5, <1>7, <1>8
  <2> HIDE DEF k, m
  <2>4. next.issued = k.issued + Issued(m)
    BY <1>7, <1>8
  <2>5. /\ k.issued + (IF k.late THEN 1 ELSE 0) <= k.lost
        /\ m.dry = "on" => k.issued = 0
        /\ m.lookup = "absent" => "gone" \in k.saw
    BY <1>1, <1>2 DEF Good, k, m
  <2> QED BY <2>2, <2>3, <2>4, <2>5, <1>1, <1>6, <1>8 DEF GoodWith
<1> HIDE DEF k, m
<1>q. AdminInv' /\ Moved(c, next, t)
  BY <1>4, <1>5, <1>8, <1>9, Continues
<1> QED BY <1>q, <1>2, <1>8 DEF Outcome, Moved, Works, t, k, m

LEMMA NotServedKeeps == ASSUME AdminInv, NEW c \in Callers, NotServed(c) PROVE Outcome(c)
<1> DEFINE k == call[c]
           m == call[c].method
<1>1. /\ Good(k) /\ k \in Calls(KnownMethods) /\ Sound(m) /\ thing \in {Absent} \cup Values
      /\ k.issued \in Nat /\ k.lost \in Nat
  BY CallIs
<1>2. k.at = "request"
  BY DEF NotServed
<1>3. PICK status \in Refusals \cup (IF Able(m.request) THEN {} ELSE Unable(m.request)) :
        Continue(c, After(c, status), thing)
  BY Zenon DEF NotServed
<1> DEFINE a == After(c, status)
<1>4. /\ a \in Calls(KnownMethods) /\ a.at \in {"request", "error", "nil", "absent", "exists"}
      /\ a.at \in {"request", "error"} \/ a.at = Verdict(m, status)
      /\ a.method = m /\ a.lost = k.lost /\ a.late = k.late /\ a.issued = k.issued /\ a.saw = k.saw
  BY <1>1, AfterIs
<1>5. status \in {0, 1, 400, 401, 403, 404, 409, 503}
  BY DEF Refusals, Unable, Empty, Already
<1>6. a.at # "nil"
  <2>1. status \notin m.accepts
    BY <1>1, <1>5 DEF Sound
  <2> QED BY <2>1, <1>4 DEF Verdict
<1>7. a.at = "absent" /\ m # IsRepoExists => thing = Absent
  <2> SUFFICES ASSUME a.at = "absent", m # IsRepoExists PROVE thing = Absent
    OBVIOUS
  <2>1. status \in m.missing
    BY <1>4 DEF Verdict
  <2>2. status \notin Refusals /\ m.request \in {"get", "find", "decrypt"}
    BY <1>1, <2>1 DEF Sound
  <2>3. ~Able(m.request)
    BY <2>2
  <2> QED BY <2>2, <2>3 DEF Able, Present
<1>8. a.at = "exists" => thing # Absent
  <2> SUFFICES ASSUME a.at = "exists" PROVE thing # Absent
    OBVIOUS
  <2>1. status \in m.conflict
    BY <1>4 DEF Verdict
  <2>2. /\ status \notin Refusals
        /\ m.request = "create" \/ (m.request = "overwrite" /\ 404 \notin m.conflict)
    BY <1>1, <2>1 DEF Sound
  <2>3. ~Able(m.request) /\ status \in Unable(m.request)
    BY <2>2
  <2>4. m.request = "create"
    BY <2>1, <2>2, <2>3 DEF Unable
  <2> QED BY <2>3, <2>4 DEF Able, Present
<1> HIDE DEF a
<1>9. GoodWith(a, thing)
  <2>1. /\ k.issued \in Nat /\ k.lost \in Nat
        /\ k.issued + (IF k.late THEN 1 ELSE 0) <= k.lost
        /\ m.dry = "on" => k.issued = 0
        /\ m.lookup = "absent" => "gone" \in k.saw
    BY <1>1, <1>2 DEF Good
  <2> HIDE DEF k, m
  <2> QED BY <1>4, <1>6, <1>7, <1>8, <2>1 DEF GoodWith
<1>10. Continue(c, a, thing)
  BY <1>3 DEF a
<1>q. AdminInv' /\ Moved(c, a, thing)
  BY <1>1, <1>4, <1>9, <1>10, Continues
<1> QED BY <1>q, <1>4 DEF Outcome, Moved, k, m

LEMMA AnswerLostKeeps == ASSUME AdminInv, NEW c \in Callers, AnswerLost(c) PROVE Outcome(c)
<1> DEFINE k == call[c]
           m == call[c].method
           t == IF Effective(m) THEN Done(m.request, Body(m, k.arg)) ELSE thing
           a == Again(c)
           issued == a.issued + Issued(m)
           losses == a.lost + 1
           next == [a EXCEPT !.issued = issued, !.lost = losses]
<1>1. /\ Good(k) /\ k \in Calls(KnownMethods) /\ k.arg \in Values
      /\ k.issued \in Nat /\ k.lost \in Nat /\ k.late \in BOOLEAN /\ thing \in {Absent} \cup Values
  BY CallIs
<1>2. k.at = "request" /\ Able(m.request) /\ Continue(c, next, t)
  BY Zenon DEF AnswerLost
<1>3. t \in {Absent} \cup Values
  <2>1. Done(m.request, Body(m, k.arg)) \in {Absent} \cup Values
    BY <1>1, <1>2, DoneIs
  <2> QED BY Zenon, <2>1, <1>1
<1>4. /\ a \in Calls(KnownMethods) /\ a.at \in {"request", "error"} /\ a.method = m
      /\ a.lost = k.lost /\ a.late = k.late /\ a.issued = k.issued /\ a.saw = k.saw
  BY <1>1, AgainIs
<1>5. Issued(m) \in {0, 1} /\ (m.dry = "on" => Issued(m) = 0)
  BY IssuedIs
<1> HIDE DEF a, t
<1>6. issued \in Nat /\ losses \in Nat /\ issued = k.issued + Issued(m) /\ losses = k.lost + 1
  BY <1>1, <1>4, <1>5
<1> HIDE DEF issued, losses
<1>7. /\ next \in Calls(KnownMethods) /\ next.at = a.at /\ next.method = m
      /\ next.lost = losses /\ next.late = k.late /\ next.issued = issued /\ next.saw = k.saw
  BY <1>4, <1>6 DEF Calls
<1>8. /\ k.issued + (IF k.late THEN 1 ELSE 0) <= k.lost
      /\ m.dry = "on" => k.issued = 0
      /\ m.lookup = "absent" => "gone" \in k.saw
  BY <1>1, <1>2 DEF Good
<1> HIDE DEF next, k, m
<1>9. GoodWith(next, t)
  BY <1>1, <1>4, <1>5, <1>6, <1>7, <1>8 DEF GoodWith
<1>q. AdminInv' /\ Moved(c, next, t)
  BY <1>2, <1>3, <1>7, <1>9, Continues
<1> QED BY <1>q, <1>2, <1>7 DEF Outcome, Moved, Works, t, k, m

LEMMA RequestLostKeeps == ASSUME AdminInv, NEW c \in Callers, RequestLost(c) PROVE Outcome(c)
<1> DEFINE k == call[c]
           a == Again(c)
<1>1. Good(k) /\ k \in Calls(KnownMethods) /\ thing \in {Absent} \cup Values
  BY CallIs
<1>2. k.at = "request" /\ Continue(c, a, thing)
  BY Zenon DEF RequestLost
<1>3. /\ a \in Calls(KnownMethods) /\ a.at \in {"request", "error"} /\ a.method = k.method
      /\ a.lost = k.lost /\ a.late = k.late /\ a.issued = k.issued /\ a.saw = k.saw
  BY <1>1, AgainIs
<1> HIDE DEF a, k
<1>4. GoodWith(a, thing)
  BY <1>1, <1>2, <1>3 DEF Good, GoodWith
<1>q. AdminInv' /\ Moved(c, a, thing)
  BY <1>1, <1>2, <1>3, <1>4, Continues
<1> QED BY <1>q, <1>3 DEF Outcome, Moved, k

LEMMA DelayedKeeps == ASSUME AdminInv, NEW c \in Callers, Delayed(c) PROVE Outcome(c)
<1> DEFINE k == call[c]
           a == Again(c)
           losses == a.lost + 1
           next == [a EXCEPT !.late = TRUE, !.lost = losses]
<1>1. /\ Good(k) /\ k \in Calls(KnownMethods) /\ k.issued \in Nat /\ k.lost \in Nat
      /\ thing \in {Absent} \cup Values
  BY CallIs
<1>2. k.at = "request" /\ ~k.late /\ Continue(c, next, thing)
  BY Zenon DEF Delayed
<1>3. /\ a \in Calls(KnownMethods) /\ a.at \in {"request", "error"} /\ a.method = k.method
      /\ a.lost = k.lost /\ a.issued = k.issued /\ a.saw = k.saw
  BY <1>1, AgainIs
<1>4. losses \in Nat /\ losses = k.lost + 1
  BY <1>1, <1>3
<1> HIDE DEF a, losses
<1>5. /\ next \in Calls(KnownMethods) /\ next.at = a.at /\ next.method = k.method
      /\ next.lost = losses /\ next.late = TRUE /\ next.issued = k.issued /\ next.saw = k.saw
  BY <1>3, <1>4 DEF Calls
<1> HIDE DEF next, k
<1>6. GoodWith(next, thing)
  BY <1>1, <1>2, <1>3, <1>4, <1>5 DEF Good, GoodWith
<1>q. AdminInv' /\ Moved(c, next, thing)
  BY <1>1, <1>2, <1>5, <1>6, Continues
<1> QED BY <1>q, <1>5 DEF Outcome, Moved, k

LEMMA ArrivesKeeps == ASSUME AdminInv, NEW c \in Callers, Arrives(c) PROVE Outcome(c)
<1> DEFINE k == call[c]
           m == call[c].method
           t == IF Effective(m) THEN Done(m.request, Body(m, k.arg)) ELSE thing
           a == [k EXCEPT !.late = FALSE]
           issued == a.issued + Issued(m)
           next == [a EXCEPT !.issued = issued]
<1>1. /\ Good(k) /\ k \in Calls(KnownMethods) /\ k.arg \in Values
      /\ k.issued \in Nat /\ k.lost \in Nat /\ k.done \in BOOLEAN /\ thing \in {Absent} \cup Values
  BY CallIs
<1>2. k.late /\ (IF Able(m.request) THEN Continue(c, next, t) ELSE Continue(c, a, thing))
  BY Zenon DEF Arrives
<1>3. /\ a \in Calls(KnownMethods) /\ a.at = k.at /\ a.method = m /\ a.arg = k.arg /\ a.lost = k.lost
      /\ a.late = FALSE /\ a.issued = k.issued /\ a.done = k.done /\ a.saw = k.saw
  BY <1>1, ArrivedIs
<1>4. Issued(m) \in {0, 1} /\ (m.dry = "on" => Issued(m) = 0)
  BY IssuedIs
<1>5. CASE Able(m.request)
  <2>1. t \in {Absent} \cup Values
    <3>1. Done(m.request, Body(m, k.arg)) \in {Absent} \cup Values
      BY <1>1, <1>5, DoneIs
    <3> QED BY Zenon, <3>1, <1>1
  <2> HIDE DEF a, t
  <2>2. issued \in Nat /\ issued = k.issued + Issued(m)
    BY <1>1, <1>3, <1>4
  <2> HIDE DEF issued
  <2>3. /\ next \in Calls(KnownMethods) /\ next.at = k.at /\ next.method = m /\ next.arg = k.arg
        /\ next.lost = k.lost /\ next.late = FALSE /\ next.issued = issued /\ next.done = k.done
        /\ next.saw = k.saw
    BY <1>3, <2>2 DEF Calls
  <2>4. Continue(c, next, t)
    BY <1>2, <1>5
  <2>5. /\ k.issued + 1 <= k.lost + (IF k.at \in {"nil", "garbled"} THEN 1 ELSE 0)
        /\ m.dry = "on" => k.issued = 0
        /\ m.lookup = "absent" => "gone" \in k.saw
    BY <1>1, <1>2 DEF Good
  <2>6. /\ k.at = "lookup" => m.lookup # "no"
        /\ k.at = "nil" => k.done
        /\ k.at = "nil" /\ m.request = "issue" /\ Effective(m) => k.issued > 0
        /\ k.at = "absent" /\ m # IsRepoExists => "gone" \in k.saw
        /\ k.at = "exists" => "there" \in k.saw
    BY <1>1 DEF Good
  <2> HIDE DEF next, k, m
  <2>7. GoodWith(next, t)
    BY <1>1, <1>4, <2>2, <2>3, <2>5, <2>6 DEF GoodWith
  <2>q. AdminInv' /\ Moved(c, next, t)
    BY <2>1, <2>3, <2>4, <2>7, Continues
  <2> QED BY <2>q, <1>2, <1>5, <2>3 DEF Outcome, Moved, Works, t, k, m
<1>6. CASE ~Able(m.request)
  <2> HIDE DEF a, k
  <2>1. Continue(c, a, thing)
    BY <1>2, <1>6
  <2>2. a.method = k.method
    BY <1>3 DEF k
  <2>3. GoodWith(a, thing)
    BY <1>1, <1>2, <1>3, <2>2 DEF Good, GoodWith
  <2>q. AdminInv' /\ Moved(c, a, thing)
    BY <1>1, <1>3, <2>1, <2>3, Continues
  <2> QED BY <2>q, <2>2 DEF Outcome, Moved, k
<1> QED BY <1>5, <1>6

-----------------------------------------------------------------------------
(* The invariant, and what follows from it.                                   *)

LEMMA AdminInitially == AdminInit => AdminInv
<1> SUFFICES ASSUME AdminInit PROVE AdminInv
  OBVIOUS
<1>1. NoCall \in Calls(KnownMethods) /\ Good(NoCall)
  BY DEF Calls, KnownMethods, NoCall, NoMethod, Method, Good, Places, Values, Sights
<1>2. call \in [Callers -> Calls(KnownMethods)] /\ CallsGood
  BY <1>1 DEF AdminInit, CallsGood
<1>3. kind \in Kinds /\ dryRun \in BOOLEAN /\ thing \in {Absent} \cup Values
  BY DEF AdminInit, Values
<1> QED BY <1>2, <1>3, TypedCalls DEF AdminInv

LEMMA StepKeeps == ASSUME AdminInv, NEW c \in Callers, Step(c) PROVE Outcome(c)
BY Zenon, BeginKeeps, LookupKeeps, ServedKeeps, NotServedKeeps, AnswerLostKeeps, RequestLostKeeps,
   DelayedKeeps, ArrivesKeeps DEF Step

LEMMA AdminInductive == AdminInv /\ [AdminNext]_adminVars => AdminInv'
<1> SUFFICES ASSUME AdminInv, [AdminNext]_adminVars PROVE AdminInv'
  OBVIOUS
<1>1. ASSUME NEW c \in Callers, Step(c) PROVE AdminInv'
  BY <1>1, StepKeeps DEF Outcome
<1>2. ASSUME UNCHANGED adminVars PROVE AdminInv'
  <2>1. kind' = kind /\ dryRun' = dryRun /\ thing' = thing /\ call' = call
    BY <1>2 DEF adminVars
  <2>2. KnownMethods' = KnownMethods
    BY <2>1, SameMethods
  <2>3. AdminTypeOK'
    BY Zenon, <2>1, <2>2 DEF AdminInv, AdminTypeOK, KnownMethods
  <2>4. CallsGood'
    BY <2>1 DEF AdminInv, CallsGood
  <2> QED BY <2>3, <2>4 DEF AdminInv
<1> QED BY <1>1, <1>2 DEF AdminNext

LEMMA AdminInvariant == AdminSpec => []AdminInv
BY AdminInitially, AdminInductive, PTL DEF AdminSpec

(* Every call is at one of its places, with a method of the kind of thing and *)
(* a value for every field, whatever was tried again, lost or delayed.        *)
THEOREM AdminTypeCorrect == AdminSpec => []AdminTypeOK
<1>1. AdminInv => AdminTypeOK
  BY DEF AdminInv
<1> QED BY <1>1, AdminInvariant, PTL

(* A method returns nil only if the server held what the call asked for, or   *)
(* made what it asked for, during the call.                                   *)
THEOREM NilMeansDoneHolds == AdminSpec => []NilMeansDone
<1>1. AdminInv => NilMeansDone
  BY Zenon DEF AdminInv, CallsGood, Good, NilMeansDone
<1> QED BY <1>1, AdminInvariant, PTL

(* "Not there" and "already exists" are what the server had during the call.  *)
THEOREM AbsenceIsRealHolds == AdminSpec => []AbsenceIsReal
<1>1. AdminInv => AbsenceIsReal
  BY Zenon DEF AdminInv, CallsGood, Good, AbsenceIsReal
<1> QED BY <1>1, AdminInvariant, PTL

(* Nothing is made for which there was not an answer that was lost, or one    *)
(* that arrived and ended the call: with nil, or with the error that its body *)
(* could not be decoded.                                                      *)
THEOREM IssuedOnceHolds == AdminSpec => []IssuedOnce
<1>1. AdminInv => IssuedOnce
  <2> SUFFICES ASSUME AdminInv, NEW c \in Callers
               PROVE  call[c].issued <= call[c].lost + (IF call[c].at \in {"nil", "garbled"} THEN 1 ELSE 0)
    BY DEF IssuedOnce
  <2>1. /\ call[c].issued \in Nat /\ call[c].lost \in Nat /\ Good(call[c])
    BY CallIs
  <2> QED BY <2>1 DEF Good
<1> QED BY <1>1, AdminInvariant, PTL

(* An update of a user or a group leaves the fields that are not sent.        *)
LEMMA MergeKeeps ==
    ASSUME NEW m, NEW arg \in Values, m.request = "merge", Present,
           m.sends \in {"set", "clear", "nothing"}, thing' = Done(m.request, Body(m, arg))
    PROVE  /\ m.sends # "clear" => \A f \in Fields : arg[f] = Zero => thing'[f] = thing[f]
           /\ m.sends = "clear" => thing'["list"] = Zero
<1> DEFINE body == Body(m, arg)
<1>1. thing' = [f \in Fields |-> IF f \in DOMAIN body THEN body[f] ELSE thing[f]]
  BY DEF Done
<1>2. DOMAIN body = Sent(m, arg)
  BY DEF Body
<1>3. ASSUME m.sends # "clear", NEW f \in Fields, arg[f] = Zero PROVE thing'[f] = thing[f]
  <2>1. f \notin Sent(m, arg)
    BY <1>3 DEF Sent
  <2> HIDE DEF body
  <2> QED BY <1>1, <1>2, <2>1
<1>4. ASSUME m.sends = "clear" PROVE thing'["list"] = Zero
  <2>1. "list" \in Sent(m, arg) /\ "list" \in Fields
    BY <1>4 DEF Sent, Fields
  <2>2. body["list"] = Zero
    BY <1>4, <2>1 DEF Body
  <2> HIDE DEF body
  <2> QED BY <1>1, <1>2, <2>1, <2>2
<1> QED BY <1>3, <1>4

(* No step touches what its call may not: a thing that was there all along, a *)
(* field of a user or a group that the caller did not set, anything in a dry  *)
(* run.                                                                       *)
THEOREM OthersKeptHolds == AdminSpec => OthersKept
<1> DEFINE Kept(c) ==
      Moves(c) =>
        /\ call[c].method.keeps = "existing" /\ call[c].saw = {"there"} /\ Present => thing' = thing
        /\ kind \in {"user", "group"} /\ call[c].method.request = "merge" /\ thing # Absent =>
             /\ call[c].method.sends # "clear" => \A f \in Fields : call[c].arg[f] = Zero => thing'[f] = thing[f]
             /\ thing' # thing /\ call[c].method.sends = "clear" => thing'["list"] = Zero
        /\ dryRun /\ kind # "system" /\ call'[c].method.dry # "none" => thing' = thing /\ call'[c].issued = 0
<1>1. ASSUME AdminInv, [AdminNext]_adminVars, NEW c \in Callers, Moves(c) PROVE Kept(c)
  <2> DEFINE m == call[c].method
  <2>1. PICK d \in Callers : Step(d)
    <3>1. call' # call
      BY <1>1 DEF Moves
    <3> QED BY <1>1, <3>1 DEF AdminNext, adminVars
  <2>2. Outcome(d)
    BY <1>1, <2>1, StepKeeps
  <2>3. c = d
    BY <1>1, <2>2 DEF Outcome, Moves
  <2>4. /\ AdminInv' /\ kind' = kind /\ dryRun' = dryRun /\ (thing' = thing \/ Works(c))
        /\ call'[c].method = m \/ (thing' = thing /\ call'[c].issued = 0)
    BY <2>2, <2>3 DEF Outcome
  <2>5. /\ Good(call[c]) /\ Sound(m) /\ Modest(m, kind) /\ call[c].arg \in Values
    BY <1>1, CallIs
  <2>6. m.keeps = "existing" /\ call[c].saw = {"there"} /\ Present => thing' = thing
    <3> SUFFICES ASSUME m.keeps = "existing", call[c].saw = {"there"}, Present, Works(c) PROVE FALSE
      BY <2>4
    <3>1. m.request # "create"
      BY DEF Works, Able
    <3>2. m.lookup = "absent"
      BY <3>1, <2>5 DEF Sound
    <3>3. "gone" \in call[c].saw
      BY <3>2, <2>5 DEF Works, Good
    <3> QED BY <3>3
  <2>7. ASSUME kind \in {"user", "group"}, m.request = "merge", thing # Absent
        PROVE  /\ m.sends # "clear" => \A f \in Fields : call[c].arg[f] = Zero => thing'[f] = thing[f]
               /\ thing' # thing /\ m.sends = "clear" => thing'["list"] = Zero
    <3>1. CASE thing' = thing
      BY <3>1
    <3>2. CASE Works(c)
      <4>1. m.sends \in {"set", "clear", "nothing"} /\ Present
        BY <2>5, <2>7 DEF Modest, Present
      <4>2. thing' = Done(m.request, Body(m, call[c].arg))
        BY <3>2 DEF Works
      <4> HIDE DEF m
      <4> QED BY <2>5, <2>7, <4>1, <4>2, MergeKeeps
    <3> QED BY <3>1, <3>2, <2>4
  <2>8. ASSUME dryRun, kind # "system", call'[c].method.dry # "none"
        PROVE  thing' = thing /\ call'[c].issued = 0
    <3>1. CASE call'[c].method = m
      <4>1. m.dry = "on"
        BY <2>5, <2>8, <3>1 DEF Modest
      <4>2. thing' = thing
        BY <4>1, <2>4 DEF Works, Effective
      <4>3. Good(call[c])'
        BY <2>4 DEF AdminInv, CallsGood
      <4>4. call'[c].issued = 0
        BY <4>1, <4>3, <3>1 DEF Good
      <4> QED BY <4>2, <4>4
    <3>2. CASE thing' = thing /\ call'[c].issued = 0
      BY <3>2
    <3> QED BY <3>1, <3>2, <2>4
  <2> QED BY <2>6, <2>7, <2>8
<1>2. ASSUME AdminInv, [AdminNext]_adminVars PROVE [\A c \in Callers : Kept(c)]_adminVars
  <2>1. ASSUME NEW c \in Callers PROVE Kept(c)
    <3>1. CASE Moves(c)
      BY <1>1, <1>2, <3>1
    <3>2. CASE ~Moves(c)
      BY Zenon, <3>2
    <3> QED BY <3>1, <3>2
  <2> QED BY <2>1
<1>3. AdminInv /\ [AdminNext]_adminVars => [\A c \in Callers : Kept(c)]_adminVars
  BY <1>2
<1> QED BY <1>3, AdminInvariant, PTL DEF AdminSpec, OthersKept

=============================================================================
