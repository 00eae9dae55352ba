----------------------- MODULE ConcurrentDownload_proofs ----------------------
(* Proofs about ConcurrentDownload for every file size, number of chunks and  *)
(* number of retries.                                                         *)
EXTENDS ConcurrentDownload, WellFoundedInduction, TLAPS

(* The ranges cut the file exactly, also when the size does not divide.       *)
THEOREM RangesPartitionFile == RangesPartition
<1> USE SizeAssumption, SplitAssumption
<1>1. chunkSize \in Nat /\ mod \in Nat /\ FileSize = SplitCount * chunkSize + mod
  BY DEF chunkSize, mod
<1>2. ChunkStart(0) = 0
  BY <1>1 DEF ChunkStart
<1>3. \A k \in Chunks : ChunkStart(k) <= ChunkEnd(k)
  <2> TAKE k \in Chunks
  <2>1. chunkSize * (k + 1) = chunkSize * k + chunkSize
    BY <1>1 DEF Chunks
  <2>2. chunkSize * k \in Nat
    BY <1>1 DEF Chunks
  <2> QED BY <1>1, <2>1, <2>2 DEF ChunkStart, ChunkEnd
<1>4. \A k \in Chunks \ {SplitCount - 1} : ChunkEnd(k) = ChunkStart(k + 1)
  BY <1>1 DEF ChunkStart, ChunkEnd, Chunks
<1>5. ChunkEnd(SplitCount - 1) = FileSize
  BY <1>1 DEF ChunkEnd
<1> QED BY <1>2, <1>3, <1>4, <1>5 DEF RangesPartition

(* A file of at least one byte per chunk has no empty range.                  *)
THEOREM RangesUsable == FileSize >= SplitCount => \A k \in Chunks : RangeUsable(k)
<1> SUFFICES ASSUME FileSize >= SplitCount, NEW k \in Chunks
             PROVE  RangeUsable(k)
  OBVIOUS
<1> USE SizeAssumption, SplitAssumption
<1>1. chunkSize \in Nat /\ mod \in Nat /\ mod < SplitCount
      /\ FileSize = SplitCount * chunkSize + mod
  BY DEF chunkSize, mod
<1>2. chunkSize >= 1
  <2>1. CASE chunkSize = 0
    BY <1>1, <2>1
  <2> QED BY <1>1, <2>1
<1>3. chunkSize * (k + 1) = chunkSize * k + chunkSize /\ chunkSize * k \in Nat
  BY <1>1 DEF Chunks
<1> QED BY <1>1, <1>2, <1>3 DEF RangeUsable, ChunkStart, ChunkEnd

-----------------------------------------------------------------------------
(* What a goroutine may hand over: no error means a response, and a 206 comes *)
(* with the bytes of its range.                                               *)
Honest(g) ==
    g.err = Nil => g.resp # None /\ (g.resp = Partial => g.data # "none")

(* The slots of the lists belong to the goroutines.                           *)
SlotInv ==
    \A k \in Chunks :
        /\ chunk[k].pc \in {"idle", "fetch", "store"} => lists[k] = Nothing
        /\ chunk[k].pc \in {"flag", "gone"} => Honest(lists[k])
        /\ chunk[k].pc = "store" => Honest(chunk[k].got)

(* The goroutines launched are those below the loop index.                    *)
LaunchInv ==
    pc \in {"launch", "wait", "collect"} =>
        \A k \in Chunks : chunk[k].pc = "idle" <=> k >= i

(* The shared variables only ever tell of failures that are in the lists.     *)
FlagInv ==
    /\ err # Nil => \E k \in Chunks : chunk[k].pc # "idle" /\ lists[k].err # Nil
    /\ resp # None => \E k \in Chunks : /\ chunk[k].pc # "idle"
                                        /\ lists[k].resp \notin {None, Partial}

(* The loop is left early only because of such a failure.                     *)
StopInv ==
    pc \in {"wait", "collect"} => i = SplitCount \/ err # Nil \/ resp # None

AllArrived == Failed = {} /\ Rejected = {}

(* From the preparation on, everything arrived.                               *)
MergeInv ==
    /\ pc \in {"prepare", "merge"} =>
         AllArrived /\ result = [resp |-> Partial, err |-> Nil]
    /\ pc = "merge" => dest.parts = [n \in 1 .. i |-> n - 1]
    /\ pc = "merge" /\ i > 0 => dest.kind = "merged"
    /\ dest.kind # "old" => AllArrived
    /\ pc \in {"launch", "wait", "collect"} => result = [resp |-> None, err |-> Nil]

(* What is returned, once it is known.                                        *)
ResultInv ==
    pc \in {"cleanup", "done"} =>
        /\ Failed # {} => result.resp = None /\ result.err # Nil
        /\ result.err = Nil => result.resp # None
        /\ result.err = Nil /\ result.resp # Partial =>
             /\ Failed = {}
             /\ \E k \in Chunks : /\ result.resp = lists[k].resp
                                  /\ \A j \in 0 .. k - 1 : lists[j].resp = Partial
        /\ result.resp = Partial => AllArrived
        /\ result.err = Nil /\ result.resp = Partial =>
             /\ dest.kind \in {"merged", "extracted"}
             /\ InOrder(dest.parts)
             /\ ChecksumMatches

IInv ==
    /\ TypeOK /\ JoinedBeforeUse /\ NoNilResponseRead
    /\ SlotInv /\ LaunchInv /\ FlagInv /\ StopInv /\ MergeInv /\ ResultInv

-----------------------------------------------------------------------------
(* Every nonempty set of chunks has a first one.                              *)
LEMMA FirstIsLeast ==
  ASSUME NEW S, S \subseteq Chunks, S # {}
  PROVE  First(S) \in S /\ \A j \in S : First(S) <= j
<1>1. S \subseteq Nat
  BY DEF Chunks
<1>2. PICK x \in S : \A y \in S : ~(<<y, x>> \in OpToRel(<, Nat))
  BY <1>1, WFMin, NatLessThanWellFounded
<1>3. \A y \in S : ~(y < x)
  <2> SUFFICES ASSUME NEW y \in S, y < x PROVE FALSE
    OBVIOUS
  <2>1. <<y, x>> \in OpToRel(<, Nat)
    BY <1>1 DEF OpToRel
  <2> QED BY <1>2, <2>1
<1>4. \A y \in S : x <= y
  BY <1>1, <1>3
<1> QED BY <1>4 DEF First

(* The scan of the lists, once every goroutine launched is gone: an error     *)
(* without a response, else the first response that is not a 206, else 206.   *)
LEMMA ScanIsSound ==
  ASSUME TypeOK, SlotInv, LaunchInv, FlagInv, StopInv, pc = "collect", Joined
  PROVE  /\ Failed # {} => Scan.resp = None /\ Scan.err # Nil /\ Scan.err \in Errors
         /\ Failed = {} =>
              /\ Scan.err = Nil
              /\ Scan.resp \in Statuses \ {None}
              /\ Scan.resp = Partial => Rejected = {}
              /\ Scan.resp # Partial =>
                   \E k \in Chunks : /\ Scan.resp = lists[k].resp
                                     /\ \A j \in 0 .. k - 1 : lists[j].resp = Partial
<1> USE SplitAssumption
<1>0. /\ i \in 0 .. SplitCount
      /\ \A k \in Chunks : lists[k].resp \in Statuses /\ lists[k].err \in Errors
  BY DEF TypeOK, Fetched
<1>1. Failed \subseteq Chunks /\ Rejected \subseteq Chunks
  BY DEF Failed, Rejected
<1>2. ASSUME Failed # {}
      PROVE  Scan.resp = None /\ Scan.err # Nil /\ Scan.err \in Errors
  <2>1. First(Failed) \in Failed
    BY <1>1, <1>2, FirstIsLeast
  <2>2. Scan = [resp |-> None, err |-> lists[First(Failed)].err]
    BY <1>2 DEF Scan
  <2> QED BY <1>0, <2>1, <2>2 DEF Failed
<1>3. ASSUME Failed = {}, Rejected = {}
      PROVE  Scan.err = Nil /\ Scan.resp = Partial
  <2>1. SplitCount - 1 \in Chunks
    BY DEF Chunks
  <2> QED BY <1>3, <2>1 DEF Scan, Rejected
<1>4. ASSUME Failed = {}, Rejected # {}
      PROVE  /\ Scan.err = Nil
             /\ Scan.resp \in Statuses \ {None, Partial}
             /\ \E k \in Chunks : /\ Scan.resp = lists[k].resp
                                  /\ \A j \in 0 .. k - 1 : lists[j].resp = Partial
  <2> DEFINE f == First(Rejected)
  <2>1. f \in Rejected /\ \A j \in Rejected : f <= j
    BY <1>1, <1>4, FirstIsLeast
  <2>2. Scan = [resp |-> lists[f].resp, err |-> Nil]
    BY <1>4 DEF Scan
  <2>3. \A j \in 0 .. f - 1 : lists[j].resp = Partial
    BY <2>1 DEF Rejected, Chunks
  <2>4. f < i
    <3>1. CASE i = SplitCount
      BY <3>1, <2>1 DEF Rejected, Chunks
    <3>2. CASE i # SplitCount
      <4>1. err = Nil
        BY <1>4 DEF FlagInv, Failed
      <4>2. PICK k \in Chunks : chunk[k].pc # "idle" /\ lists[k].resp \notin {None, Partial}
        BY <3>2, <4>1 DEF StopInv, FlagInv
      <4>3. k < i /\ k \in Rejected
        BY <1>0, <4>2 DEF LaunchInv, Rejected, Chunks
      <4>4. f \in Chunks /\ f <= k
        BY <4>3, <2>1 DEF Rejected
      <4> QED BY <1>0, <4>3, <4>4 DEF Chunks
    <3> QED BY <3>1, <3>2
  <2>5. chunk[f].pc = "gone"
    BY <1>0, <2>1, <2>4 DEF LaunchInv, Joined, Rejected, Chunks
  <2>6. lists[f].resp \in Statuses \ {None, Partial}
    BY <1>0, <2>1, <2>5, <1>4 DEF SlotInv, Honest, Failed, Rejected
  <2> QED BY <2>1, <2>2, <2>3, <2>6 DEF Rejected
<1> QED BY <1>2, <1>3, <1>4 DEF Statuses, Partial, None

-----------------------------------------------------------------------------
(* The invariant holds when the download begins.                              *)
LEMMA InitIInv == Init => IInv
<1> SUFFICES ASSUME Init PROVE IInv
  OBVIOUS
<1> USE SplitAssumption DEF Init
<1>1. TypeOK
  BY DEF TypeOK, Fetched, Nothing, Statuses, Errors, None
<1>2. SlotInv /\ LaunchInv /\ FlagInv /\ StopInv
  BY DEF SlotInv, LaunchInv, FlagInv, StopInv, Chunks
<1>3. MergeInv /\ ResultInv /\ JoinedBeforeUse /\ NoNilResponseRead
  BY DEF MergeInv, ResultInv, JoinedBeforeUse, NoNilResponseRead
<1> QED BY <1>1, <1>2, <1>3 DEF IInv

(* The goroutines: what they fetch is honest, and they fill their own slot.   *)
LEMMA FetchIInv ==
  ASSUME IInv, NEW k \in Chunks, NEW got \in Attempts(k), Fetch(k, got)
  PROVE  IInv'
<1> USE DEF IInv
<1>1. got \in Fetched /\ Honest(got)
  BY DEF Attempts, Fetched, Statuses, Errors, Honest, None, Partial, Nil
<1>2. /\ chunk[k].pc = "fetch"
      /\ UNCHANGED <<pc, i, lists, err, resp, dest, result>>
  BY DEF Fetch
<1>3. PICK c : /\ chunk' = [chunk EXCEPT ![k] = c]
               /\ c \in [pc : {"fetch", "store"}, try : Nat, got : Fetched]
               /\ c.pc = "store" => Honest(c.got)
  <2> DEFINE retry == got.err # Nil
             c1 == [pc |-> "fetch", try |-> chunk[k].try + 1, got |-> got]
             g2 == [got EXCEPT !.err = LoopResult(retry, got.err, "none")]
             c2 == [pc |-> "store", try |-> chunk[k].try, got |-> g2]
  <2>1. c1 \in [pc : {"fetch", "store"}, try : Nat, got : Fetched] /\ c1.pc = "fetch"
    BY <1>1, <1>2 DEF TypeOK
  <2>2. g2 = got /\ c2 \in [pc : {"fetch", "store"}, try : Nat, got : Fetched]
    BY <1>1, <1>2 DEF TypeOK, LoopResult, Cancelled, ExhaustedResult, Fetched
  <2>3. chunk' = [chunk EXCEPT ![k] = c1] \/ chunk' = [chunk EXCEPT ![k] = c2]
    BY DEF Fetch, Chunk
  <2>4. Honest(c2.got)
    BY <1>1, <2>2, <1>2 DEF TypeOK
  <2> QED BY <2>1, <2>2, <2>3, <2>4
<1>4. TypeOK'
  BY <1>2, <1>3 DEF TypeOK
<1>5. \A j \in Chunks : chunk'[j] = IF j = k THEN c ELSE chunk[j]
  BY <1>3 DEF TypeOK
<1>6. SlotInv'
  BY <1>2, <1>3, <1>5 DEF SlotInv, Honest
<1>7. LaunchInv' /\ FlagInv' /\ StopInv'
  BY <1>2, <1>3, <1>5 DEF LaunchInv, FlagInv, StopInv
<1>8. MergeInv' /\ ResultInv'
  BY <1>2 DEF MergeInv, ResultInv, AllArrived, Failed, Rejected, InOrder, ChecksumMatches
<1>9. JoinedBeforeUse' /\ NoNilResponseRead'
  BY <1>2, <1>5 DEF JoinedBeforeUse, Joined, NoNilResponseRead
<1> QED BY <1>4, <1>6, <1>7, <1>8, <1>9

LEMMA StoreIInv ==
  ASSUME IInv, NEW k \in Chunks, Store(k)
  PROVE  IInv'
<1> USE DEF IInv
<1>1. /\ chunk[k].pc = "store" /\ chunk[k].got \in Fetched
      /\ UNCHANGED <<pc, i, err, resp, dest, result>>
  BY DEF Store, TypeOK
<1>2. \A j \in Chunks :
        /\ chunk'[j] = IF j = k THEN [chunk[j] EXCEPT !.pc = "flag"] ELSE chunk[j]
        /\ lists'[j] = IF j = k THEN chunk[j].got ELSE lists[j]
  BY DEF Store, Moves, Chunk, TypeOK
<1>3. TypeOK'
  BY <1>1 DEF TypeOK, Store, Moves, Chunk
<1>4. \A j \in Chunks : chunk'[j].pc = IF j = k THEN "flag" ELSE chunk[j].pc
  BY <1>2 DEF TypeOK
<1>5. SlotInv'
  <2>1. Honest(chunk[k].got)
    BY <1>1 DEF SlotInv
  <2>2. \A j \in Chunks \ {k} : chunk'[j] = chunk[j] /\ lists'[j] = lists[j]
    BY <1>2
  <2>3. chunk'[k].pc = "flag" /\ lists'[k] = chunk[k].got
    BY <1>2, <1>4
  <2>4. \A j \in Chunks \ {k} :
          /\ chunk'[j].pc \in {"idle", "fetch", "store"} => lists'[j] = Nothing
          /\ chunk'[j].pc \in {"flag", "gone"} => Honest(lists'[j])
          /\ chunk'[j].pc = "store" => Honest(chunk'[j].got)
    BY <2>2 DEF SlotInv
  <2> QED BY <2>1, <2>3, <2>4 DEF SlotInv, Honest
<1>6. LaunchInv' /\ StopInv'
  BY <1>1, <1>4 DEF LaunchInv, StopInv
<1>7. FlagInv'
  <2>1. lists[k].err = Nil /\ lists[k].resp = None
    BY <1>1 DEF SlotInv, Nothing
  <2>2. \A j \in Chunks \ {k} : chunk'[j].pc = chunk[j].pc /\ lists'[j] = lists[j]
    BY <1>2, <1>4
  <2> QED BY <1>1, <2>1, <2>2 DEF FlagInv
<1>8. ~Joined /\ pc \in {"launch", "wait"}
  BY <1>1 DEF Joined, JoinedBeforeUse, TypeOK, NoNilResponseRead
<1>9. MergeInv' /\ ResultInv' /\ JoinedBeforeUse' /\ NoNilResponseRead'
  <2>1. dest.kind = "old"
    <3> SUFFICES ASSUME dest.kind # "old" PROVE FALSE
      OBVIOUS
    <3>1. lists[k].resp = Partial
      BY DEF MergeInv, AllArrived, Rejected
    <3> QED BY <1>1, <3>1 DEF SlotInv, Nothing, Partial, None
  <2> QED BY <1>1, <1>8, <2>1 DEF MergeInv, ResultInv, JoinedBeforeUse, NoNilResponseRead
<1> QED BY <1>3, <1>5, <1>6, <1>7, <1>9

LEMMA FlagIInv ==
  ASSUME IInv, NEW k \in Chunks, Flag(k)
  PROVE  IInv'
<1> USE DEF IInv
<1>1. /\ chunk[k].pc = "flag" /\ lists[k] \in Fetched
      /\ UNCHANGED <<pc, i, lists, dest, result>>
  BY DEF Flag, TypeOK
<1>2. \A j \in Chunks : chunk'[j] = IF j = k THEN [chunk[j] EXCEPT !.pc = "gone"]
                                             ELSE chunk[j]
  BY DEF Flag, Moves, Chunk, TypeOK
<1>3. TypeOK'
  <2>1. chunk' \in [Chunks -> [pc : {"idle", "fetch", "store", "flag", "gone"},
                               try : Nat, got : Fetched]]
    BY DEF TypeOK, Flag, Moves, Chunk
  <2>2. lists[k].err \in Errors /\ lists[k].resp \in Statuses
    BY <1>1 DEF Fetched
  <2>3. err' \in Errors /\ resp' \in Statuses
    BY <2>2 DEF TypeOK, Flag
  <2> QED BY <1>1, <2>1, <2>3 DEF TypeOK
<1>4. \A j \in Chunks : /\ chunk'[j].pc = IF j = k THEN "gone" ELSE chunk[j].pc
                        /\ chunk'[j].got = chunk[j].got
  <2> SUFFICES ASSUME NEW j \in Chunks
               PROVE  /\ chunk'[j].pc = IF j = k THEN "gone" ELSE chunk[j].pc
                      /\ chunk'[j].got = chunk[j].got
    OBVIOUS
  <2>1. chunk[j] \in [pc : {"idle", "fetch", "store", "flag", "gone"}, try : Nat, got : Fetched]
    BY DEF TypeOK
  <2>2. chunk'[j] = IF j = k THEN [chunk[j] EXCEPT !.pc = "gone"] ELSE chunk[j]
    BY <1>2
  <2> QED BY <2>1, <2>2
<1>5. SlotInv'
  <2>1. Honest(lists[k])
    BY <1>1 DEF SlotInv
  <2> QED BY <1>1, <1>4, <2>1 DEF SlotInv
<1>6. LaunchInv'
  BY <1>1, <1>4 DEF LaunchInv
<1>7. StopInv'
  BY <1>1 DEF StopInv, Flag
<1>8. FlagInv'
  BY <1>1, <1>4 DEF FlagInv, Flag
<1>9. pc \in {"launch", "wait"}
  BY <1>1 DEF Joined, JoinedBeforeUse, TypeOK, NoNilResponseRead
<1>10. MergeInv' /\ ResultInv' /\ JoinedBeforeUse' /\ NoNilResponseRead'
  BY <1>1, <1>9 DEF MergeInv, ResultInv, JoinedBeforeUse, NoNilResponseRead,
                    AllArrived, Failed, Rejected
<1> QED BY <1>3, <1>5, <1>6, <1>7, <1>8, <1>10

-----------------------------------------------------------------------------
(* The main goroutine.                                                        *)
LEMMA LaunchIInv ==
  ASSUME IInv, Launch
  PROVE  IInv'
<1> USE SplitAssumption DEF IInv
<1>1. /\ pc = "launch" /\ i \in Chunks /\ i' = i + 1
      /\ UNCHANGED <<pc, lists, err, resp, dest, result>>
  BY DEF Launch, TypeOK, Chunks
<1>2. \A j \in Chunks : chunk'[j] = IF j = i THEN [chunk[j] EXCEPT !.pc = "fetch"]
                                             ELSE chunk[j]
  BY <1>1 DEF Launch, Moves, Chunk, TypeOK
<1>3. TypeOK'
  <2>1. i' \in 0 .. SplitCount
    BY <1>1 DEF Chunks
  <2>2. chunk' \in [Chunks -> [pc : {"idle", "fetch", "store", "flag", "gone"},
                               try : Nat, got : Fetched]]
    BY <1>1 DEF TypeOK, Launch, Moves, Chunk
  <2> QED BY <1>1, <2>1, <2>2 DEF TypeOK
<1>4. \A j \in Chunks : /\ chunk'[j].pc = IF j = i THEN "fetch" ELSE chunk[j].pc
                        /\ chunk'[j].got = chunk[j].got
  <2> SUFFICES ASSUME NEW j \in Chunks
               PROVE  /\ chunk'[j].pc = IF j = i THEN "fetch" ELSE chunk[j].pc
                      /\ chunk'[j].got = chunk[j].got
    OBVIOUS
  <2>1. chunk[j] \in [pc : {"idle", "fetch", "store", "flag", "gone"}, try : Nat, got : Fetched]
    BY DEF TypeOK
  <2>2. chunk'[j] = IF j = i THEN [chunk[j] EXCEPT !.pc = "fetch"] ELSE chunk[j]
    BY <1>2
  <2> QED BY <2>1, <2>2
<1>5. chunk[i].pc = "idle"
  BY <1>1 DEF LaunchInv, Chunks
<1>6. SlotInv'
  <2>1. lists[i] = Nothing
    BY <1>1, <1>5 DEF SlotInv
  <2> QED BY <1>1, <1>4, <2>1 DEF SlotInv
<1>7. LaunchInv'
  BY <1>1, <1>4 DEF LaunchInv, Chunks
<1>8. FlagInv' /\ StopInv'
  BY <1>1, <1>4 DEF FlagInv, StopInv
<1>9. MergeInv' /\ ResultInv' /\ JoinedBeforeUse' /\ NoNilResponseRead'
  BY <1>1 DEF MergeInv, ResultInv, JoinedBeforeUse, NoNilResponseRead,
              AllArrived, Failed, Rejected
<1> QED BY <1>3, <1>6, <1>7, <1>8, <1>9

LEMMA StopWaitIInv ==
  ASSUME IInv, Stop \/ Wait
  PROVE  IInv'
<1> USE DEF IInv
<1>1. /\ pc \in {"launch", "wait"} /\ pc' \in {"wait", "collect"}
      /\ pc' = "wait" => i = SplitCount \/ err # Nil \/ resp # None
      /\ pc' = "collect" => pc = "wait" /\ Joined
      /\ UNCHANGED <<i, chunk, lists, err, resp, dest, result>>
  BY DEF Stop, Wait
<1>2. TypeOK'
  BY <1>1 DEF TypeOK
<1>3. SlotInv' /\ LaunchInv' /\ FlagInv'
  BY <1>1 DEF SlotInv, LaunchInv, FlagInv, Honest
<1>4. StopInv'
  BY <1>1 DEF StopInv
<1>5. MergeInv' /\ ResultInv' /\ JoinedBeforeUse' /\ NoNilResponseRead'
  BY <1>1 DEF MergeInv, ResultInv, JoinedBeforeUse, Joined, NoNilResponseRead,
              AllArrived, Failed, Rejected
<1> QED BY <1>2, <1>3, <1>4, <1>5

LEMMA CollectIInv ==
  ASSUME IInv, Collect
  PROVE  IInv'
<1> USE DEF IInv
<1>1. /\ pc = "collect" /\ result' = Scan /\ Joined
      /\ UNCHANGED <<i, chunk, lists, err, resp, dest>>
  BY DEF Collect, JoinedBeforeUse
<1>2. /\ Failed # {} => Scan.resp = None /\ Scan.err # Nil /\ Scan.err \in Errors
      /\ Failed = {} =>
           /\ Scan.err = Nil
           /\ Scan.resp \in Statuses \ {None}
           /\ Scan.resp = Partial => Rejected = {}
           /\ Scan.resp # Partial =>
                \E k \in Chunks : /\ Scan.resp = lists[k].resp
                                  /\ \A j \in 0 .. k - 1 : lists[j].resp = Partial
  BY <1>1, ScanIsSound
<1>3. \E r, e : Scan = [resp |-> r, err |-> e]
  BY DEF Scan
<1>4. Scan \in [resp : Statuses, err : Errors]
  BY <1>2, <1>3 DEF Statuses, Errors
<1>5. pc' \in {"prepare", "cleanup"} /\ (pc' = "prepare" => Scan.err = Nil /\ Scan.resp = Partial)
      /\ (pc' = "cleanup" => Scan.err # Nil \/ Scan.resp # Partial)
  BY <1>2 DEF Collect
<1>6. TypeOK'
  BY <1>1, <1>4, <1>5 DEF TypeOK
<1>7. SlotInv' /\ LaunchInv' /\ FlagInv' /\ StopInv'
  BY <1>1, <1>5 DEF SlotInv, LaunchInv, FlagInv, StopInv, Honest
<1>8. MergeInv'
  BY <1>1, <1>2, <1>3, <1>5 DEF MergeInv, AllArrived, Failed, Rejected
<1>9. ResultInv'
  BY <1>1, <1>2, <1>5 DEF ResultInv, AllArrived, Failed, Rejected, Partial, None
<1>10. JoinedBeforeUse' /\ NoNilResponseRead'
  BY <1>1, <1>5 DEF JoinedBeforeUse, Joined, NoNilResponseRead
<1> QED BY <1>6, <1>7, <1>8, <1>9, <1>10

LEMMA PrepareIInv ==
  ASSUME IInv, NEW ok \in BOOLEAN, Prepare(ok)
  PROVE  IInv'
<1> USE DEF IInv
<1>1. /\ pc = "prepare" /\ AllArrived /\ Joined
      /\ result = [resp |-> Partial, err |-> Nil]
      /\ UNCHANGED <<chunk, lists, err, resp>>
  BY DEF Prepare, MergeInv, JoinedBeforeUse
<1>2. /\ pc' \in {"merge", "cleanup"}
      /\ pc' = "merge" =>
           /\ i' = 0 /\ UNCHANGED result
           /\ dest' = [kind |-> "absent", parts |-> <<>>, clean |-> TRUE]
      /\ pc' = "cleanup" => /\ result' = [result EXCEPT !.err = "failed"]
                            /\ UNCHANGED <<i, dest>>
  BY DEF Prepare
<1>3. TypeOK'
  <2>1. CASE pc' = "merge"
    <3>1. i' \in 0 .. SplitCount
      BY <1>2, <2>1, SplitAssumption
    <3>2. dest' \in [kind : {"old", "absent", "merged", "extracted"},
                     parts : Seq(Chunks), clean : BOOLEAN]
      <4>1. <<>> \in Seq(Chunks)
        OBVIOUS
      <4>2. dest' = [kind |-> "absent", parts |-> <<>>, clean |-> TRUE]
        BY <1>2, <2>1
      <4> HIDE DEF IInv
      <4> QED BY <4>1, <4>2
    <3> QED BY <1>1, <1>2, <2>1, <3>1, <3>2 DEF TypeOK
  <2>2. CASE pc' = "cleanup"
    BY <1>1, <1>2, <2>2 DEF TypeOK, Errors
  <2> QED BY <1>2, <2>1, <2>2
<1>4. SlotInv' /\ LaunchInv' /\ FlagInv' /\ StopInv'
  BY <1>1, <1>2 DEF SlotInv, LaunchInv, FlagInv, StopInv, Honest
<1>5. AllArrived'
  BY <1>1 DEF AllArrived, Failed, Rejected
<1>6. MergeInv'
  BY <1>1, <1>2, <1>5 DEF MergeInv
<1>7. ResultInv'
  BY <1>1, <1>2, <1>5 DEF ResultInv, AllArrived, Nil, Partial
<1>8. JoinedBeforeUse' /\ NoNilResponseRead'
  BY <1>1, <1>2 DEF JoinedBeforeUse, Joined, NoNilResponseRead
<1> QED BY <1>3, <1>4, <1>6, <1>7, <1>8

LEMMA MergeNextIInv ==
  ASSUME IInv, MergeNext
  PROVE  IInv'
<1> USE DEF IInv
<1>1. /\ pc = "merge" /\ AllArrived /\ Joined
      /\ i \in Chunks /\ i' = i + 1
      /\ dest.parts = [n \in 1 .. i |-> n - 1]
      /\ UNCHANGED <<pc, chunk, lists, err, resp, result>>
  BY SplitAssumption DEF MergeNext, MergeInv, JoinedBeforeUse, TypeOK, Chunks
<1>2. dest'.kind = "merged" /\ dest'.parts = Append(dest.parts, i)
      /\ dest'.clean \in BOOLEAN
      /\ dest' = [kind |-> dest'.kind, parts |-> dest'.parts, clean |-> dest'.clean]
  BY DEF MergeNext, TypeOK
<1>3. dest.parts \in Seq(Chunks) /\ Append(dest.parts, i) \in Seq(Chunks)
  <2>1. dest.parts \in Seq(Chunks)
    BY DEF TypeOK
  <2> QED BY <1>1, <2>1
<1>4. Append(dest.parts, i) = [n \in 1 .. i + 1 |-> n - 1]
  <2>1. i \in Nat /\ Len(dest.parts) = i
    BY <1>1 DEF Chunks
  <2> QED BY <1>1, <1>3, <2>1
<1>5. TypeOK'
  <2>1. i' \in 0 .. SplitCount
    BY <1>1, SplitAssumption DEF Chunks
  <2>2. dest' \in [kind : {"old", "absent", "merged", "extracted"},
                   parts : Seq(Chunks), clean : BOOLEAN]
    BY <1>2, <1>3
  <2> QED BY <1>1, <2>1, <2>2 DEF TypeOK
<1>6. SlotInv' /\ LaunchInv' /\ FlagInv' /\ StopInv'
  BY <1>1 DEF SlotInv, LaunchInv, FlagInv, StopInv, Honest
<1>7. MergeInv'
  BY <1>1, <1>2, <1>4 DEF MergeInv, AllArrived, Failed, Rejected
<1>8. ResultInv' /\ JoinedBeforeUse' /\ NoNilResponseRead'
  BY <1>1 DEF ResultInv, JoinedBeforeUse, Joined, NoNilResponseRead
<1> QED BY <1>5, <1>6, <1>7, <1>8

LEMMA MergeFailsIInv ==
  ASSUME IInv, MergeFails
  PROVE  IInv'
<1> USE DEF IInv
<1>1. /\ pc = "merge" /\ pc' = "cleanup" /\ AllArrived /\ Joined
      /\ result = [resp |-> Partial, err |-> Nil]
      /\ result' = [resp |-> Partial, err |-> "failed"]
      /\ UNCHANGED <<i, chunk, lists, err, resp, dest>>
  BY DEF MergeFails, MergeInv, JoinedBeforeUse
<1>2. TypeOK'
  BY <1>1 DEF TypeOK, Errors, Statuses
<1>3. SlotInv' /\ LaunchInv' /\ FlagInv' /\ StopInv'
  BY <1>1 DEF SlotInv, LaunchInv, FlagInv, StopInv, Honest
<1>4. MergeInv' /\ ResultInv' /\ JoinedBeforeUse' /\ NoNilResponseRead'
  BY <1>1 DEF MergeInv, ResultInv, JoinedBeforeUse, Joined, NoNilResponseRead,
              AllArrived, Failed, Rejected, Nil
<1> QED BY <1>2, <1>3, <1>4

LEMMA CheckIInv ==
  ASSUME IInv, NEW archive \in {"known", "unknown", "broken"}, Check(archive)
  PROVE  IInv'
<1> USE DEF IInv
<1>1. /\ pc = "merge" /\ pc' = "cleanup" /\ AllArrived /\ Joined
      /\ i = SplitCount
      /\ dest.parts = [n \in 1 .. SplitCount |-> n - 1] /\ dest.kind = "merged"
      /\ result = [resp |-> Partial, err |-> Nil]
      /\ UNCHANGED <<i, chunk, lists, err, resp>>
  BY SplitAssumption DEF Check, MergeInv, JoinedBeforeUse
<1>2. \/ /\ result' = result /\ ChecksumMatches
         /\ dest' = dest \/ dest' = [dest EXCEPT !.kind = "extracted"]
      \/ result' = [result EXCEPT !.err = "failed"] /\ dest' = dest
  BY DEF Check
<1>3. /\ dest'.parts = dest.parts /\ dest'.clean = dest.clean
      /\ dest'.kind \in {"merged", "extracted"}
  BY <1>1, <1>2 DEF TypeOK
<1>4. TypeOK'
  BY <1>1, <1>2 DEF TypeOK, Errors, Statuses
<1>5. SlotInv' /\ LaunchInv' /\ FlagInv' /\ StopInv'
  BY <1>1 DEF SlotInv, LaunchInv, FlagInv, StopInv, Honest
<1>6. AllArrived'
  BY <1>1 DEF AllArrived, Failed, Rejected
<1>7. MergeInv'
  BY <1>1, <1>6 DEF MergeInv
<1>8. ResultInv'
  <2>1. CASE result' = result /\ ChecksumMatches
    BY <1>1, <1>3, <1>6, <2>1 DEF ResultInv, InOrder, ChecksumMatches, AllArrived,
                                  Partial, None
  <2>2. CASE result' = [result EXCEPT !.err = "failed"]
    BY <1>1, <1>6, <2>2 DEF ResultInv, AllArrived, Nil
  <2> QED BY <1>2, <2>1, <2>2
<1>9. JoinedBeforeUse' /\ NoNilResponseRead'
  BY <1>1 DEF JoinedBeforeUse, Joined, NoNilResponseRead
<1> QED BY <1>4, <1>5, <1>7, <1>8, <1>9

LEMMA CleanupIInv ==
  ASSUME IInv, NEW ok \in BOOLEAN, Cleanup(ok)
  PROVE  IInv'
<1> USE DEF IInv
<1>1. /\ pc = "cleanup" /\ pc' = "done" /\ Joined
      /\ UNCHANGED <<i, chunk, lists, err, resp, dest>>
      /\ \/ result' = result
         \/ result.err = Nil /\ result' = [result EXCEPT !.err = "failed"]
  BY DEF Cleanup, JoinedBeforeUse
<1>2. TypeOK'
  BY <1>1 DEF TypeOK, Errors
<1>3. SlotInv' /\ LaunchInv' /\ FlagInv' /\ StopInv' /\ MergeInv'
  BY <1>1 DEF SlotInv, LaunchInv, FlagInv, StopInv, Honest, MergeInv, AllArrived,
              Failed, Rejected
<1>4. result'.resp = result.resp /\ (result'.err = Nil => result' = result)
      /\ (result.err # Nil => result' = result)
  BY <1>1 DEF TypeOK, Nil
<1>5. ResultInv'
  BY <1>1, <1>4 DEF ResultInv, AllArrived, Failed, Rejected, InOrder, ChecksumMatches
<1>6. JoinedBeforeUse' /\ NoNilResponseRead'
  BY <1>1 DEF JoinedBeforeUse, Joined, NoNilResponseRead
<1> QED BY <1>2, <1>3, <1>5, <1>6

LEMMA TempDirFailsIInv ==
  ASSUME IInv, TempDirFails
  PROVE  IInv'
<1> USE DEF IInv
<1>1. /\ pc = "launch" /\ i = 0 /\ pc' = "done"
      /\ result.resp = None /\ result'.resp = None /\ result'.err = "failed"
      /\ UNCHANGED <<i, chunk, lists, err, resp, dest>>
  BY DEF TempDirFails, MergeInv
<1>2. TypeOK'
  BY DEF TempDirFails, TypeOK, Errors
<1>3. \A k \in Chunks : chunk[k].pc = "idle"
  BY <1>1 DEF LaunchInv, Chunks
<1>4. JoinedBeforeUse' /\ NoNilResponseRead'
  BY <1>1, <1>3 DEF JoinedBeforeUse, Joined, NoNilResponseRead
<1>5. SlotInv' /\ LaunchInv' /\ FlagInv' /\ StopInv' /\ MergeInv'
  BY <1>1 DEF SlotInv, LaunchInv, FlagInv, StopInv, Honest, MergeInv, AllArrived,
              Failed, Rejected
<1>6. ResultInv'
  BY <1>1 DEF ResultInv, Partial, None, Nil
<1> QED BY <1>2, <1>4, <1>5, <1>6

(* Every step preserves the invariant.                                        *)
LEMMA NextIInv == IInv /\ [Next]_vars => IInv'
<1> SUFFICES ASSUME IInv, [Next]_vars PROVE IInv'
  OBVIOUS
<1>1. ASSUME NEW k \in Chunks, Goroutine(k) PROVE IInv'
  BY <1>1, FetchIInv, StoreIInv, FlagIInv DEF Goroutine
<1>2. ASSUME Main PROVE IInv'
  BY <1>2, TempDirFailsIInv, LaunchIInv, StopWaitIInv, CollectIInv, PrepareIInv, CleanupIInv,
     MergeNextIInv, MergeFailsIInv, CheckIInv DEF Main
<1>3. CASE UNCHANGED vars
  BY <1>3 DEF vars, IInv, TypeOK, JoinedBeforeUse, Joined, NoNilResponseRead,
     SlotInv, Honest, LaunchInv, FlagInv, StopInv, MergeInv, ResultInv, AllArrived,
     Failed, Rejected, InOrder, ChecksumMatches
<1> QED BY <1>1, <1>2, <1>3 DEF Next

LEMMA SpecIInv == Spec => []IInv
  BY InitIInv, NextIInv, PTL DEF Spec

-----------------------------------------------------------------------------
(* The variables of the download stay in their types.                         *)
THEOREM TypeCorrect == Spec => []TypeOK
<1>1. IInv => TypeOK BY DEF IInv
<1> QED BY <1>1, SpecIInv, PTL

(* No nil response is ever read, for any number of chunks and whatever the    *)
(* main goroutine sees of the shared variables; and no goroutine survives.    *)
THEOREM NoPanicNoStraggler == Spec => [](NoNilResponseRead /\ JoinedBeforeUse)
<1>1. IInv => NoNilResponseRead /\ JoinedBeforeUse BY DEF IInv
<1> QED BY <1>1, SpecIInv, PTL

(* The documented contract of the returned error and response.                *)
THEOREM ChunksContractHolds == Spec => []ChunksContract
<1>1. IInv => ChunksContract
  BY DEF IInv, ResultInv, ChunksContract, AllArrived, Rejected
<1> QED BY <1>1, SpecIInv, PTL

(* A nil error with a 206 means the whole file.                               *)
THEOREM WholeFileHolds == Spec => []WholeFile
<1>1. IInv => WholeFile
  <2> SUFFICES ASSUME IInv, pc = "done", result.err = Nil, result.resp = Partial
               PROVE  /\ dest.kind \in {"merged", "extracted"}
                      /\ InOrder(dest.parts)
                      /\ \A k \in Chunks : lists[k].data # "none"
                      /\ Checksum => dest.clean
    BY DEF WholeFile
  <2>1. AllArrived /\ InOrder(dest.parts) /\ ChecksumMatches
        /\ dest.kind \in {"merged", "extracted"}
    BY DEF IInv, ResultInv
  <2>2. ASSUME NEW k \in Chunks PROVE lists[k].data # "none"
    <3>1. lists[k].err = Nil /\ lists[k].resp = Partial
      BY <2>1 DEF AllArrived, Failed, Rejected
    <3>2. chunk[k].pc \in {"flag", "gone"}
      <4>1. lists[k] # Nothing
        BY <3>1 DEF Nothing, Partial, None
      <4> QED BY <4>1 DEF IInv, SlotInv, TypeOK
    <3> QED BY <3>1, <3>2 DEF IInv, SlotInv, Honest
  <2> QED BY <2>1, <2>2 DEF ChecksumMatches
<1> QED BY <1>1, SpecIInv, PTL

(* The local file is not touched before every range has arrived.              *)
THEOREM OldFileKeptHolds == Spec => OldFileKept
<1>1. IInv /\ [Next]_vars => [dest' # dest => Failed = {} /\ Rejected = {}]_vars
  <2> SUFFICES ASSUME IInv, Next, dest' # dest
               PROVE  Failed = {} /\ Rejected = {}
    BY DEF vars
  <2>1. pc \in {"prepare", "merge"}
    BY DEF Next, Main, Goroutine, TempDirFails, Launch, Stop, Wait, Collect, Prepare, Cleanup,
           MergeNext, MergeFails, Check, Fetch, Store, Flag
  <2> QED BY <2>1 DEF IInv, MergeInv, AllArrived
<1> QED BY <1>1, SpecIInv, PTL DEF Spec, OldFileKept

(* Every step is a step of FileFetch or a stutter: the chunked download keeps *)
(* the promise of a download, for any number of chunks.                       *)
THEOREM ImplementsFileFetch == Spec => Abstract!SafeSpec
<1>1. Init => Abstract!Init
  BY DEF Init, Abstract!Init, AbsFile, AbsAnswer
<1>2. IInv /\ IInv' /\ [Next]_vars => [Abstract!Next]_(Abstract!vars)
  <2> SUFFICES ASSUME IInv, IInv', [Next]_vars
               PROVE  Abstract!Next \/ UNCHANGED <<AbsFile, AbsAnswer>>
    BY DEF Abstract!vars
  <2>1. CASE pc' = pc /\ dest' = dest /\ result' = result
    BY <2>1 DEF AbsFile, AbsAnswer, InOrder
  <2>2. ASSUME NEW ok \in BOOLEAN, Cleanup(ok) PROVE Abstract!Next
    <3>1. pc = "cleanup" /\ pc' = "done" /\ dest' = dest
      BY <2>2 DEF Cleanup
    <3>2. AbsAnswer = "pending" /\ UNCHANGED AbsFile
      BY <3>1 DEF AbsAnswer, AbsFile, InOrder
    <3>3. CASE AbsAnswer' = "ok"
      <4>1. result'.err = Nil /\ result'.resp = Partial
        BY <3>1, <3>3 DEF AbsAnswer
      <4>2. AbsFile' = "whole"
        BY <3>1, <4>1 DEF IInv, ResultInv, AbsFile, ChecksumMatches
      <4> QED BY <3>2, <3>3, <4>2 DEF Abstract!Next, Abstract!Succeed
    <3>4. CASE AbsAnswer' # "ok"
      <4>1. AbsAnswer' \in {"rejected", "failed"}
        BY <3>1, <3>4 DEF AbsAnswer
      <4> QED BY <3>2, <4>1 DEF Abstract!Next, Abstract!GiveUp
    <3> QED BY <3>3, <3>4
  <2>3. ASSUME pc # "done", pc' # "done", dest' = dest
        PROVE  UNCHANGED <<AbsFile, AbsAnswer>>
    BY <2>3 DEF AbsAnswer, AbsFile, InOrder
  <2>4. ASSUME pc # "done", pc' # "done", dest'.kind # "old" PROVE Abstract!Next
    <3>1. AbsFile' \in {"dirty", "whole"}
      BY <2>4 DEF AbsFile
    <3>2. AbsAnswer = "pending" /\ AbsAnswer' = "pending"
      BY <2>4 DEF AbsAnswer
    <3> QED BY <3>1, <3>2 DEF Abstract!Next, Abstract!Write
  <2>5. CASE Launch \/ Stop \/ Wait \/ Collect \/ MergeFails
    BY <2>3, <2>5 DEF Launch, Stop, Wait, Collect, MergeFails
  <2>6. ASSUME NEW ok \in BOOLEAN, Prepare(ok)
        PROVE  Abstract!Next \/ UNCHANGED <<AbsFile, AbsAnswer>>
    BY <2>3, <2>4, <2>6 DEF Prepare
  <2>7. CASE MergeNext
    BY <2>4, <2>7 DEF MergeNext
  <2>8. ASSUME NEW archive \in {"known", "unknown", "broken"}, Check(archive)
        PROVE  Abstract!Next \/ UNCHANGED <<AbsFile, AbsAnswer>>
    <3>1. pc # "done" /\ pc' # "done" /\ i = SplitCount /\ pc = "merge"
      BY <2>8 DEF Check
    <3>2. dest.kind = "merged"
      BY <3>1, SplitAssumption DEF IInv, MergeInv
    <3>3. dest' = dest \/ dest'.kind = "extracted"
      BY <2>8, <3>2 DEF Check, IInv, TypeOK
    <3> QED BY <2>3, <2>4, <3>1, <3>3
  <2>9. ASSUME NEW k \in Chunks, Goroutine(k)
        PROVE  pc' = pc /\ dest' = dest /\ result' = result
    BY <2>9 DEF Goroutine, Fetch, Store, Flag
  <2>10. ASSUME TempDirFails PROVE Abstract!Next
    <3>1. pc = "launch" /\ pc' = "done" /\ dest' = dest /\ result'.err = "failed"
      BY <2>10 DEF TempDirFails, IInv, TypeOK
    <3>2. AbsAnswer = "pending" /\ AbsAnswer' = "failed" /\ UNCHANGED AbsFile
      BY <3>1 DEF AbsAnswer, AbsFile, InOrder, Nil
    <3> QED BY <3>2 DEF Abstract!Next, Abstract!GiveUp
  <2> QED
    BY <2>1, <2>2, <2>5, <2>6, <2>7, <2>8, <2>9, <2>10 DEF Next, Main, vars
<1> QED BY <1>1, <1>2, SpecIInv, PTL DEF Spec, Abstract!SafeSpec
=============================================================================
