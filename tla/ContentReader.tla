---------------------------- MODULE ContentReader -----------------------------
(* utils/io/content/contentreader.go: a JSON array in one or more files, read *)
(* by a goroutine that pushes the records into a bounded channel from which   *)
(* NextRecord takes them.  Reset replaces the channel and the once; it does   *)
(* not stop a goroutine that is still reading, which sends to the channel it  *)
(* finds in the reader at each send.                                          *)
EXTENDS Integers, Sequences, FiniteSets, SequencesExt

CONSTANTS Consumers,   \* goroutines that call NextRecord
          Files,       \* Files[f]: how many records file f holds
          Capacity,    \* utils.MaxBufferSize
          MaxResets,   \* bound: resets, those of Length included
          MayFail,     \* opening, decoding or converting may fail
          Careful      \* Reset and Length are called only before the first
                       \*   record is asked for or after the last was received

Nobody == "nobody"

ASSUME FilesAssumption == Files \in Seq(Nat)
ASSUME ConsumersAssumption == Nobody \notin Consumers
ASSUME CapacityAssumption == Capacity \in Nat \ {0}
ASSUME ResetsAssumption == MaxResets \in Nat

Gens   == 0 .. MaxResets
Record == UNION {{f} \X (1 .. Files[f]) : f \in DOMAIN Files}
Total  == Cardinality(Record)

(* The order in which one reading gives the records, file by file.            *)
Before(r, s) == r[1] < s[1] \/ (r[1] = s[1] /\ r[2] < s[2])
InOrder(list) == \A m, n \in DOMAIN list : m < n => Before(list[m], list[n])

\* No record is left out before the last one.
FromStart(list) == \A n \in DOMAIN list, r \in Record : Before(r, list[n]) => r \in ToSet(list)

VARIABLES gen,      \* which dataChannel and once the reader has now
          chan,     \* chan[g]: the g-th dataChannel
          worker,   \* worker[g]: the goroutine that once number g started
          pc,       \* pc[c]: where c stands in NextRecord
          seen,     \* seen[c]: cr.length as read by its cr.length++
          counting, \* the consumer that is within Length, if any
          length,   \* cr.length
          errs,     \* errors in the queue
          answer,   \* what the last Length returned: -1 is an error
          got,      \* history: got[g]: what was received from channel g
          eof,      \* history: channel g was found drained and closed
          raced,    \* history: two consumers were at cr.length++ at a time
          lost      \* history: an error was queued while once g was current

vars == <<gen, chan, worker, pc, seen, counting, length, errs, answer, got, eof, raced, lost>>

Channels == [queue : Seq(Record), closed : BOOLEAN]
Workers  == [pc : {"none", "begin", "read", "send", "gone", "panic"},
             file : 1 .. Len(Files) + 1, next : Nat \ {0}, own : Gens, to : Gens]

TypeOK ==
    /\ gen \in Gens /\ chan \in [Gens -> Channels] /\ worker \in [Gens -> Workers]
    /\ pc \in [Consumers -> {"idle", "recv", "count", "eof", "error"}]
    /\ seen \in [Consumers -> Nat]
    /\ counting \in Consumers \cup {Nobody}
    /\ length \in Nat
    /\ errs \in Nat /\ answer \in Nat \cup {-1}
    /\ got \in [Gens -> Seq(Record)]
    /\ raced \in BOOLEAN
    /\ eof \in [Gens -> BOOLEAN] /\ lost \in [Gens -> BOOLEAN]

Init ==
    /\ gen = 0
    /\ chan = [g \in Gens |-> [queue |-> <<>>, closed |-> FALSE]]
    /\ worker = [g \in Gens |-> [pc |-> "none", file |-> 1, next |-> 1, own |-> 0, to |-> 0]]
    /\ pc = [c \in Consumers |-> "idle"]
    /\ seen = [c \in Consumers |-> 0]
    /\ counting = Nobody /\ length = 0 /\ errs = 0 /\ answer = 0
    /\ got = [g \in Gens |-> <<>>]
    /\ raced = FALSE
    /\ eof = [g \in Gens |-> FALSE] /\ lost = [g \in Gens |-> FALSE]

AddError == /\ MayFail
            /\ errs' = IF errs < Capacity THEN errs + 1 ELSE errs
            /\ lost' = [lost EXCEPT ![gen] = TRUE]
NoError  == UNCHANGED <<errs, lost>>

-----------------------------------------------------------------------------
(* The goroutine of once number g *)

\* Changed: the number of records is not reset.
BeginRunKeepsLength(g) ==
    /\ worker[g].pc = "begin"
    /\ worker' = [worker EXCEPT ![g] = [@ EXCEPT !.pc = "read", !.own = gen]]
    /\ UNCHANGED <<gen, chan, pc, seen, counting, length, errs, answer, got, eof, raced, lost>>

(* defer close(cr.dataChannel) binds the channel; cr.length = 0.              *)
BeginRun(g) ==
    /\ worker[g].pc = "begin"
    /\ worker' = [worker EXCEPT ![g] = [@ EXCEPT !.pc = "read", !.own = gen]]
    /\ length' = 0
    /\ UNCHANGED <<gen, chan, pc, seen, counting, errs, answer, got, eof, raced, lost>>

(* readSingleFile: the next record is decoded, and the channel to send it to  *)
(* is looked up; or the file is finished; or it cannot be opened or decoded,  *)
(* and the rest of it is skipped.                                             *)
Read(g) ==
    LET w == worker[g] IN
    /\ w.pc = "read" /\ w.file <= Len(Files)
    /\ \/ /\ w.next <= Files[w.file] /\ NoError
          /\ worker' = [worker EXCEPT ![g] = [@ EXCEPT !.pc = "send", !.to = gen]]
       \/ /\ w.next > Files[w.file] /\ NoError
          /\ worker' = [worker EXCEPT ![g] = [@ EXCEPT !.file = w.file + 1, !.next = 1]]
       \/ /\ AddError
          /\ worker' = [worker EXCEPT ![g] = [@ EXCEPT !.file = w.file + 1, !.next = 1]]
    /\ UNCHANGED <<gen, chan, pc, seen, counting, length, answer, got, eof, raced>>

(* cr.dataChannel <- ResultItem: blocks on a full channel, panics on a closed *)
(* one.                                                                       *)
Push(g) ==
    LET w == worker[g] IN
    /\ w.pc = "send"
    /\ IF chan[w.to].closed
         THEN worker' = [worker EXCEPT ![g].pc = "panic"] /\ UNCHANGED chan
         ELSE /\ Len(chan[w.to].queue) < Capacity
              /\ chan' = [chan EXCEPT ![w.to].queue = Append(@, <<w.file, w.next>>)]
              /\ worker' = [worker EXCEPT ![g] = [@ EXCEPT !.pc = "read", !.next = w.next + 1]]
    /\ UNCHANGED <<gen, pc, seen, counting, length, errs, answer, got, eof, raced, lost>>

\* Changed: the channel is not closed.
EndRunUnclosed(g) ==
    LET w == worker[g] IN
    /\ w.pc = "read" /\ w.file > Len(Files)
    /\ worker' = [worker EXCEPT ![g].pc = "gone"]
    /\ UNCHANGED <<gen, chan, pc, seen, counting, length, errs, answer, got, eof, raced, lost>>

(* The deferred close.                                                        *)
EndRun(g) ==
    LET w == worker[g] IN
    /\ w.pc = "read" /\ w.file > Len(Files)
    /\ IF chan[w.own].closed
         THEN worker' = [worker EXCEPT ![g].pc = "panic"] /\ UNCHANGED chan
         ELSE /\ worker' = [worker EXCEPT ![g].pc = "gone"]
              /\ chan' = [chan EXCEPT ![w.own].closed = TRUE]
    /\ UNCHANGED <<gen, pc, seen, counting, length, errs, answer, got, eof, raced, lost>>

-----------------------------------------------------------------------------
(* NextRecord *)

MayCall(c) == pc[c] = "idle" /\ counting \in {Nobody, c}

(* cr.once.Do(...), then the receive on the reader's channel.                 *)
Call(c) ==
    /\ MayCall(c)
    /\ pc' = [pc EXCEPT ![c] = "recv"]
    /\ worker' = IF worker[gen].pc = "none" THEN [worker EXCEPT ![gen].pc = "begin"]
                                            ELSE worker
    /\ UNCHANGED <<gen, chan, seen, counting, length, errs, answer, got, eof, raced, lost>>

(* A record arrives; it is converted, or its conversion fails (never in       *)
(* Length, which converts to an interface{}).                                 *)
Receive(c) ==
    /\ pc[c] = "recv" /\ chan[gen].queue # <<>>
    /\ chan' = [chan EXCEPT ![gen].queue = Tail(@)]
    /\ got' = [got EXCEPT ![gen] = Append(@, Head(chan[gen].queue))]
    /\ \/ /\ pc' = [pc EXCEPT ![c] = "count"]
          /\ seen' = [seen EXCEPT ![c] = length]
          /\ raced' = (raced \/ \E d \in Consumers : pc[d] = "count")
          /\ NoError
       \/ /\ counting # c /\ AddError
          /\ pc' = [pc EXCEPT ![c] = "error"] /\ UNCHANGED <<seen, raced>>
    /\ UNCHANGED <<gen, worker, counting, length, answer, eof>>

(* cr.length++, not synchronised between the consumers; nil is returned.      *)
Count(c) ==
    /\ pc[c] = "count"
    /\ length' = seen[c] + 1
    /\ pc' = [pc EXCEPT ![c] = "idle"]
    /\ UNCHANGED <<gen, chan, worker, seen, counting, errs, answer, got, eof, raced, lost>>

(* The channel is closed and drained: io.EOF.                                 *)
EndOfFile(c) ==
    /\ pc[c] = "recv" /\ chan[gen].queue = <<>> /\ chan[gen].closed
    /\ pc' = [pc EXCEPT ![c] = "eof"]
    /\ eof' = [eof EXCEPT ![gen] = TRUE]
    /\ UNCHANGED <<gen, chan, worker, seen, counting, length, errs, answer, got, raced, lost>>

(* The caller has seen the error or the end of the file.                      *)
Return(c) ==
    /\ pc[c] \in {"eof", "error"} /\ counting # c
    /\ pc' = [pc EXCEPT ![c] = "idle"]
    /\ UNCHANGED <<gen, chan, worker, seen, counting, length, errs, answer, got, eof, raced, lost>>

-----------------------------------------------------------------------------
(* Reset and Length, which are not thread-safe: no other call is under way.   *)

Quiet == counting = Nobody /\ \A c \in Consumers : pc[c] = "idle"
Fresh == worker[gen].pc = "none" \/ eof[gen]

Reset ==
    /\ Quiet /\ gen < MaxResets
    /\ Careful => Fresh
    /\ gen' = gen + 1
    /\ UNCHANGED <<chan, worker, pc, seen, counting, length, errs, answer, got, eof, raced, lost>>

(* Length with a cached number; otherwise it reads to the end.                *)
LengthCached ==
    /\ Quiet /\ length # 0
    /\ Careful => Fresh
    /\ answer' = length
    /\ UNCHANGED <<gen, chan, worker, pc, seen, counting, length, errs, got, eof, raced, lost>>

LengthBegins(c) ==
    /\ Quiet /\ length = 0 /\ gen < MaxResets
    /\ Careful => Fresh
    /\ counting' = c
    /\ UNCHANGED <<gen, chan, worker, pc, seen, length, errs, answer, got, eof, raced, lost>>

(* NextRecord returned something else than nil: Reset, then GetError.         *)
LengthEnds(c) ==
    /\ counting = c /\ pc[c] = "eof"
    /\ pc' = [pc EXCEPT ![c] = "idle"]
    /\ counting' = Nobody
    /\ gen' = gen + 1
    /\ answer' = IF errs > 0 THEN -1 ELSE length
    /\ errs' = IF errs > 0 THEN errs - 1 ELSE 0
    /\ UNCHANGED <<chan, worker, seen, length, got, eof, raced, lost>>

-----------------------------------------------------------------------------
Goroutine(g) == BeginRun(g) \/ Read(g) \/ Push(g) \/ EndRun(g)
Consumer(c)  == \/ Receive(c) \/ Count(c) \/ EndOfFile(c) \/ Return(c)
                \/ LengthEnds(c) \/ (counting = c /\ Call(c))

Next ==
    \/ \E g \in Gens : Goroutine(g)
    \/ \E c \in Consumers : Call(c) \/ Consumer(c) \/ LengthBegins(c)
    \/ Reset \/ LengthCached

Spec == Init /\ [][Next]_vars

(* The goroutines run; a call that was made goes on as far as it can.         *)
FairSpec == Spec /\ (\A g \in Gens : WF_vars(Goroutine(g)))
                 /\ (\A c \in Consumers : WF_vars(Consumer(c)))

-----------------------------------------------------------------------------
(* Properties *)

(* Reset's doc: "Prepare the reader to read the file all over again": what is *)
(* received after a Reset comes from the start of the files, in order and     *)
(* without repetition, never from a goroutine that an earlier read left; and  *)
(* no goroutine sends on, or closes, a channel that is closed.  The code does *)
(* not keep this when it resets in the midst of a reading, as the retry of an *)
(* archive's upload does: without Careful it is violated.                     *)
ReadsFromStart ==
    \A g \in Gens :
        /\ worker[g].pc # "panic"
        /\ InOrder(got[g])
        /\ ~lost[g] => FromStart(got[g])

(* The end of the file comes after the last record, unless an error was       *)
(* queued for the caller to look at; Length counts every record, or is an     *)
(* error, whether it reads itself or answers what earlier readings counted,   *)
(* as long as no two consumers counted at the same time.                      *)
ReadingsComplete ==
    /\ [](\A g \in Gens : eof[g] /\ ~lost[g] => ToSet(got[g]) = Record)
    /\ [][answer' # answer /\ ~raced /\ (\A g \in Gens : ~lost'[g])
         => answer' \in {-1, Total}]_vars

(* NextRecord and Length return.                                              *)
CallsReturn == \A c \in Consumers : pc[c] = "recv" \/ counting = c ~> pc[c] = "idle" /\ counting # c
=============================================================================
