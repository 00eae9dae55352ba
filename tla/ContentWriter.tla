---------------------------- MODULE ContentWriter -----------------------------
(* utils/io/content/contentwriter.go and utils/errorsqueue.go: several        *)
(* goroutines Write records; the first of them creates the temporary file and *)
(* starts the worker, which takes the records from a bounded channel and      *)
(* appends them to a JSON array; the owner Closes when the writers are done.  *)
EXTENDS Integers, Sequences

CONSTANTS Writers,     \* the goroutines that call Write
          Records,     \* how many records each of them writes
          Capacity,    \* utils.MaxBufferSize: of the channel and of the errors queue
          Faults       \* the operations that may fail

AllFaults == {"create", "open", "encode", "write", "end", "sync"}

ASSUME RecordsAssumption == Records \in Nat
ASSUME CapacityAssumption == Capacity \in Nat \ {0}
ASSUME FaultsAssumption == Faults \subseteq AllFaults

VARIABLES wpc,     \* wpc[w]: "idle" between two Writes, then within one
          wrote,   \* wrote[w]: how many of its records w has sent
          empty,   \* ContentWriter.empty
          started, \* once is done
          worker,  \* pc of the goroutine of run: "none" if never started
          chan,    \* dataChannel's content
          closed,  \* dataChannel is closed
          first,   \* firstRecord
          errs,    \* the length of the errors queue
          file,    \* what was written to the file
          owner,   \* pc of the goroutine that calls Close
          gotNil,  \* Close returned nil
          sent,    \* history: the records in the order of their sends
          bad      \* history: the operations that failed

writerVars == <<wpc, wrote, empty, started, worker, chan, closed, first, errs, file,
                owner, gotNil, sent, bad>>

Record == Writers \X (1 .. Records)

(* The file: the opening text, the array's items, each a record with or       *)
(* without a comma before it, the closing text; torn if any of these was      *)
(* written in part.                                                           *)
Items == [prefix : {"", ","}, record : Record]
Files == [opened : BOOLEAN, items : Seq(Items), ended : BOOLEAN, torn : BOOLEAN]

WriterTypeOK ==
    /\ wpc \in [Writers -> {"idle", "begin", "send"}]
    /\ wrote \in [Writers -> 0 .. Records]
    /\ empty \in BOOLEAN /\ started \in BOOLEAN
    /\ worker \in {"none", "open", "range", "end", "sync", "gone"}
    /\ chan \in Seq(Record) /\ Len(chan) <= Capacity
    /\ closed \in BOOLEAN /\ first \in BOOLEAN
    /\ errs \in 0 .. Capacity
    /\ file \in Files
    /\ owner \in {"open", "wait", "closed"} /\ gotNil \in BOOLEAN
    /\ sent \in Seq(Record)
    /\ bad \subseteq AllFaults

WriterInit ==
    /\ wpc = [w \in Writers |-> "idle"]
    /\ wrote = [w \in Writers |-> 0]
    /\ empty = TRUE /\ started = FALSE
    /\ worker = "none" /\ chan = <<>> /\ closed = FALSE
    /\ first = TRUE /\ errs = 0
    /\ file = [opened |-> FALSE, items |-> <<>>, ended |-> FALSE, torn |-> FALSE]
    /\ owner = "open" /\ gotNil = TRUE
    /\ sent = <<>> /\ bad = {}

-----------------------------------------------------------------------------
\* Changed: the queue forgets its errors when it is full.
AddedDropAll(n) == IF n < Capacity THEN n + 1 ELSE 0

(* ErrorsQueue.AddError never blocks: with the queue full the error is lost.  *)
Added(n) == IF n < Capacity THEN n + 1 ELSE n

(* The operation named what succeeds, or fails and its error is queued.       *)
Succeeds == UNCHANGED <<errs, bad>>
Fails(what) ==
    /\ what \in Faults
    /\ errs' = Added(errs)
    /\ bad' = bad \cup {what}

(* A failed WriteString leaves nothing, or a part of its text.                *)
WriteFails(what) ==
    /\ file' \in {file, [file EXCEPT !.torn = TRUE]}
    /\ Fails(what)

-----------------------------------------------------------------------------
(* Write *)

(* rw.empty = false                                                           *)
Begin(w) ==
    /\ wpc[w] = "idle" /\ wrote[w] < Records
    /\ wpc' = [wpc EXCEPT ![w] = "begin"]
    /\ empty' = FALSE
    /\ UNCHANGED <<wrote, started, worker, chan, closed, first, errs, file, owner,
                   gotNil, sent, bad>>

(* startWritingWorker: the first call creates the file and starts the worker; *)
(* without a file there is no worker, now or later.                           *)
Start(w) ==
    /\ wpc[w] = "begin"
    /\ wpc' = [wpc EXCEPT ![w] = "send"]
    /\ started' = TRUE
    /\ \/ started /\ UNCHANGED <<worker, errs, bad>>
       \/ ~started /\ worker' = "open" /\ Succeeds
       \/ ~started /\ UNCHANGED worker /\ Fails("create")
    /\ UNCHANGED <<wrote, empty, chan, closed, first, file, owner, gotNil, sent>>

(* rw.dataChannel <- record: blocks while the channel is full.                *)
SendRecord(w) ==
    /\ wpc[w] = "send" /\ Len(chan) < Capacity
    /\ wpc' = [wpc EXCEPT ![w] = "idle"]
    /\ wrote' = [wrote EXCEPT ![w] = @ + 1]
    /\ chan' = Append(chan, <<w, wrote[w] + 1>>)
    /\ sent' = Append(sent, <<w, wrote[w] + 1>>)
    /\ UNCHANGED <<empty, started, worker, closed, first, errs, file, owner, gotNil, bad>>

-----------------------------------------------------------------------------
(* run *)

(* The opening text.  If it cannot be written the worker is done, and nobody  *)
(* takes the records out of the channel any more.                             *)
Open ==
    /\ worker = "open"
    /\ \/ worker' = "range" /\ file' = [file EXCEPT !.opened = TRUE] /\ Succeeds
       \/ worker' = "sync" /\ WriteFails("open")
    /\ UNCHANGED <<wpc, wrote, empty, started, chan, closed, first, owner, gotNil, sent>>

AppendItem(r) ==
    file' = [file EXCEPT !.items = Append(@, [prefix |-> IF first THEN "" ELSE ",", record |-> r])]

\* Changed: the comma is due as soon as a record was tried.
TakeCommaEarly ==
    /\ worker = "range" /\ chan # <<>>
    /\ chan' = Tail(chan)
    /\ first' = FALSE
    /\ \/ UNCHANGED file /\ Fails("encode")
       \/ WriteFails("write")
       \/ AppendItem(Head(chan)) /\ Succeeds
    /\ UNCHANGED <<wpc, wrote, empty, started, worker, closed, owner, gotNil, sent>>

\* Changed: the worker returns when a record cannot be encoded.
TakeStops ==
    /\ worker = "range" /\ chan # <<>>
    /\ chan' = Tail(chan)
    /\ \/ worker' = "sync" /\ UNCHANGED <<file, first>> /\ Fails("encode")
       \/ UNCHANGED <<worker, first>> /\ WriteFails("write")
       \/ UNCHANGED worker /\ first' = FALSE /\ AppendItem(Head(chan)) /\ Succeeds
    /\ UNCHANGED <<wpc, wrote, empty, started, closed, owner, gotNil, sent>>

(* One round of the range over the channel: a record that cannot be encoded   *)
(* or written is skipped; the next ones have a comma once one was written.    *)
Take ==
    /\ worker = "range" /\ chan # <<>>
    /\ chan' = Tail(chan)
    /\ \/ UNCHANGED <<file, first>> /\ Fails("encode")
       \/ UNCHANGED first /\ WriteFails("write")
       \/ first' = FALSE /\ AppendItem(Head(chan)) /\ Succeeds
    /\ UNCHANGED <<wpc, wrote, empty, started, worker, closed, owner, gotNil, sent>>

(* The channel is closed and drained: the closing text.                       *)
End ==
    /\ worker = "range" /\ closed /\ chan = <<>>
    /\ worker' = "sync"
    /\ \/ file' = [file EXCEPT !.ended = TRUE] /\ Succeeds
       \/ WriteFails("end")
    /\ UNCHANGED <<wpc, wrote, empty, started, chan, closed, first, owner, gotNil, sent>>

(* The deferred Sync and Close of the file, then runWaiter.Done().            *)
SyncFile ==
    /\ worker = "sync"
    /\ worker' = "gone"
    /\ Succeeds \/ Fails("sync")
    /\ UNCHANGED <<wpc, wrote, empty, started, chan, closed, first, file, owner,
                   gotNil, sent>>

-----------------------------------------------------------------------------
(* Close *)

WritersDone == \A w \in Writers : wpc[w] = "idle" /\ wrote[w] = Records

(* The owner calls Close after the last Write returned.  A writer that never  *)
(* wrote closes nothing.                                                      *)
Close ==
    /\ owner = "open" /\ WritersDone
    /\ IF empty THEN owner' = "closed" /\ UNCHANGED closed
                ELSE owner' = "wait" /\ closed' = TRUE
    /\ UNCHANGED <<wpc, wrote, empty, started, worker, chan, first, errs, file,
                   gotNil, sent, bad>>

\* Changed: Close does not wait for the worker.
CloseReturnsEarly ==
    /\ owner = "wait"
    /\ owner' = "closed"
    /\ gotNil' = (errs = 0)
    /\ errs' = IF errs = 0 THEN 0 ELSE errs - 1
    /\ UNCHANGED <<wpc, wrote, empty, started, worker, chan, closed, first, file,
                   sent, bad>>

(* runWaiter.Wait() returns (at once if no worker was started); GetError      *)
(* takes the oldest error out of the queue.                                   *)
CloseReturns ==
    /\ owner = "wait" /\ worker \in {"none", "gone"}
    /\ owner' = "closed"
    /\ gotNil' = (errs = 0)
    /\ errs' = IF errs = 0 THEN 0 ELSE errs - 1
    /\ UNCHANGED <<wpc, wrote, empty, started, worker, chan, closed, first, file,
                   sent, bad>>

-----------------------------------------------------------------------------
Writer(w) == Begin(w) \/ Start(w) \/ SendRecord(w)
Worker    == Open \/ Take \/ End \/ SyncFile
Owner     == Close \/ CloseReturns

WriterNext == (\E w \in Writers : Writer(w)) \/ Worker \/ Owner

WriterSpec == WriterInit /\ [][WriterNext]_writerVars

-----------------------------------------------------------------------------
(* Properties *)

(* The array as it should be: every record once, in the order of the sends,   *)
(* a comma before each but the first.                                         *)
Numbered(n, r) == [prefix |-> IF n = 1 THEN "" ELSE ",", record |-> r]
Whole(records) == [n \in 1 .. Len(records) |-> Numbered(n, records[n])]

(* Close answers nil only if every record of every Write that returned is in  *)
(* the file and the file is complete, whatever failed and however many errors *)
(* the bounded queue had to drop.                                             *)
NilMeansComplete ==
    owner = "closed" /\ gotNil /\ ~empty =>
        /\ worker = "gone"
        /\ file.opened /\ file.ended /\ ~file.torn
        /\ file.items = Whole(sent)

(* A record that could not be encoded is skipped and the file is still a JSON *)
(* array: only its first item has no comma.  The records of one goroutine     *)
(* keep their order.                                                          *)
SkippingKeepsJson ==
    worker = "gone" /\ bad \subseteq {"encode", "sync"} =>
        /\ file.opened /\ file.ended /\ ~file.torn
        /\ \A n \in DOMAIN file.items : file.items[n].prefix = IF n = 1 THEN "" ELSE ","
        /\ \A m, n \in DOMAIN file.items :
             m < n /\ file.items[m].record[1] = file.items[n].record[1]
             => file.items[m].record[2] < file.items[n].record[2]

(* Nothing is written behind the owner's back: once Close has returned, the   *)
(* file stays as it is (a reader opens it next).                              *)
ClosedIsFinal == [][owner = "closed" => file' = file]_writerVars

(* The worker never came to receive: no file, or no opening text in it.       *)
WorkerLost == started /\ worker \in {"none", "sync", "gone"} /\ ~file.opened

(* Every Write and Close returns, whatever else fails, once the worker        *)
(* receives: no record may stop it before the channel is closed and drained.  *)
CompletesUnlessLost == <>(owner = "closed" \/ WorkerLost)
=============================================================================
