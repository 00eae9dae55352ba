------------------------- MODULE UploadService_proofs --------------------------
(* For every set of files and directories, every number of files in the       *)
(* archive, of retries and of consumers: the summary counts what happened;    *)
(* and with checksums a nil error means that everything is there.             *)
EXTENDS UploadService, FiniteSetTheorems, SequenceTheorems, TLAPS

LOCAL INSTANCE SequencesExt

-----------------------------------------------------------------------------
(* The archive's task and goroutines, with or without checksums               *)

(* Nobody zips before the task begins, or after it has returned; until the    *)
(* first pass is over nobody else zips.                                       *)
IdleInv ==
    /\ task = "new" => \A g \in Gens : zip[g].pc = "idle"
    /\ task = "details" => \A g \in Gens : g # 0 => zip[g].pc = "idle"
    /\ task = "done" => AllZipped

(* What is written out has at least the file that caused it.                  *)
FlushInv == \A g \in Gens : zip[g].pc = "flush" => zip[g].buf # <<>>

(* The task's error and what it says about the upload.                        *)
TaskInv ==
    /\ task \notin {"finish", "wait", "done"} => ~uploaded /\ taskErr = Nil
    /\ task = "finish" => (uploaded <=> taskErr = Nil)
    /\ task \in {"wait", "done"} /\ taskErr = Nil => uploaded
    /\ task = "done" /\ ~queued => taskErr = Nil
    /\ uploaded => stored # None

ZInv == ZipTypeOK /\ IdleInv /\ FlushInv /\ TaskInv

LEMMA GensFacts ==
    /\ 0 \in Gens /\ \A a \in 0 .. Retries : a + 1 \in Gens /\ a + 1 # 0
    /\ Gens \subseteq Nat
BY RetriesAssumption DEF Gens

\* No file has the number 0.
LEMMA NoneIsNoContent == \A s \in Seq(Files) : s # None
<1> SUFFICES ASSUME NEW s \in Seq(Files), s = None PROVE FALSE
  OBVIOUS
<1>1. Len(s) = 1 /\ s[1] = 0
  BY DEF None
<1>2. s[1] \in Files
  BY <1>1
<1> QED BY <1>1, <1>2 DEF Files

LEMMA ZipInitially == ZipInit => ZInv
<1> SUFFICES ASSUME ZipInit PROVE ZInv
  OBVIOUS
<1> USE DEF ZipInit
<1>1. <<>> \in Seq(Files)
  OBVIOUS
<1>2. zip \in [Gens -> [pc : ZipPlaces, buf : Seq(Files)]] /\ got \in [Gens -> Seq(Files)]
  BY <1>1 DEF ZipPlaces
<1>3. pipe \in [Gens -> {"none", "open", "orphan", "closed", "eof"}]
  OBVIOUS
<1>4. ZipTypeOK
  <2>1. attempt \in 0 .. Retries /\ pos \in 0 .. NFiles
    BY NFilesAssumption, RetriesAssumption
  <2>2. stored \in Seq(Files) \cup {None} /\ listed \subseteq Files /\ final \subseteq Files
    OBVIOUS
  <2> HIDE DEF ZipInit
  <2>3. task = "new" /\ taskErr = Nil /\ uploaded = FALSE /\ queued = FALSE /\ refused = FALSE
    BY DEF ZipInit
  <2> QED BY <1>2, <1>3, <2>1, <2>2, <2>3 DEF ZipTypeOK
<1>5. IdleInv /\ FlushInv /\ TaskInv
  BY DEF IdleInv, FlushInv, TaskInv
<1> QED BY <1>4, <1>5 DEF ZInv

(* What goes to a place keeps the types.                                      *)
LEMMA GoesTyped ==
    ASSUME ZipTypeOK, NEW g \in Gens, NEW pc \in ZipPlaces, NEW buf \in Seq(Files), Goes(g, pc, buf)
    PROVE  /\ zip' \in [Gens -> [pc : ZipPlaces, buf : Seq(Files)]]
           /\ zip'[g].pc = pc /\ zip'[g].buf = buf
           /\ \A h \in Gens : h # g => zip'[h] = zip[h]
BY DEF ZipTypeOK, Goes

LEMMA BufTyped ==
    ASSUME ZipTypeOK, NEW g \in Gens
    PROVE  zip[g].buf \in Seq(Files) /\ zip[g].pc \in ZipPlaces /\ got[g] \in Seq(Files)
BY DEF ZipTypeOK

(* A zip goroutine's step.                                                    *)
LEMMA ZipperTyped ==
    ASSUME ZipTypeOK, NEW g \in Gens, Zipper(g)
    PROVE  /\ ZipTypeOK'
           /\ zip[g].pc \in {"next", "flush", "closing"}
           /\ zip'[g].pc = "flush" => zip'[g].buf # <<>>
           /\ \A h \in Gens : h # g => zip'[h] = zip[h]
           /\ UNCHANGED <<task, attempt, taskErr, pipe, got, stored, uploaded, final, refused>>
           /\ queued => queued'
<1>1. CASE ZipFile(g)
  <2>1. pos + 1 \in Files /\ pos' = pos + 1 /\ zip[g].pc = "next"
    BY <1>1, NFilesAssumption DEF ZipFile, ZipTypeOK, Files
  <2>2. \E pc \in ZipPlaces, buf \in Seq(Files) : Goes(g, pc, buf) /\ (pc = "flush" => buf # <<>>)
    <3>1. /\ zip[g].buf \in Seq(Files) /\ Append(zip[g].buf, pos + 1) \in Seq(Files)
          /\ Append(zip[g].buf, pos + 1) # <<>>
      BY <2>1, BufTyped
    <3>2. "next" \in ZipPlaces /\ "flush" \in ZipPlaces
      BY DEF ZipPlaces
    <3>3. \/ Goes(g, "next", zip[g].buf)
          \/ Goes(g, "next", Append(zip[g].buf, pos + 1))
          \/ Goes(g, "flush", Append(zip[g].buf, pos + 1))
      BY <1>1 DEF ZipFile, FileFails, FileAdded
    <3> QED BY <3>1, <3>2, <3>3
  <2>3. /\ listed' \subseteq Files /\ queued' \in BOOLEAN /\ (queued => queued')
        /\ UNCHANGED <<task, attempt, taskErr, pipe, got, stored, uploaded, final, refused>>
    <3>1. /\ Lists(g, pos + 1) \/ UNCHANGED listed
          /\ AddError(TRUE) \/ UNCHANGED queued
          /\ UNCHANGED <<task, attempt, taskErr, pipe, got, stored, uploaded, final, refused>>
      BY <1>1 DEF ZipFile, FileFails, FileAdded
    <3>2. listed' \subseteq Files
      BY <2>1, <3>1 DEF Lists, ZipTypeOK
    <3>3. queued' \in BOOLEAN /\ (queued => queued')
      <4>1. CASE AddError(TRUE)
        <5>1. queued' = TRUE
          BY <4>1 DEF AddError
        <5> QED BY <5>1
      <4>2. CASE UNCHANGED queued
        BY <4>2 DEF ZipTypeOK
      <4> QED BY <3>1, <4>1, <4>2
    <3> QED BY <3>1, <3>2, <3>3
  <2>4. pos' \in 0 .. NFiles
    BY <2>1, NFilesAssumption DEF Files
  <2>5. zip' \in [Gens -> [pc : ZipPlaces, buf : Seq(Files)]]
        /\ (zip'[g].pc = "flush" => zip'[g].buf # <<>>)
        /\ \A h \in Gens : h # g => zip'[h] = zip[h]
    BY <2>2, GoesTyped
  <2> QED BY <2>1, <2>3, <2>4, <2>5 DEF ZipTypeOK
<1>2. CASE ZipEnds(g)
  <2>1. /\ pos' = NFiles /\ zip[g].pc = "next" /\ Goes(g, "closing", zip[g].buf) /\ queued' \in BOOLEAN
        /\ queued => queued'
        /\ UNCHANGED <<task, attempt, taskErr, pipe, got, stored, uploaded, listed, final, refused>>
    BY <1>2 DEF ZipEnds, AddError
  <2>2. zip' \in [Gens -> [pc : ZipPlaces, buf : Seq(Files)]]
        /\ zip'[g].pc # "flush"
        /\ \A h \in Gens : h # g => zip'[h] = zip[h]
    BY <2>1, GoesTyped, BufTyped DEF ZipPlaces
  <2> QED BY <2>1, <2>2, NFilesAssumption DEF ZipTypeOK
<1>3. CASE ZipWriteFails(g)
  <2>1. /\ zip[g].pc \in {"flush", "closing"} /\ queued' \in BOOLEAN /\ (queued => queued')
        /\ Goes(g, "next", <<>>) \/ Goes(g, "done", <<>>)
        /\ UNCHANGED <<task, attempt, taskErr, pos, pipe, got, stored, uploaded, listed, final, refused>>
    BY <1>3 DEF ZipWriteFails, AddError
  <2>2. <<>> \in Seq(Files)
    OBVIOUS
  <2>3. zip' \in [Gens -> [pc : ZipPlaces, buf : Seq(Files)]]
        /\ zip'[g].pc # "flush"
        /\ \A h \in Gens : h # g => zip'[h] = zip[h]
    BY <2>1, <2>2, GoesTyped DEF ZipPlaces
  <2> QED BY <2>1, <2>3 DEF ZipTypeOK
<1> QED BY <1>1, <1>2, <1>3 DEF Zipper

(* A read of the pipe of g.                                                   *)
LEMMA PipeReadTyped ==
    ASSUME ZipTypeOK, FlushInv, NEW g \in Gens, PipeRead(g)
    PROVE  /\ zip[g].pc \in {"flush", "closing"}
           /\ zip' \in [Gens -> [pc : ZipPlaces, buf : Seq(Files)]]
           /\ got' \in [Gens -> Seq(Files)]
           /\ \A h \in Gens : h # g => zip'[h] = zip[h] /\ got'[h] = got[h]
           /\ zip'[g].pc # "flush"
           /\ g # 0 => listed' = listed
           /\ listed' \subseteq Files
<1>1. <<>> \in Seq(Files) /\ zip[g].buf \in Seq(Files) /\ got[g] \in Seq(Files)
  BY BufTyped
<1>2. zip[g].pc \in {"flush", "closing"} /\ Goes(g, IF zip[g].pc = "flush" THEN "next" ELSE "done", <<>>)
      /\ got' = [got EXCEPT ![g] = got[g] \o zip[g].buf]
  BY DEF PipeRead
<1>3. got[g] \o zip[g].buf \in Seq(Files)
  BY <1>1
<1>4. got' \in [Gens -> Seq(Files)] /\ \A h \in Gens : h # g => got'[h] = got[h]
  BY <1>2, <1>3 DEF ZipTypeOK
<1>5. zip' \in [Gens -> [pc : ZipPlaces, buf : Seq(Files)]]
      /\ zip'[g].pc # "flush"
      /\ \A h \in Gens : h # g => zip'[h] = zip[h]
  BY <1>1, <1>2, GoesTyped DEF ZipPlaces
<1>6. g # 0 => listed' = listed
  BY DEF PipeRead, Lists
<1>7. listed' \subseteq Files
  <2>1. CASE zip[g].pc = "flush"
    <3>1. Last(zip[g].buf) \in Files
      BY <1>1, <2>1 DEF FlushInv, Last
    <3>2. Lists(g, Last(zip[g].buf))
      BY <2>1 DEF PipeRead
    <3> QED BY <3>1, <3>2 DEF Lists, ZipTypeOK
  <2>2. CASE zip[g].pc # "flush"
    BY <2>2 DEF PipeRead, ZipTypeOK
  <2> QED BY <2>1, <2>2
<1> QED BY <1>2, <1>4, <1>5, <1>6, <1>7

(* A step of the task.                                                        *)
LEMMA VerdictTyped ==
    ASSUME ZipTypeOK, NEW retry \in BOOLEAN, NEW e \in {Nil, "err"}, Verdict(retry, e),
           retry <=> e = "err", ~uploaded, taskErr = Nil
    PROVE  /\ task' \in {"attempt", "finish"} /\ attempt' \in 0 .. Retries
           /\ taskErr' \in {Nil, "err"} /\ uploaded' \in BOOLEAN
           /\ task' = "attempt" => ~uploaded' /\ taskErr' = Nil
           /\ task' = "finish" => (uploaded' <=> taskErr' = Nil)
           /\ uploaded' => e = Nil
<1>1. CASE RunsAgain(retry, "none", attempt, Retries)
  <2>1. task' = "attempt" /\ attempt' = attempt + 1 /\ taskErr' = taskErr /\ uploaded' = uploaded
    BY <1>1 DEF Verdict
  <2>2. attempt + 1 \in 0 .. Retries
    BY <1>1, RetriesAssumption DEF RunsAgain, HasNext, ZipTypeOK
  <2>3. taskErr' = Nil /\ uploaded' = FALSE
    BY <2>1 DEF ZipTypeOK
  <2> QED BY <2>1, <2>2, <2>3
<1>2. CASE ~RunsAgain(retry, "none", attempt, Retries)
  <2> DEFINE r == LoopResult(retry, e, "none")
  <2>1. task' = "finish" /\ attempt' = attempt /\ taskErr' = r /\ uploaded' = (r = Nil)
    BY <1>2 DEF Verdict
  <2>2. r = e
    BY DEF LoopResult, Cancelled, ExhaustedResult, Nil
  <2> HIDE DEF r
  <2>3. uploaded' \in BOOLEAN /\ (uploaded' <=> r = Nil)
    BY <2>1
  <2>4. attempt' \in 0 .. Retries
    BY <2>1 DEF ZipTypeOK
  <2> QED BY <2>1, <2>2, <2>3, <2>4
<1> QED BY <1>1, <1>2

(* What the consumers see of the goroutines: their steps leave the task alone.*)
LEMMA ZippingStep ==
    ASSUME ZInv, Zipping
    PROVE  /\ ZInv'
           /\ UNCHANGED <<task, attempt, taskErr, stored, uploaded, final, refused>>
           /\ task # "new" /\ task # "done" /\ (queued => queued')
<1> USE DEF ZInv
<1> DEFINE Moves(g) ==
             /\ ZipTypeOK'
             /\ zip[g].pc \in {"next", "flush", "closing"}
             /\ zip'[g].pc = "flush" => zip'[g].buf # <<>>
             /\ \A h \in Gens : h # g => zip'[h] = zip[h]
             /\ UNCHANGED <<task, attempt, taskErr, stored, uploaded, final, refused>>
             /\ queued => queued'
<1>0. \E g \in Gens : Moves(g)
  <2>1. ASSUME NEW g \in Gens, Zipper(g) PROVE Moves(g)
    BY <2>1, ZipperTyped
  <2>2. ASSUME NEW g \in Gens, PipeRead(g),
               UNCHANGED <<task, attempt, taskErr, pos, stored, uploaded, final, queued, refused>>,
               pipe' \in [Gens -> {"none", "open", "orphan", "closed", "eof"}]
        PROVE  Moves(g)
    <3>1. /\ zip[g].pc \in {"flush", "closing"} /\ zip'[g].pc # "flush"
          /\ zip' \in [Gens -> [pc : ZipPlaces, buf : Seq(Files)]]
          /\ got' \in [Gens -> Seq(Files)]
          /\ \A h \in Gens : h # g => zip'[h] = zip[h]
          /\ listed' \subseteq Files
      BY <2>2, PipeReadTyped
    <3> QED BY <2>2, <3>1 DEF ZipTypeOK
  <2>3. CASE CopyReads
    <3>1. 0 \in Gens /\ PipeRead(0)
          /\ UNCHANGED <<task, attempt, taskErr, pos, stored, uploaded, final, queued, refused>>
      BY <2>3, GensFacts DEF CopyReads
    <3>2. pipe' \in [Gens -> {"none", "open", "orphan", "closed", "eof"}]
      BY <2>3 DEF CopyReads, ZipTypeOK
    <3> QED BY <2>2, <3>1, <3>2
  <2>4. CASE TransportReads
    <3>1. attempt + 1 \in Gens /\ PipeRead(attempt + 1)
          /\ UNCHANGED <<task, attempt, taskErr, pos, stored, uploaded, final, queued, refused>>
      BY <2>4, GensFacts DEF TransportReads, ZipTypeOK
    <3>2. pipe' \in [Gens -> {"none", "open", "orphan", "closed", "eof"}]
      BY <2>4 DEF TransportReads, ZipTypeOK
    <3> QED BY <2>2, <3>1, <3>2
  <2> QED BY <2>1, <2>3, <2>4 DEF Zipping
<1>1. PICK g \in Gens : Moves(g)
  BY <1>0
<1>2. task # "new" /\ task # "done"
  BY <1>1 DEF IdleInv, AllZipped
<1>3. IdleInv'
  BY <1>1, <1>2 DEF IdleInv
<1>4. FlushInv'
  BY <1>1 DEF FlushInv
<1>5. TaskInv'
  BY <1>1, <1>2 DEF TaskInv
<1> QED BY <1>1, <1>2, <1>3, <1>4, <1>5

(* The archive has been uploaded and counted.                                 *)
Won == task \in {"wait", "done"} /\ uploaded

(* A step of the task: an upload is counted once, in Finish.                  *)
LEMMA TaskStep ==
    ASSUME ZInv, Task
    PROVE  /\ ZInv'
           /\ task # "new" /\ task # "done" /\ task' # "new"
           /\ queued => queued'
           /\ Won' <=> (Won \/ (task = "finish" /\ uploaded))
<1> USE DEF ZInv
<1> DEFINE Quiet == /\ UNCHANGED <<listed, final, queued>> /\ task \notin {"new", "finish", "wait", "done"}
                    /\ task' \notin {"new", "details", "wait", "done"}
                    /\ stored' \in Seq(Files) \cup {None} /\ FlushInv' /\ ZipTypeOK'
                    /\ TaskInv'
<1>0. Gens \subseteq Nat /\ attempt + 1 \in Gens /\ attempt \in 0 .. Retries
  BY GensFacts DEF ZipTypeOK
<1>1. ASSUME Quiet PROVE ZInv' /\ Won' = Won /\ ~Won /\ (queued => queued')
  <2>1. IdleInv'
    BY <1>1 DEF IdleInv
  <2>2. Won' = FALSE /\ Won = FALSE
    BY <1>1 DEF Won
  <2> QED BY <1>1, <2>1, <2>2
<1>2. CASE Details
  <2>1. Quiet
    BY <1>2 DEF Details, ZipTypeOK, FlushInv, TaskInv
  <2>2. task = "details"
    BY <1>2 DEF Details
  <2> QED BY <1>1, <2>1, <2>2
<1>3. CASE Deploy
  <2>1. got[0] \in Seq(Files) /\ got[0] # None
    BY GensFacts, BufTyped, NoneIsNoContent
  <2>2. /\ task = "deploy" /\ task' \in {"attempt", "finish"}
        /\ UNCHANGED <<attempt, pos, zip, pipe, got, listed, final, queued, refused>>
    BY <1>3 DEF Deploy
  <2>3. \/ task' = "attempt" /\ UNCHANGED <<stored, uploaded, taskErr>>
        \/ task' = "finish" /\ stored' = got[0] /\ uploaded' = TRUE /\ UNCHANGED taskErr
        \/ task' = "finish" /\ taskErr' = "err" /\ UNCHANGED <<stored, uploaded>>
    BY <1>3 DEF Deploy
  <2>4. ~uploaded /\ taskErr = Nil
    BY <2>2 DEF TaskInv
  <2>5. TaskInv'
    BY <2>1, <2>2, <2>3, <2>4 DEF TaskInv, Nil
  <2>6. ZipTypeOK'
    BY <2>1, <2>2, <2>3 DEF ZipTypeOK
  <2>7. FlushInv'
    BY <2>2 DEF FlushInv
  <2>8. Quiet
    BY <2>1, <2>2, <2>3, <2>5, <2>6, <2>7 DEF ZipTypeOK
  <2> QED BY <1>1, <2>2, <2>8
<1>4. CASE GetReader
  <2>1. /\ task = "attempt" /\ task' = "send" /\ pos' = 0
        /\ Goes(attempt + 1, "next", <<>>) /\ pipe' = [pipe EXCEPT ![attempt + 1] = "open"]
        /\ UNCHANGED <<attempt, taskErr, got, stored, uploaded, listed, final, queued, refused>>
    BY <1>4 DEF GetReader, Spawn
  <2>2. <<>> \in Seq(Files)
    OBVIOUS
  <2>3. /\ zip' \in [Gens -> [pc : ZipPlaces, buf : Seq(Files)]]
        /\ zip'[attempt + 1].pc = "next"
        /\ \A h \in Gens : h # attempt + 1 => zip'[h] = zip[h]
    BY <1>0, <2>1, <2>2, GoesTyped DEF ZipPlaces
  <2>4. ZipTypeOK'
    <3>1. pos' \in 0 .. NFiles
      BY <2>1, NFilesAssumption
    <3>2. pipe' \in [Gens -> {"none", "open", "orphan", "closed", "eof"}]
      BY <2>1 DEF ZipTypeOK
    <3> QED BY <2>1, <2>3, <3>1, <3>2 DEF ZipTypeOK
  <2>5. FlushInv'
    BY <2>3 DEF FlushInv
  <2>6. TaskInv'
    BY <2>1 DEF TaskInv
  <2>7. Quiet
    BY <2>1, <2>4, <2>5, <2>6 DEF ZipTypeOK
  <2> QED BY <1>1, <2>1, <2>7
<1>5. CASE Sends
  <2>1. Quiet
    BY <1>5 DEF Sends, ZipTypeOK, FlushInv, TaskInv
  <2>2. task = "send" /\ task' = "sending"
    BY <1>5 DEF Sends
  <2> QED BY <1>1, <2>1, <2>2
\* The steps that end with a verdict.
<1>6. ASSUME NEW retry \in BOOLEAN, NEW e \in {Nil, "err"}, Verdict(retry, e), retry <=> e = "err",
             task \in {"send", "sending"},
             UNCHANGED <<pos, zip, listed, final, queued>>, refused' \in BOOLEAN,
             pipe' \in [Gens -> {"none", "open", "orphan", "closed", "eof"}],
             got' \in [Gens -> Seq(Files)],
             stored' \in Seq(Files) \cup {None}, e = Nil => stored' # None
      PROVE  Quiet /\ task # "finish" /\ task' # "done"
  <2>1. ~uploaded /\ taskErr = Nil
    BY <1>6 DEF TaskInv
  <2>2. /\ task' \in {"attempt", "finish"} /\ attempt' \in 0 .. Retries
        /\ taskErr' \in {Nil, "err"} /\ uploaded' \in BOOLEAN
        /\ task' = "attempt" => ~uploaded' /\ taskErr' = Nil
        /\ task' = "finish" => (uploaded' <=> taskErr' = Nil)
        /\ uploaded' => e = Nil
    BY <1>6, <2>1, VerdictTyped
  <2>3. TaskInv'
    BY <1>6, <2>2 DEF TaskInv
  <2>4. ZipTypeOK'
    BY <1>6, <2>2 DEF ZipTypeOK
  <2>5. FlushInv'
    BY <1>6 DEF FlushInv
  <2> QED BY <1>6, <2>2, <2>3, <2>4, <2>5
<1>7. CASE Refused
  <2>1. /\ task = "send" /\ Verdict(TRUE, "err") /\ refused' = TRUE
        /\ UNCHANGED <<pos, zip, got, stored, listed, final, queued>>
    BY <1>7 DEF Refused
  <2>2. pipe' \in [Gens -> {"none", "open", "orphan", "closed", "eof"}]
    BY <1>7 DEF Refused, ZipTypeOK
  <2>3. got' \in [Gens -> Seq(Files)] /\ stored' \in Seq(Files) \cup {None} /\ "err" # Nil
    BY <2>1 DEF ZipTypeOK, Nil
  <2>4. Quiet /\ task # "finish" /\ task' # "done"
    BY <1>6, <2>1, <2>2, <2>3
  <2> QED BY <1>1, <2>1, <2>4
<1>8. CASE TransportFails
  <2>1. /\ task = "sending" /\ Verdict(TRUE, "err")
        /\ UNCHANGED <<pos, zip, stored, listed, final, queued, refused>>
    BY <1>8 DEF TransportFails
  <2>2. <<>> \in Seq(Files)
    OBVIOUS
  <2>3. /\ pipe' \in [Gens -> {"none", "open", "orphan", "closed", "eof"}]
        /\ got' \in [Gens -> Seq(Files)]
    BY <1>8, <2>2 DEF TransportFails, ZipTypeOK
  <2>4. stored' \in Seq(Files) \cup {None} /\ "err" # Nil /\ refused' \in BOOLEAN
    BY <2>1 DEF ZipTypeOK, Nil
  <2>5. Quiet /\ task # "finish" /\ task' # "done"
    BY <1>6, <2>1, <2>3, <2>4
  <2> QED BY <1>1, <2>1, <2>5
<1>9. CASE Answered
  <2>1. /\ task = "sending" /\ got' = [got EXCEPT ![attempt + 1] = <<>>]
        /\ UNCHANGED <<pos, zip, pipe, listed, final, queued, refused>>
    BY <1>9 DEF Answered
  <2>2. \/ Verdict(TRUE, "err") /\ UNCHANGED stored
        \/ stored' = got[attempt + 1] /\ Verdict(FALSE, Nil)
        \/ stored' = got[attempt + 1] /\ Verdict(TRUE, "err")
    BY <1>9 DEF Answered
  <2>3. got[attempt + 1] \in Seq(Files) /\ got[attempt + 1] # None /\ <<>> \in Seq(Files)
    BY <1>0, BufTyped, NoneIsNoContent
  <2>4. /\ got' \in [Gens -> Seq(Files)]
        /\ pipe' \in [Gens -> {"none", "open", "orphan", "closed", "eof"}] /\ refused' \in BOOLEAN
        /\ stored' \in Seq(Files) \cup {None}
    BY <2>1, <2>2, <2>3 DEF ZipTypeOK
  <2>5. CASE Verdict(TRUE, "err")
    <3>1. "err" # Nil
      BY DEF Nil
    <3>2. Quiet /\ task # "finish" /\ task' # "done"
      BY <1>6, <2>1, <2>4, <2>5, <3>1
    <3> QED BY <1>1, <2>1, <3>2
  <2>6. CASE stored' = got[attempt + 1] /\ Verdict(FALSE, Nil)
    <3>1. "err" # Nil /\ stored' # None
      BY <2>3, <2>6 DEF Nil
    <3>2. Quiet /\ task # "finish" /\ task' # "done"
      BY <1>6, <2>1, <2>4, <2>6, <3>1
    <3> QED BY <1>1, <2>1, <3>2
  <2> QED BY <2>2, <2>5, <2>6
<1>10. CASE Finish
  <2>1. /\ task = "finish" /\ task' = "wait"
        /\ UNCHANGED <<attempt, pos, zip, pipe, got, stored, uploaded, listed, queued, refused>>
    BY <1>10 DEF Finish
  <2>2. IF uploaded THEN (final' = listed /\ taskErr' = taskErr) \/ (taskErr' = "err" /\ final' = final)
                    ELSE final' = final /\ taskErr' = taskErr
    BY <1>10 DEF Finish
  <2>3. ZipTypeOK'
    BY <2>1, <2>2 DEF ZipTypeOK
  <2>4. IdleInv' /\ FlushInv'
    BY <2>1 DEF IdleInv, FlushInv
  <2>5. TaskInv'
    BY <2>1, <2>2 DEF TaskInv, Nil
  <2> QED BY <2>1, <2>3, <2>4, <2>5 DEF Won, ZipTypeOK
<1>11. CASE Return
  <2>1. /\ task = "wait" /\ task' = "done" /\ AllZipped
        /\ taskErr' \in {taskErr, "err"} /\ queued' = (queued \/ taskErr' # Nil)
        /\ UNCHANGED <<attempt, pos, zip, pipe, got, stored, uploaded, listed, final, refused>>
    BY <1>11 DEF Return
  <2>2. /\ queued' \in BOOLEAN /\ (queued => queued')
        /\ ~queued' => taskErr' = Nil
        /\ taskErr' = Nil => taskErr = Nil
    BY <2>1 DEF Nil
  <2>3. ZipTypeOK'
    BY <2>1, <2>2 DEF ZipTypeOK
  <2>4. IdleInv' /\ FlushInv'
    BY <2>1 DEF IdleInv, FlushInv, AllZipped
  <2>5. TaskInv'
    BY <2>1, <2>2 DEF TaskInv
  <2> QED BY <2>1, <2>2, <2>3, <2>4, <2>5 DEF Won, TaskInv, ZipTypeOK
<1> QED BY <1>2, <1>3, <1>4, <1>5, <1>7, <1>8, <1>9, <1>10, <1>11 DEF Task

(* Where nothing changes but that an error is queued.                         *)
LEMMA QueueStep ==
    ASSUME ZInv, UNCHANGED <<task, attempt, taskErr, pos, zip, pipe, got, stored, uploaded, listed, final, refused>>,
           queued' \in BOOLEAN, queued => queued'
    PROVE  ZInv' /\ (Won' <=> Won)
<1> USE DEF ZInv
<1>1. ZipTypeOK'
  BY DEF ZipTypeOK
<1>2. IdleInv' /\ FlushInv'
  BY DEF IdleInv, AllZipped, FlushInv
<1>3. TaskInv'
  BY DEF TaskInv
<1> QED BY <1>1, <1>2, <1>3 DEF Won

(* The task begins, or fails at once.                                         *)
LEMMA BeginStep ==
    ASSUME ZInv, Begin
    PROVE  /\ ZInv' /\ task = "new" /\ task' \in {"details", "done"}
           /\ ~Won /\ ~Won' /\ (queued => queued') /\ (task' = "done" => queued')
           /\ UNCHANGED <<attempt, pos, got, stored, uploaded, listed, final, refused>>
<1> USE DEF ZInv
<1>1. /\ task = "new" /\ ~uploaded /\ taskErr = Nil
      /\ UNCHANGED <<attempt, pos, got, stored, uploaded, listed, final, refused>>
  BY DEF Begin, TaskInv
<1>2. CASE task' = "details" /\ Spawn(0) /\ UNCHANGED taskErr
  <2>0. queued' = (queued \/ taskErr' # Nil)
    BY DEF Begin
  <2>1. queued' \in BOOLEAN /\ (queued => queued')
    BY <2>0
  <2>2. <<>> \in Seq(Files)
    OBVIOUS
  <2>3. /\ zip' \in [Gens -> [pc : ZipPlaces, buf : Seq(Files)]]
        /\ zip'[0].pc = "next"
        /\ \A h \in Gens : h # 0 => zip'[h] = zip[h]
    BY <1>2, <2>2, GensFacts, GoesTyped DEF ZipPlaces, Spawn
  <2>4. pipe' \in [Gens -> {"none", "open", "orphan", "closed", "eof"}]
    BY <1>2 DEF Spawn, ZipTypeOK
  <2>5. ZipTypeOK'
    BY <1>1, <1>2, <2>1, <2>3, <2>4 DEF ZipTypeOK
  <2>6. IdleInv' /\ FlushInv'
    BY <1>1, <1>2, <2>3 DEF IdleInv, FlushInv
  <2>7. TaskInv'
    BY <1>1, <1>2 DEF TaskInv
  <2> QED BY <1>1, <1>2, <2>1, <2>5, <2>6, <2>7 DEF Won
<1>3. CASE task' = "done" /\ taskErr' = "err" /\ UNCHANGED <<zip, pipe>>
  <2>1. queued' = (queued \/ taskErr' # Nil)
    BY DEF Begin
  <2>2. queued' = TRUE
    BY <1>3, <2>1 DEF Nil
  <2>3. ZipTypeOK'
    BY <1>1, <1>3, <2>2 DEF ZipTypeOK
  <2>4. IdleInv' /\ FlushInv'
    BY <1>1, <1>3 DEF IdleInv, AllZipped, FlushInv
  <2>5. TaskInv'
    BY <1>1, <1>3, <2>2 DEF TaskInv, Nil
  <2> QED BY <1>1, <1>3, <2>2, <2>3, <2>4, <2>5 DEF Won
<1> QED BY <1>2, <1>3 DEF Begin

-----------------------------------------------------------------------------
(* The consumers                                                              *)

Singles == FileItems \cup DirItems   \* the items that are not the archive
Begun   == produced \ waiting        \* the items a consumer has taken

(* Where an item stands, and what has been said of it.                        *)
SetsInv ==
    /\ produced \subseteq Items /\ waiting \subseteq produced /\ running \subseteq Begun
    /\ transfers \subseteq (Singles \cap Begun) \ running
    /\ transfers \cap FileItems \subseteq accepted

(* The archive as an item and as a task.                                      *)
ArchiveInv ==
    /\ "zip" \in running <=> task \notin {"new", "done"}
    /\ task = "new" <=> "zip" \notin Begun
    /\ "zip" \in produced <=> producer = "done"
    /\ stored # None => "zip" \in accepted

CountInv ==
    /\ total = Cardinality(Begun)
    /\ success = Cardinality(transfers) + IF Won THEN 1 ELSE 0

(* Without an error in the queue nothing is left out and nothing has failed.  *)
SkipInv ==
    /\ skipped = IF producer = "collecting" THEN {} ELSE Singles \ produced
    /\ ~queued => skipped = {} /\ (Singles \cap Begun) \ running \subseteq transfers

SummaryInv ==
    summary # NoSummary =>
        /\ RunOver
        /\ summary.succeeded = success /\ summary.failed = total - success
        /\ summary.err = Nil => ~queued

CInv == SetsInv /\ ArchiveInv /\ CountInv /\ SkipInv /\ SummaryInv


Inv == ZInv /\ CInv

LEMMA ItemsFacts ==
    /\ IsFiniteSet(Items) /\ IsFiniteSet(Singles) /\ "zip" \notin Singles
    /\ Items = Singles \cup {"zip"} /\ Cardinality(Items) = Cardinality(Singles) + 1
<1>1. IsFiniteSet(Singles) /\ "zip" \notin Singles /\ Items = Singles \cup {"zip"}
  BY ItemsAssumption, FS_Union DEF Singles, Items
<1> QED BY <1>1, FS_AddElement

LEMMA Initially == Init => Inv
<1> SUFFICES ASSUME Init PROVE Inv
  OBVIOUS
<1>1. ZInv
  BY ZipInitially DEF Init
<1>2. SetsInv /\ ArchiveInv /\ SkipInv /\ SummaryInv
  BY DEF Init, ZipInit, SetsInv, ArchiveInv, SkipInv, SummaryInv, Begun
<1>3. CountInv
  BY FS_EmptySet DEF Init, ZipInit, CountInv, Begun, Won
<1> QED BY <1>1, <1>2, <1>3 DEF Inv, CInv

(* The producer adds a file's or a directory's task.                          *)
LEMMA CollectStep ==
    ASSUME Inv, NEW item \in Singles, Collect(item) PROVE Inv'
<1> USE DEF Inv, CInv
<1>1. /\ producer = "collecting" /\ item \notin produced
      /\ produced' = produced \cup {item} /\ waiting' = waiting \cup {item}
      /\ UNCHANGED <<zvars, producer, running, total, success, accepted, transfers, skipped, summary>>
  BY DEF Collect
<1>2. ZInv' /\ Won' = Won
  BY <1>1, QueueStep DEF zvars, ZInv, ZipTypeOK, Won
<1>3. Begun' = Begun
  BY <1>1 DEF Begun, SetsInv
<1>4. item # "zip" /\ item \in Items
  BY ItemsFacts
<1>5. SetsInv'
  BY <1>1, <1>3, <1>4 DEF SetsInv
<1>6. ArchiveInv'
  BY <1>1, <1>3, <1>4 DEF ArchiveInv, zvars
<1>7. CountInv'
  BY <1>1, <1>2, <1>3 DEF CountInv
<1>8. SkipInv'
  BY <1>1, <1>3 DEF SkipInv, zvars
<1>9. SummaryInv'
  BY <1>1 DEF SummaryInv, RunOver
<1> QED BY <1>2, <1>5, <1>6, <1>7, <1>8, <1>9

(* The producer is through with the groups.                                   *)
LEMMA EndGroupsStep ==
    ASSUME Inv, EndGroups PROVE Inv'
<1> USE DEF Inv, CInv
<1>1. /\ producer = "collecting" /\ producer' = "archives" /\ skipped' = Singles \ produced
      /\ queued' = (queued \/ skipped' # {})
      /\ UNCHANGED <<task, attempt, taskErr, pos, zip, pipe, got, stored, uploaded, listed, final, refused,
                     produced, waiting, running, total, success, accepted, transfers, summary>>
  BY DEF EndGroups, Singles
<1>2. queued' \in BOOLEAN /\ (queued => queued') /\ (~queued' => skipped' = {})
  BY <1>1
<1>3. ZInv' /\ Won' = Won
  BY <1>1, <1>2, QueueStep DEF Won, ZInv, ZipTypeOK
<1>4. Begun' = Begun
  BY <1>1 DEF Begun
<1>5. SetsInv'
  BY <1>1, <1>4 DEF SetsInv
<1>6. ArchiveInv'
  BY <1>1, <1>4 DEF ArchiveInv
<1>7. CountInv'
  BY <1>1, <1>3, <1>4 DEF CountInv
<1>8. SkipInv'
  BY <1>1, <1>2, <1>4 DEF SkipInv
<1>9. SummaryInv'
  BY <1>1 DEF SummaryInv, RunOver
<1> QED BY <1>3, <1>5, <1>6, <1>7, <1>8, <1>9

(* The producer adds the archive's task.                                      *)
LEMMA AddArchiveStep ==
    ASSUME Inv, AddArchive PROVE Inv'
<1> USE DEF Inv, CInv
<1>1. /\ producer = "archives" /\ producer' = "done" /\ queued' \in {queued, TRUE}
      /\ produced' = produced \cup {"zip"} /\ waiting' = waiting \cup {"zip"}
      /\ UNCHANGED <<task, attempt, taskErr, pos, zip, pipe, got, stored, uploaded, listed, final, refused,
                     running, total, success, accepted, transfers, skipped, summary>>
  BY DEF AddArchive
<1>2. queued' \in BOOLEAN /\ (queued => queued')
  BY <1>1 DEF ZInv, ZipTypeOK
<1>3. ZInv' /\ Won' = Won
  BY <1>1, <1>2, QueueStep DEF Won, ZInv, ZipTypeOK
<1>4. "zip" \notin produced /\ "zip" \in Items
  BY <1>1 DEF ArchiveInv, Items
<1>5. Begun' = Begun
  BY <1>1, <1>4 DEF Begun, SetsInv
<1>6. SetsInv'
  BY <1>1, <1>4, <1>5 DEF SetsInv
<1>7. ArchiveInv'
  BY <1>1, <1>5 DEF ArchiveInv
<1>8. CountInv'
  BY <1>1, <1>3, <1>5 DEF CountInv
<1>9. SkipInv'
  BY <1>1, <1>2, <1>5, ItemsFacts DEF SkipInv
<1>10. SummaryInv'
  BY <1>1 DEF SummaryInv, RunOver
<1> QED BY <1>3, <1>6, <1>7, <1>8, <1>9, <1>10

(* A consumer takes a task and counts it.                                     *)
LEMMA TakeStep ==
    ASSUME Inv, NEW item \in Items, Take(item) PROVE Inv'
<1> USE DEF Inv, CInv
<1>1. /\ item \in waiting /\ waiting' = waiting \ {item} /\ total' = total + 1
      /\ UNCHANGED <<produced, producer, success, accepted, transfers, skipped, summary>>
  BY DEF Take
<1>2. item \in produced /\ item \notin Begun /\ Begun' = Begun \cup {item}
  BY <1>1 DEF Begun, SetsInv
<1>3. total' = Cardinality(Begun')
  <2>1. IsFiniteSet(Begun)
    BY ItemsFacts, FS_Subset DEF SetsInv, Begun
  <2> QED BY <1>1, <1>2, <2>1, FS_AddElement DEF CountInv
<1>4. SummaryInv'
  BY <1>1 DEF SummaryInv, RunOver
<1>5. CASE item = "zip"
  <2>1. /\ ZInv' /\ task = "new" /\ task' \in {"details", "done"}
        /\ ~Won /\ ~Won' /\ (queued => queued') /\ UNCHANGED <<stored, uploaded>>
    BY <1>5, BeginStep DEF Take
  <2>2. running' = IF task' = "done" THEN running ELSE running \cup {item}
    BY <1>5 DEF Take
  <2>3. "zip" \notin running /\ "zip" \notin Singles
    BY <2>1, ItemsFacts DEF ArchiveInv
  <2>4. SetsInv'
    BY <1>1, <1>2, <1>5, <2>2, <2>3 DEF SetsInv
  <2>5. ArchiveInv'
    BY <1>1, <1>2, <1>5, <2>1, <2>2, <2>3 DEF ArchiveInv
  <2>6. CountInv'
    BY <1>1, <1>3, <2>1 DEF CountInv
  <2>7. SkipInv'
    BY <1>1, <1>2, <1>5, <2>1, <2>2, <2>3 DEF SkipInv
  <2> QED BY <1>4, <2>1, <2>4, <2>5, <2>6, <2>7
<1>6. CASE item # "zip"
  <2>1. running' = running \cup {item} /\ UNCHANGED zvars
    BY <1>6 DEF Take
  <2>2. ZInv' /\ Won' = Won
    BY <2>1, QueueStep DEF zvars, ZInv, ZipTypeOK, Won
  <2>3. SetsInv'
    BY <1>1, <1>2, <2>1 DEF SetsInv
  <2>4. ArchiveInv'
    BY <1>1, <1>2, <1>6, <2>1 DEF ArchiveInv, zvars
  <2>5. CountInv'
    BY <1>1, <1>3, <2>2 DEF CountInv
  <2>6. SkipInv'
    BY <1>1, <1>2, <2>1 DEF SkipInv, zvars
  <2> QED BY <1>4, <2>2, <2>3, <2>4, <2>5, <2>6
<1> QED BY <1>5, <1>6

(* A file's or a directory's task ends.                                       *)
LEMMA SingleStep ==
    ASSUME Inv, NEW item \in Items, UploadFile(item) \/ CreateFolder(item) PROVE Inv'
<1> USE DEF Inv, CInv
<1>1. /\ item \in running /\ item \in Singles
      /\ running' = running \ {item}
      /\ UNCHANGED <<task, attempt, taskErr, pos, zip, pipe, got, stored, uploaded, listed, final, refused,
                     produced, waiting, producer, total, skipped, summary>>
  BY DEF UploadFile, CreateFolder, TaskEnds, Singles
<1>2. \/ /\ success' = success + 1 /\ transfers' = transfers \cup {item} /\ queued' = queued
         /\ item \in FileItems => item \in accepted'
      \/ queued' = TRUE /\ success' = success /\ transfers' = transfers
  <2>1. CASE UploadFile(item)
    BY <2>1 DEF UploadFile, TaskEnds
  <2>2. CASE CreateFolder(item)
    <3>1. item \notin FileItems
      BY <2>2, ItemsAssumption DEF CreateFolder
    <3> QED BY <2>2, <3>1 DEF CreateFolder, TaskEnds
  <2> QED BY <2>1, <2>2
<1>3. accepted \subseteq accepted'
  BY DEF UploadFile, CreateFolder
<1>4. queued' \in BOOLEAN /\ (queued => queued')
  BY <1>2 DEF ZInv, ZipTypeOK
<1>5. ZInv' /\ Won' = Won
  BY <1>1, <1>4, QueueStep DEF Won, ZInv, ZipTypeOK
<1>6. Begun' = Begun /\ item \in Begun /\ item # "zip" /\ item \notin transfers
  BY <1>1, ItemsFacts DEF Begun, SetsInv
<1>7. SetsInv'
  BY <1>1, <1>2, <1>3, <1>6 DEF SetsInv
<1>8. ArchiveInv'
  BY <1>1, <1>3, <1>6 DEF ArchiveInv
<1>9. CountInv'
  <2>1. IsFiniteSet(transfers)
    BY ItemsFacts, FS_Subset DEF SetsInv
  <2>2. Cardinality(transfers \cup {item}) = Cardinality(transfers) + 1 /\ Cardinality(transfers) \in Nat
    BY <1>6, <2>1, FS_AddElement, FS_CardinalityType
  <2>3. total' = Cardinality(Begun')
    BY <1>1, <1>6 DEF CountInv
  <2> DEFINE w == IF Won THEN 1 ELSE 0
  <2>4. success' = Cardinality(transfers') + w
    <3>1. success = Cardinality(transfers) + w /\ w \in Nat
      BY DEF CountInv
    <3> HIDE DEF w
    <3>2. CASE success' = success + 1 /\ transfers' = transfers \cup {item}
      BY <2>2, <3>1, <3>2
    <3>3. CASE success' = success /\ transfers' = transfers
      BY <3>1, <3>3
    <3> QED BY <1>2, <3>2, <3>3
  <2> QED BY <1>5, <2>3, <2>4 DEF CountInv
<1>10. SkipInv'
  BY <1>1, <1>2, <1>6 DEF SkipInv
<1>11. SummaryInv'
  BY <1>1 DEF SummaryInv, RunOver
<1> QED BY <1>5, <1>7, <1>8, <1>9, <1>10, <1>11

(* A step of the archive's task.                                              *)
LEMMA ZipTaskStep ==
    ASSUME Inv, ZipTask PROVE Inv'
<1> USE DEF Inv, CInv
<1>1. /\ "zip" \in running
      /\ running' = IF task' = "done" THEN running \ {"zip"} ELSE running
      /\ success' = IF task = "finish" /\ uploaded THEN success + 1 ELSE success
      /\ accepted' = IF stored' # stored THEN accepted \cup {"zip"} ELSE accepted
      /\ UNCHANGED <<produced, waiting, producer, total, transfers, skipped, summary>>
  BY DEF ZipTask
<1>2. /\ ZInv' /\ task # "new" /\ task # "done" /\ task' # "new"
      /\ queued => queued'
      /\ Won' <=> (Won \/ (task = "finish" /\ uploaded))
  BY TaskStep DEF ZipTask
<1>3. Begun' = Begun /\ "zip" \in Begun /\ "zip" \notin Singles
  BY <1>1, ItemsFacts DEF Begun, SetsInv
<1>4. SetsInv'
  BY <1>1, <1>3 DEF SetsInv
<1>5. ArchiveInv'
  BY <1>1, <1>2, <1>3 DEF ArchiveInv
<1>6. CountInv'
  <2>1. Cardinality(transfers) \in Nat
    BY ItemsFacts, FS_Subset, FS_CardinalityType DEF SetsInv
  <2>2. ~(Won /\ task = "finish")
    BY DEF Won
  <2>3. success' = Cardinality(transfers) + IF Won' THEN 1 ELSE 0
    BY <1>1, <1>2, <2>1, <2>2 DEF CountInv
  <2> QED BY <1>1, <1>3, <2>3 DEF CountInv
<1>7. SkipInv'
  BY <1>1, <1>2, <1>3 DEF SkipInv
<1>8. SummaryInv'
  BY <1>1 DEF SummaryInv, RunOver
<1> QED BY <1>2, <1>4, <1>5, <1>6, <1>7, <1>8

(* The goroutines do not touch what the consumers have.                       *)
LEMMA BackgroundStep ==
    ASSUME Inv, Background PROVE Inv'
<1> USE DEF Inv, CInv
<1>1. /\ ZInv' /\ UNCHANGED <<task, attempt, taskErr, stored, uploaded, final, refused>>
      /\ task # "new" /\ task # "done" /\ (queued => queued')
  BY ZippingStep DEF Background
<1>2. UNCHANGED <<produced, waiting, producer, running, total, success, accepted, transfers, skipped, summary>>
  BY DEF Background, uvars
<1>3. Begun' = Begun /\ Won' = Won
  BY <1>1, <1>2 DEF Begun, Won
<1>4. "zip" \in running
  BY <1>1 DEF ArchiveInv
<1>5. summary = NoSummary
  BY <1>4 DEF SummaryInv, RunOver
<1>6. SetsInv' /\ ArchiveInv' /\ CountInv'
  BY <1>1, <1>2, <1>3 DEF SetsInv, ArchiveInv, CountInv
<1>7. SkipInv' /\ SummaryInv'
  BY <1>1, <1>2, <1>3, <1>5 DEF SkipInv, SummaryInv
<1> QED BY <1>1, <1>6, <1>7

LEMMA SummarizeStep ==
    ASSUME Inv, Summarize PROVE Inv'
<1> USE DEF Inv, CInv
<1>1. /\ RunOver
      /\ UNCHANGED <<zvars, produced, waiting, producer, running, total, success, accepted, transfers, skipped>>
  BY DEF Summarize
<1>2. PICK e \in IF queued THEN {"err"} ELSE {Nil, "err"} :
            summary' = [succeeded |-> success, failed |-> total - success, err |-> e]
  BY DEF Summarize
<1>3. ZInv' /\ Won' = Won
  BY <1>1, QueueStep DEF zvars, ZInv, ZipTypeOK, Won
<1>4. Begun' = Begun
  BY <1>1 DEF Begun
<1>5. SetsInv' /\ ArchiveInv' /\ CountInv' /\ SkipInv'
  BY <1>1, <1>3, <1>4 DEF SetsInv, ArchiveInv, CountInv, SkipInv, zvars
<1>6. queued' = queued /\ RunOver'
  BY <1>1 DEF zvars, RunOver
<1>7. e = Nil => ~queued
  BY <1>2 DEF Nil
<1>8. SummaryInv'
  BY <1>1, <1>2, <1>6, <1>7 DEF SummaryInv
<1> QED BY <1>3, <1>5, <1>8

LEMMA Preserved == Inv /\ [Next]_allvars => Inv'
<1> SUFFICES ASSUME Inv, [Next]_allvars PROVE Inv'
  OBVIOUS
<1>1. CASE Producer
  BY <1>1, CollectStep, EndGroupsStep, AddArchiveStep DEF Producer, Singles
<1>2. CASE Summarize
  BY <1>2, SummarizeStep
<1>3. CASE Background
  BY <1>3, BackgroundStep
<1>4. ASSUME NEW item \in Items, Consumer(item) PROVE Inv'
  BY <1>4, TakeStep, SingleStep, ZipTaskStep DEF Consumer
<1>5. CASE UNCHANGED allvars
  <2>1. UNCHANGED <<zvars, uvars>>
    BY <1>5 DEF allvars
  <2>2. ZInv' /\ Won' = Won
    BY <2>1, QueueStep DEF zvars, ZInv, ZipTypeOK, Won, Inv
  <2>3. Begun' = Begun
    BY <2>1 DEF Begun, uvars
  <2>4. SetsInv' /\ ArchiveInv' /\ CountInv' /\ SkipInv' /\ SummaryInv'
    BY <2>1, <2>2, <2>3
       DEF Inv, CInv, SetsInv, ArchiveInv, CountInv, SkipInv, SummaryInv, RunOver, zvars, uvars
  <2> QED BY <2>2, <2>4 DEF Inv, CInv
<1> QED BY <1>1, <1>2, <1>3, <1>4, <1>5 DEF Next

LEMMA Holds == Inv => SummaryHonest
<1> SUFFICES ASSUME Inv, Ended PROVE SummaryHonest
  BY DEF SummaryHonest
<1> USE DEF Inv, CInv
<1>1. /\ producer = "done" /\ waiting = {} /\ running = {}
      /\ summary.succeeded = success /\ summary.failed = total - success
  BY DEF Ended, SummaryInv, RunOver
<1>2. "zip" \in produced /\ Begun = produced
  BY <1>1 DEF ArchiveInv, Begun
<1>3. task = "done"
  BY <1>1, <1>2 DEF ArchiveInv
<1>4. Items \ skipped = produced
  BY <1>1, <1>2, ItemsFacts DEF SkipInv, SetsInv
<1>5. /\ IsFiniteSet(produced) /\ IsFiniteSet(transfers)
      /\ Cardinality(produced) \in Nat /\ Cardinality(transfers) \in Nat
  BY ItemsFacts, FS_Subset, FS_CardinalityType DEF SetsInv
<1>6. Cardinality(transfers) + 1 <= Cardinality(produced)
  <2>1. transfers \subseteq produced \ {"zip"}
    BY <1>2, ItemsFacts DEF SetsInv
  <2>2. Cardinality(produced \ {"zip"}) = Cardinality(produced) - 1 /\ IsFiniteSet(produced \ {"zip"})
    BY <1>2, <1>5, FS_RemoveElement
  <2>3. Cardinality(transfers) <= Cardinality(produced \ {"zip"})
    BY <2>1, <2>2, FS_Subset
  <2> QED BY <1>5, <2>2, <2>3
<1>7. total = Cardinality(produced) /\ success = Cardinality(transfers) + IF uploaded THEN 1 ELSE 0
  BY <1>2, <1>3 DEF CountInv, Won
<1>8. summary.succeeded + summary.failed = Cardinality(Items \ skipped) /\ summary.failed >= 0
  <2>1. success \in Nat /\ success <= Cardinality(transfers) + 1
    <3> DEFINE w == IF uploaded THEN 1 ELSE 0
    <3>1. success = Cardinality(transfers) + w /\ w \in {0, 1}
      BY <1>7
    <3> HIDE DEF w
    <3> QED BY <1>5, <3>1
  <2>2. total \in Nat /\ success <= total /\ total = Cardinality(Items \ skipped)
    <3>1. total = Cardinality(produced)
      BY <1>7
    <3> QED BY <1>4, <1>5, <1>6, <2>1, <3>1
  <2>3. summary.succeeded = success /\ summary.failed = total - success
    BY <1>1
  <2> QED BY <2>1, <2>2, <2>3
<1>9. uploaded => "zip" \in accepted
  BY DEF ZInv, TaskInv, ArchiveInv
<1>10. transfers \cap FileItems \subseteq accepted
  BY DEF SetsInv
<1> QED BY <1>1, <1>7, <1>8, <1>9, <1>10 DEF SummaryHonest

(* For every number of files, directories and consumers, and whatever the     *)
(* archive's attempts do: when UploadFiles returns, successes and failures    *)
(* add up to what was collected, and what counts as a success is on the       *)
(* server.                                                                    *)
THEOREM SummaryHonestHolds == Spec => []SummaryHonest
<1>1. Init => Inv
  BY Initially
<1>2. Inv /\ [Next]_allvars => Inv'
  BY Preserved
<1>3. Inv => SummaryHonest
  BY Holds
<1> QED BY <1>1, <1>2, <1>3, PTL DEF Spec
-----------------------------------------------------------------------------
(* The archive with checksums                                                 *)

(* The first pass: what has come out and what is in the zip writer's buffer   *)
(* are the first pos files, and those that are handled are listed.            *)
FirstPass ==
    /\ zip[0].pc \in {"next", "flush", "closing", "done"} /\ stored = None
    /\ Len(got[0]) + Len(zip[0].buf) = pos
    /\ \A k \in 1 .. Len(got[0]) : got[0][k] = k
    /\ \A k \in 1 .. Len(zip[0].buf) : zip[0].buf[k] = Len(got[0]) + k
    /\ zip[0].pc \in {"closing", "done"} => pos = NFiles
    /\ pipe[0] = IF zip[0].pc = "done" THEN "eof" ELSE "open"
    /\ zip[0].pc = "done" => zip[0].buf = <<>>
    /\ listed = IF zip[0].pc = "flush" THEN 1 .. pos - 1 ELSE 1 .. pos

WholeInv ==
    ChecksumsCalc /\ ~queued =>
        /\ task = "new" => pos = 0 /\ got[0] = <<>> /\ listed = {} /\ stored = None
        /\ task = "details" => FirstPass
        /\ task \notin {"new", "details"} =>
              /\ got[0] = Whole /\ listed = Files /\ zip[0].pc = "done"
              /\ stored \in {None, Whole}
        /\ task \in {"wait", "done"} /\ taskErr = Nil => final = Files

\* Where the archive does not change, an error may be queued.
LEMMA WholeKept ==
    ASSUME WholeInv, UNCHANGED <<task, taskErr, pos, zip, pipe, got, stored, listed, final>>, queued => queued'
    PROVE  WholeInv'
BY DEF WholeInv, FirstPass

LEMMA WholeIsASequence == Whole \in Seq(Files) /\ Len(Whole) = NFiles
BY NFilesAssumption DEF Whole, Files

LEMMA WholeBegin ==
    ASSUME Inv, WholeInv, Begin, ChecksumsCalc PROVE WholeInv'
<1>1. /\ task = "new" /\ task' \in {"details", "done"} /\ ~Won
      /\ (queued => queued') /\ (task' = "done" => queued')
      /\ UNCHANGED <<attempt, pos, got, stored, uploaded, listed, final, refused>>
  BY BeginStep DEF Inv
<1>2. SUFFICES ASSUME ~queued' PROVE WholeInv'
  BY DEF WholeInv
<1>3. task' = "details" /\ Spawn(0)
  <2>1. task' # "done"
    BY <1>1, <1>2
  <2> QED BY <2>1 DEF Begin
<1>4. pos = 0 /\ got[0] = <<>> /\ listed = {} /\ stored = None
  BY <1>1, <1>2 DEF WholeInv
<1>5. zip'[0] = [pc |-> "next", buf |-> <<>>] /\ pipe'[0] = "open"
  BY <1>3, GensFacts DEF Inv, ZInv, ZipTypeOK, Spawn, Goes
<1>6. FirstPass'
  BY <1>1, <1>4, <1>5 DEF FirstPass
<1> QED BY <1>3, <1>6 DEF WholeInv

\* The record after the ones in out and in buf comes to the end of buf.
LEMMA AppendNext ==
    ASSUME NEW out \in Seq(Files), NEW buf \in Seq(Files), NEW p \in Files, Len(out) + Len(buf) + 1 = p,
           \A k \in 1 .. Len(buf) : buf[k] = Len(out) + k
    PROVE  /\ Len(Append(buf, p)) = Len(buf) + 1
           /\ \A k \in 1 .. Len(buf) + 1 : Append(buf, p)[k] = Len(out) + k
<1>1. Len(Append(buf, p)) = Len(buf) + 1
  OBVIOUS
<1>2. ASSUME NEW k \in 1 .. Len(buf) + 1 PROVE Append(buf, p)[k] = Len(out) + k
  <2>1. CASE k = Len(buf) + 1
    BY <2>1, LenProperties
  <2>2. CASE k # Len(buf) + 1
    <3>1. k \in 1 .. Len(buf)
      BY <2>2, LenProperties
    <3>2. Append(buf, p)[k] = buf[k]
      BY <3>1
    <3> QED BY <3>1, <3>2
  <2> QED BY <2>1, <2>2
<1> QED BY <1>1, <1>2

\* The records that have come out are followed by those in the buffer.
LEMMA ConcatNext ==
    ASSUME NEW out \in Seq(Files), NEW buf \in Seq(Files), NEW p \in Nat, Len(out) + Len(buf) = p,
           \A k \in 1 .. Len(out) : out[k] = k, \A k \in 1 .. Len(buf) : buf[k] = Len(out) + k
    PROVE  /\ Len(out \o buf) = p /\ \A k \in 1 .. p : (out \o buf)[k] = k
           /\ buf # <<>> => buf[Len(buf)] = p /\ p >= 1
<1>1. Len(out \o buf) = Len(out) + Len(buf) /\ Len(out) \in Nat /\ Len(buf) \in Nat
  BY LenProperties
<1>2. ASSUME NEW k \in 1 .. p PROVE (out \o buf)[k] = k
  <2>1. CASE k <= Len(out)
    <3>1. k \in 1 .. Len(out) /\ (out \o buf)[k] = out[k]
      BY <1>1, <2>1
    <3> QED BY <3>1
  <2>2. CASE k > Len(out)
    <3>1. k - Len(out) \in 1 .. Len(buf) /\ (out \o buf)[k] = buf[k - Len(out)]
      BY <1>1, <2>2
    <3> QED BY <1>1, <3>1
  <2> QED BY <1>1, <2>1, <2>2
<1>3. buf # <<>> => buf[Len(buf)] = p /\ p >= 1
  <2> SUFFICES ASSUME buf # <<>> PROVE buf[Len(buf)] = p /\ p >= 1
    OBVIOUS
  <2>1. Len(buf) > 0
    BY <1>1
  <2>2. Len(buf) \in 1 .. Len(buf)
    BY <1>1, <2>1
  <2> QED BY <1>1, <2>1, <2>2
<1> QED BY <1>1, <1>2, <1>3

(* The first pass goes on.                                                    *)
LEMMA WholeFirst ==
    ASSUME ZInv, FirstPass, ChecksumsCalc, ~queued, ~queued', Zipper(0) \/ CopyReads
    PROVE  FirstPass'
<1> DEFINE buf == zip[0].buf
           out == got[0]
<1>0. 0 \in Gens /\ buf \in Seq(Files) /\ out \in Seq(Files) /\ pos \in Nat
      /\ Len(buf) \in Nat /\ Len(out) \in Nat
  BY GensFacts, BufTyped, NFilesAssumption DEF ZInv, ZipTypeOK
<1>1. /\ Len(out) + Len(buf) = pos /\ stored = None
      /\ \A k \in 1 .. Len(out) : out[k] = k
      /\ \A k \in 1 .. Len(buf) : buf[k] = Len(out) + k
  BY DEF FirstPass
<1> HIDE DEF buf, out
<1>2. CASE ZipFile(0)
  <2>1. /\ zip[0].pc = "next" /\ pos < NFiles /\ pos' = pos + 1
        /\ UNCHANGED <<stored, got, pipe>>
    BY <1>2 DEF ZipFile
  <2>2. FileAdded(0, pos + 1)
    BY <1>2 DEF ZipFile, FileFails, AddError, buf
  <2> DEFINE b == Append(buf, pos + 1)
  <2>3. \/ Goes(0, "next", b) /\ listed' = listed \cup {pos + 1}
        \/ Goes(0, "flush", b) /\ listed' = listed
    BY <2>2 DEF FileAdded, Lists, buf
  <2>4. zip'[0].buf = b /\ zip'[0].pc \in {"next", "flush"}
        /\ listed' = IF zip'[0].pc = "flush" THEN listed ELSE listed \cup {pos + 1}
    BY <1>0, <2>3 DEF ZInv, ZipTypeOK, Goes
  <2>5. Len(b) = Len(buf) + 1 /\ \A k \in 1 .. Len(buf) + 1 : b[k] = Len(out) + k
    <3>1. pos \in Nat /\ pos < NFiles
      BY <1>0, <2>1
    <3>2. pos + 1 \in Files
      BY <3>1, NFilesAssumption DEF Files
    <3>3. Len(out) + Len(buf) + 1 = pos + 1
      BY <1>0, <1>1
    <3> QED BY <1>0, <1>1, <3>2, <3>3, AppendNext
  <2>6. pipe[0] = "open" /\ listed = 1 .. pos
    BY <2>1 DEF FirstPass
  <2> HIDE DEF b
  <2>7. listed' = IF zip'[0].pc = "flush" THEN 1 .. pos' - 1 ELSE 1 .. pos'
    <3>1. (1 .. pos) \cup {pos + 1} = 1 .. pos + 1 /\ pos + 1 - 1 = pos
      BY <1>0
    <3>2. pos' = pos + 1 /\ pos' - 1 = pos
      BY <1>0, <2>1
    <3>3. CASE zip'[0].pc = "flush"
      BY <2>4, <2>6, <3>1, <3>2, <3>3
    <3>4. CASE zip'[0].pc # "flush"
      BY <2>4, <2>6, <3>1, <3>2, <3>4
    <3> QED BY <3>3, <3>4
  <2>8. Len(out) + Len(b) = pos' /\ got'[0] = out
    <3>1. Len(out) + Len(buf) = pos /\ Len(b) = Len(buf) + 1 /\ pos' = pos + 1
      BY <1>1, <2>1, <2>5
    <3>2. got'[0] = out
      BY <2>1 DEF out
    <3> QED BY <1>0, <3>1, <3>2
  <2> QED BY <1>1, <2>1, <2>4, <2>5, <2>6, <2>7, <2>8 DEF FirstPass
<1>3. CASE ZipEnds(0)
  <2>1. /\ zip[0].pc = "next" /\ pos' = NFiles /\ Goes(0, "closing", buf)
        /\ UNCHANGED <<stored, got, pipe, listed>> /\ AddError(pos < NFiles)
    BY <1>3 DEF ZipEnds, buf
  <2>2. queued' = (queued \/ pos < NFiles)
    BY <2>1 DEF AddError
  <2>3. pos' = pos
    <3>1. ~(pos < NFiles)
      BY <2>2
    <3> QED BY <2>1, <3>1, NFilesAssumption DEF ZInv, ZipTypeOK
  <2>4. zip'[0].buf = buf /\ zip'[0].pc = "closing"
    BY <1>0, <2>1 DEF ZInv, ZipTypeOK, Goes
  <2>5. pipe[0] = "open" /\ listed = 1 .. pos
    BY <2>1 DEF FirstPass
  <2>6. got'[0] = out
    BY <2>1 DEF out
  <2> QED BY <1>1, <2>1, <2>3, <2>4, <2>5, <2>6 DEF FirstPass
<1>4. CASE ZipWriteFails(0)
  BY <1>4 DEF ZipWriteFails, AddError
<1>5. CASE CopyReads
  <2>1. /\ zip[0].pc \in {"flush", "closing"} /\ got' = [got EXCEPT ![0] = out \o buf]
        /\ Goes(0, IF zip[0].pc = "flush" THEN "next" ELSE "done", <<>>)
        /\ IF zip[0].pc = "flush" THEN Lists(0, Last(buf)) ELSE UNCHANGED listed
        /\ UNCHANGED <<stored, pos>>
    BY <1>5 DEF CopyReads, PipeRead, buf, out
  <2>2. zip'[0].buf = <<>> /\ zip'[0].pc = IF zip[0].pc = "flush" THEN "next" ELSE "done"
    BY <1>0, <2>1 DEF ZInv, ZipTypeOK, Goes
  <2>3. got'[0] = out \o buf
    BY <1>0, <2>1 DEF ZInv, ZipTypeOK
  <2>4. Len(out \o buf) = pos /\ \A k \in 1 .. pos : (out \o buf)[k] = k
    BY <1>0, <1>1, ConcatNext
  <2>5. pipe'[0] = IF zip[0].pc = "closing" THEN "eof" ELSE "open"
    BY <1>0, <1>5 DEF CopyReads, ZInv, ZipTypeOK
  <2>6. listed' = 1 .. pos
    <3>1. CASE zip[0].pc = "flush"
      <4>1. buf # <<>>
        BY <1>0, <3>1 DEF ZInv, FlushInv, buf
      <4>2. Last(buf) = pos /\ pos >= 1
        BY <1>0, <1>1, <4>1, ConcatNext DEF Last
      <4>3. listed' = listed \cup {pos}
        BY <2>1, <3>1, <4>2 DEF Lists
      <4>4. listed = 1 .. pos - 1
        BY <3>1 DEF FirstPass
      <4>5. (1 .. pos - 1) \cup {pos} = 1 .. pos
        BY <1>0, <4>2
      <4> QED BY <4>3, <4>4, <4>5
    <3>2. CASE zip[0].pc = "closing"
      BY <2>1, <3>2 DEF FirstPass
    <3> QED BY <2>1, <3>1, <3>2
  <2>7. zip[0].pc = "closing" => pos = NFiles
    BY DEF FirstPass
  <2>8. Len(<<>>) = 0 /\ pos + 0 = pos
    BY <1>0
  <2>9. Len(got'[0]) + Len(zip'[0].buf) = pos' /\ \A k \in 1 .. Len(got'[0]) : got'[0][k] = k
    BY <2>1, <2>2, <2>3, <2>4, <2>8
  <2>10. \A k \in 1 .. Len(zip'[0].buf) : zip'[0].buf[k] = Len(got'[0]) + k
    BY <2>2, <2>8
  <2> QED BY <1>1, <2>1, <2>2, <2>5, <2>6, <2>7, <2>9, <2>10 DEF FirstPass
<1> QED BY <1>2, <1>3, <1>4, <1>5 DEF Zipper

(* After the first pass the other generations leave its results alone.        *)
LEMMA WholeLater ==
    ASSUME ZInv, Zipping, zip[0].pc = "done"
    PROVE  zip'[0] = zip[0] /\ got'[0] = got[0] /\ listed' = listed
<1> USE DEF ZInv
<1>1. ASSUME NEW g \in Gens, Zipper(g)
      PROVE  zip'[0] = zip[0] /\ got'[0] = got[0] /\ listed' = listed
  <2>1. g # 0
    BY <1>1, ZipperTyped
  <2>2. zip'[0] = zip[0] /\ got' = got
    BY <1>1, <2>1, ZipperTyped, GensFacts
  <2>3. listed' = listed
    BY <1>1, <2>1 DEF Zipper, ZipFile, ZipEnds, ZipWriteFails, FileFails, FileAdded, Lists
  <2> QED BY <2>2, <2>3
<1>2. CASE CopyReads
  BY <1>2 DEF CopyReads, PipeRead
<1>3. CASE TransportReads
  <2>1. attempt + 1 \in Gens /\ attempt + 1 # 0 /\ PipeRead(attempt + 1)
    BY <1>3, GensFacts DEF TransportReads, ZipTypeOK
  <2> QED BY <2>1, GensFacts, PipeReadTyped
<1> QED BY <1>1, <1>2, <1>3 DEF Zipping

LEMMA WholeZipping ==
    ASSUME ZInv, WholeInv, Zipping, ChecksumsCalc PROVE WholeInv'
<1> SUFFICES ASSUME ~queued' PROVE WholeInv'
  BY DEF WholeInv
<1>1. /\ UNCHANGED <<task, taskErr, stored, final>> /\ task # "new" /\ task # "done" /\ ~queued
  BY ZippingStep
<1>2. CASE task = "details"
  <2>1. FirstPass
    BY <1>1, <1>2 DEF WholeInv
  <2>2. Zipper(0) \/ CopyReads
    <3>1. ASSUME NEW g \in Gens, Zipper(g) PROVE g = 0
      BY <1>2, <3>1, ZipperTyped DEF ZInv, IdleInv
    <3>2. ~TransportReads
      BY <1>2 DEF TransportReads
    <3> QED BY <3>1, <3>2 DEF Zipping
  <2>3. FirstPass'
    BY <1>1, <2>1, <2>2, WholeFirst
  <2> QED BY <1>1, <1>2, <2>3 DEF WholeInv
<1>3. CASE task # "details"
  <2>1. zip[0].pc = "done"
    BY <1>1, <1>3 DEF WholeInv
  <2>2. zip'[0] = zip[0] /\ got'[0] = got[0] /\ listed' = listed
    BY <2>1, WholeLater
  <2> QED BY <1>1, <1>3, <2>2 DEF WholeInv
<1> QED BY <1>2, <1>3

(* The first pass is over.                                                    *)
LEMMA WholeDetails ==
    ASSUME ZInv, FirstPass, pipe[0] = "eof"
    PROVE  got[0] = Whole /\ listed = Files /\ zip[0].pc = "done"
<1>1. zip[0].pc = "done" /\ pos = NFiles /\ zip[0].buf = <<>> /\ listed = 1 .. pos
  BY DEF FirstPass
<1>2. got[0] \in Seq(Files) /\ Len(got[0]) = NFiles
  <2>1. got[0] \in Seq(Files)
    BY GensFacts, BufTyped DEF ZInv
  <2>2. Len(got[0]) + 0 = NFiles /\ Len(got[0]) \in Nat
    BY <1>1, <2>1, LenProperties DEF FirstPass
  <2> QED BY <2>1, <2>2
<1>3. got[0] = Whole
  <2>1. got[0] \in [Files -> Files]
    BY <1>2, LenProperties DEF Files
  <2>2. \A k \in Files : got[0][k] = k
    BY <1>2 DEF FirstPass, Files
  <2> QED BY <2>1, <2>2 DEF Whole
<1> QED BY <1>1, <1>3 DEF Files

LEMMA WholeTask ==
    ASSUME ZInv, WholeInv, Task, ChecksumsCalc PROVE WholeInv'
<1> SUFFICES ASSUME ~queued' PROVE WholeInv'
  BY DEF WholeInv
<1>1. task # "new" /\ task # "done" /\ task' # "new" /\ ~queued /\ ZInv'
  BY TaskStep
<1>2. CASE Details
  <2>1. /\ task = "details" /\ task' = "deploy" /\ pipe[0] = "eof"
        /\ UNCHANGED <<attempt, taskErr, pos, zip, pipe, got, stored, uploaded, listed, final, queued, refused>>
    BY <1>2 DEF Details
  <2>2. FirstPass
    BY <1>1, <2>1 DEF WholeInv
  <2>3. got[0] = Whole /\ listed = Files /\ zip[0].pc = "done" /\ stored = None
    BY <2>1, <2>2, WholeDetails DEF FirstPass
  <2> QED BY <2>1, <2>3 DEF WholeInv
<1>3. CASE ~Details
  <2>1. task \notin {"new", "details"}
    BY <1>1, <1>3 DEF Task, Deploy, GetReader, Refused, Sends, TransportFails, Answered, Finish, Return
  <2>2. got[0] = Whole /\ listed = Files /\ zip[0].pc = "done" /\ stored \in {None, Whole}
    BY <1>1, <2>1 DEF WholeInv
  <2>3. attempt + 1 \in Gens /\ attempt + 1 # 0 /\ 0 \in Gens
    BY GensFacts DEF ZInv, ZipTypeOK
  <2>4. got'[0] = got[0] /\ zip'[0].pc = zip[0].pc /\ listed' = listed
    <3>1. \/ UNCHANGED <<got, zip, listed>>
          \/ UNCHANGED <<zip, listed>> /\ got' = [got EXCEPT ![attempt + 1] = <<>>]
          \/ UNCHANGED <<got, listed>> /\ Goes(attempt + 1, "next", <<>>)
      BY <1>3 DEF Task, Deploy, GetReader, Refused, Sends, TransportFails, Answered, Finish, Return, Spawn
    <3> QED BY <2>3, <3>1 DEF ZInv, ZipTypeOK, Goes
  <2>5. stored' \in {None, Whole}
    <3>1. stored' \in {stored, got[0]}
      BY <1>3 DEF Task, Deploy, GetReader, Refused, Sends, TransportFails, Answered, Finish, Return
    <3> QED BY <2>2, <3>1
  <2>6. task' # "details"
    BY <1>3 DEF Task, Deploy, GetReader, Refused, Sends, TransportFails, Answered, Finish, Return, Verdict
  <2>7. task' \in {"wait", "done"} /\ taskErr' = Nil => final' = Files
    <3> SUFFICES ASSUME task' \in {"wait", "done"}, taskErr' = Nil PROVE final' = Files
      OBVIOUS
    <3>1. Finish \/ Return
      BY <1>3 DEF Task, Deploy, GetReader, Refused, Sends, TransportFails, Answered, Verdict
    <3>2. CASE Finish
      <4>1. task = "finish" /\ (uploaded <=> taskErr = Nil)
        BY <3>2 DEF Finish, ZInv, TaskInv
      <4>2. uploaded
        BY <3>2, <4>1 DEF Finish
      <4>3. final' = listed
        BY <3>2, <4>2 DEF Finish, Nil
      <4> QED BY <2>2, <4>3
    <3>3. CASE Return
      <4>1. taskErr = Nil /\ final' = final /\ task = "wait"
        BY <3>3 DEF Return, Nil
      <4> QED BY <1>1, <4>1 DEF WholeInv
    <3> QED BY <3>1, <3>2, <3>3
  <2> QED BY <1>1, <2>2, <2>4, <2>5, <2>6, <2>7 DEF WholeInv
<1> QED BY <1>2, <1>3

LEMMA WholeInitially == Init => WholeInv
BY GensFacts DEF Init, ZipInit, WholeInv, Nil

LEMMA WholePreserved ==
    ASSUME ChecksumsCalc PROVE Inv /\ WholeInv /\ [Next]_allvars => WholeInv'
<1> SUFFICES ASSUME Inv, WholeInv, [Next]_allvars PROVE WholeInv'
  OBVIOUS
<1>1. CASE Producer
  <2>1. UNCHANGED <<task, taskErr, pos, zip, pipe, got, stored, listed, final>>
    BY <1>1 DEF Producer, Collect, EndGroups, AddArchive, zvars
  <2>2. queued => queued'
    <3>1. CASE EndGroups
      <4>1. queued' = (queued \/ skipped' # {})
        BY <3>1 DEF EndGroups
      <4> QED BY <4>1
    <3>2. CASE queued' \in {queued, TRUE}
      BY <3>2
    <3> QED BY <1>1, <3>1, <3>2 DEF Producer, Collect, AddArchive, zvars
  <2> QED BY <2>1, <2>2, WholeKept
<1>2. CASE Summarize
  BY <1>2, WholeKept DEF Summarize, zvars
<1>3. CASE Background
  BY <1>3, WholeZipping DEF Background, Inv
<1>4. ASSUME NEW item \in Items, Consumer(item) PROVE WholeInv'
  <2>1. CASE Take(item)
    BY <2>1, WholeBegin, WholeKept DEF Take, zvars
  <2>2. CASE UploadFile(item) \/ CreateFolder(item)
    BY <2>2, WholeKept DEF UploadFile, CreateFolder, TaskEnds
  <2>3. CASE ZipTask
    BY <2>3, WholeTask DEF ZipTask, Inv
  <2> QED BY <1>4, <2>1, <2>2, <2>3 DEF Consumer
<1>5. CASE UNCHANGED allvars
  BY <1>5, WholeKept DEF allvars, zvars
<1> QED BY <1>1, <1>2, <1>3, <1>4, <1>5 DEF Next

LEMMA WholeHolds ==
    ASSUME ChecksumsCalc PROVE Inv /\ WholeInv => NilMeansAll /\ NilMeansWholeArchive
<1> SUFFICES ASSUME Inv, WholeInv PROVE NilMeansAll /\ NilMeansWholeArchive
  OBVIOUS
<1> USE DEF Inv, CInv, ZInv
<1>1. ASSUME task = "done", ~queued PROVE stored = Whole /\ final = Files /\ uploaded
  <2>1. taskErr = Nil /\ uploaded /\ stored # None
    BY <1>1 DEF TaskInv
  <2> QED BY <1>1, <2>1 DEF WholeInv
<1>2. NilMeansWholeArchive
  BY <1>1 DEF NilMeansWholeArchive
<1>3. ASSUME Ended, summary.err = Nil
      PROVE  /\ skipped = {} /\ summary.failed = 0
             /\ transfers = FileItems \cup DirItems /\ stored = Whole /\ final = Files
  <2>1. /\ producer = "done" /\ waiting = {} /\ running = {} /\ ~queued
        /\ summary.failed = total - success
    BY <1>3 DEF Ended, SummaryInv, RunOver
  <2>2. "zip" \in produced /\ Begun = produced
    BY <2>1 DEF ArchiveInv, Begun
  <2>3. task = "done"
    BY <2>1, <2>2 DEF ArchiveInv
  <2>4. stored = Whole /\ final = Files /\ uploaded
    BY <1>1, <2>1, <2>3
  <2>5. skipped = {} /\ Singles \subseteq produced
    BY <2>1 DEF SkipInv
  <2>6. produced = Items /\ transfers = Singles
    BY <2>1, <2>2, <2>5, ItemsFacts DEF SkipInv, SetsInv
  <2>7. total = Cardinality(Singles) + 1
    BY <2>2, <2>6, ItemsFacts DEF CountInv
  <2>8. success = Cardinality(Singles) + 1
    BY <2>3, <2>4, <2>6 DEF CountInv, Won
  <2>9. Cardinality(Singles) \in Nat
    BY ItemsFacts, FS_CardinalityType
  <2> QED BY <2>1, <2>4, <2>5, <2>6, <2>7, <2>8, <2>9 DEF Singles
<1> QED BY <1>2, <1>3 DEF NilMeansAll

(* With checksums, for every archive, number of retries and of consumers:     *)
(* when UploadFiles returns without an error, nothing was skipped or failed   *)
(* and the server has the archive with every file, once and in order.         *)
THEOREM NilMeansAllHolds == ASSUME ChecksumsCalc PROVE Spec => []NilMeansAll
<1>1. Init => Inv /\ WholeInv
  BY Initially, WholeInitially
<1>2. (Inv /\ WholeInv) /\ [Next]_allvars => (Inv /\ WholeInv)'
  BY Preserved, WholePreserved
<1>3. Inv /\ WholeInv => NilMeansAll
  BY WholeHolds
<1> QED BY <1>1, <1>2, <1>3, PTL DEF Spec

(* The same of the archive's task, as soon as it has returned.                *)
THEOREM NilMeansWholeArchiveHolds == ASSUME ChecksumsCalc PROVE Spec => []NilMeansWholeArchive
<1>1. Init => Inv /\ WholeInv
  BY Initially, WholeInitially
<1>2. (Inv /\ WholeInv) /\ [Next]_allvars => (Inv /\ WholeInv)'
  BY Preserved, WholePreserved
<1>3. Inv /\ WholeInv => NilMeansWholeArchive
  BY WholeHolds
<1> QED BY <1>1, <1>2, <1>3, PTL DEF Spec
=============================================================================
