--------------------------- MODULE HttpClient_proofs ---------------------------
(* For every set of threads that share the client and every workload: what    *)
(* the calls answer, the bodies they leave open, the file of a download, and  *)
(* the number of requests.                                                    *)
EXTENDS HttpClient, SequenceTheorems, WellFoundedInduction, TLAPS

-----------------------------------------------------------------------------
(* The invariant of one call.  Nothing in it depends on the redirect URL, the *)
(* one register of a call that another thread's redirect may write.           *)

Senders == AllOps \ {"upload"}

(* Where each operation's call can be, and how deep its Sends are nested.     *)
PlaceInv(t) ==
    LET c == call[t] IN
    /\ c.op = load.ops[t]
    /\ c.pc \in {"begin", "do", "returned", "verdict"} => c.op \in Senders /\ c.frames # <<>>
    /\ c.pc = "put" => c.op = "upload"
    /\ c.pc = "save" => c.op \in Downloads
    /\ c.pc = "outer" => c.op \in Downloads \cup {"upload"}

Accepted(c) == c.resp # None /\ c.resp < 500

(* What a nil error means at each place.                                      *)
ReplyInv(t) ==
    LET c == call[t] IN
    /\ c.resp \in Answers \cup {None}
    /\ c.pc \in {"returned", "verdict", "save", "outer"} /\ c.err = Nil => c.resp # None
    /\ c.pc = "save" /\ c.err = Nil => Accepted(c)
    /\ c.pc = "outer" /\ c.err = Nil /\ c.op = "upload" => c.resp = 200
    /\ c.pc = "done" /\ c.op # "none" /\ c.err = Nil => Accepted(c) /\ (c.op = "upload" => c.resp = 200)

(* An open body belongs to the last response; no call but a download, a       *)
(* stream or an upload keeps it beyond doRequest.                             *)
BodyInv(t) ==
    LET c == call[t] IN
    /\ c.pc = "returned" => c.open = (c.err = Nil)
    /\ c.op \in {"get", "getNoRedirect", "post"} => c.leaked = 0 /\ (c.open => c.pc = "returned")
    /\ c.op \in Downloads /\ 503 \notin Answers =>
         c.leaked = 0 /\ (c.open => c.err = Nil /\ c.pc \in {"returned", "verdict", "save"})

(* A download without an error and with a 200 has the file it was asked for.  *)
FileInv(t) ==
    LET c == call[t] IN
    /\ c.op \notin Downloads => c.file = "absent"
    /\ c.op \in Downloads /\ c.pc \in {"outer", "done"} /\ c.err = Nil /\ c.resp = 200 =>
         c.file \in {"good", "extracted"} \/ (c.file = "bad" /\ ~Checksum)

CallInv(t) == PlaceInv(t) /\ ReplyInv(t) /\ BodyInv(t) /\ FileInv(t)

IInv == TypeOK /\ \A t \in Threads : CallInv(t)

-----------------------------------------------------------------------------
Ops    == AllOps \cup {"none"}
Places == {"begin", "do", "returned", "verdict", "save", "put", "outer", "done"}
Resps  == {None, 200, 302, 404, 503}
Errs   == {Nil, "net", "redirect", "status", "io", "sha", "archive", TimeoutErr, CanceledErr}
Files  == {"absent", "partial", "bad", "good", "extracted"}

(* Calls, with names for the sets of its fields.                              *)
LEMMA CallsAre ==
    Calls = [op : Ops, pc : Places, outer : Nat, frames : Seq(Nat), resp : Resps, err : Errs,
             url : Threads \cup {None}, open : BOOLEAN, file : Files, followed : BOOLEAN,
             requests : Nat, leaked : Nat]
BY DEF Calls, Ops, Places, Resps, Errs, Files

LEMMA ErrorsDiffer ==
    \A e \in {"net", "redirect", "status", "io", "sha", "archive", TimeoutErr, CanceledErr} : e # Nil
BY DEF Nil, TimeoutErr, CanceledErr

LEMMA LoadIsWorkload == TypeOK => load \in Workload
BY WorkloadsAssumption DEF TypeOK

(* The invariant before the first step.                                       *)
LEMMA Initially == Init => IInv
<1> SUFFICES ASSUME Init PROVE IInv
  OBVIOUS
<1>1. load \in Workload
  BY WorkloadsAssumption DEF Init
<1>2. \A t \in Threads : load.ops[t] \in AllOps \cup {"none"}
  BY <1>1 DEF Workload
<1>3. \A o \in AllOps \cup {"none"} : Begin(o) \in {"begin", "put", "done"}
  BY DEF Begin, AllOps
<1>4. TypeOK
  <2>1. <<0>> \in Seq(Nat)
    OBVIOUS
  <2>2. call \in [Threads -> Calls]
    BY <1>2, <1>3, <2>1 DEF Init, Calls
  <2> QED BY <2>2 DEF Init, TypeOK
<1>5. ASSUME NEW t \in Threads PROVE CallInv(t)
  <2>1. /\ call[t].op = load.ops[t] /\ call[t].op \in AllOps \cup {"none"}
        /\ call[t].pc = Begin(call[t].op) /\ call[t].frames = <<0>>
        /\ call[t].open = FALSE /\ call[t].leaked = 0 /\ call[t].file = "absent"
        /\ call[t].resp = None
    BY <1>2 DEF Init
  <2>2. /\ call[t].pc \in {"begin", "put", "done"}
        /\ call[t].pc = "begin" => call[t].op \in Senders
        /\ call[t].pc = "put" => call[t].op = "upload"
        /\ call[t].pc = "done" => call[t].op = "none"
    BY <2>1 DEF Begin, AllOps, Senders
  <2>3. PlaceInv(t)
    BY <2>1, <2>2 DEF PlaceInv
  <2>4. ReplyInv(t) /\ BodyInv(t) /\ FileInv(t)
    BY <2>1, <2>2, NoneAssumption DEF ReplyInv, BodyInv, FileInv, Downloads
  <2> QED BY <2>3, <2>4 DEF CallInv
<1> QED BY <1>4, <1>5 DEF IInv

-----------------------------------------------------------------------------
(* A step of thread t leaves the other calls alone, their URLs excepted.      *)
OthersStay(t) ==
    \A u \in Threads \ {t} : \E v \in Threads \cup {None} : call'[u] = [call[u] EXCEPT !.url = v]

LEMMA OthersKept ==
    ASSUME IInv, NEW t \in Threads, load' = load, OthersStay(t), CallInv(t)'
    PROVE  \A u \in Threads : CallInv(u)'
<1> SUFFICES ASSUME NEW u \in Threads \ {t} PROVE CallInv(u)'
  OBVIOUS
<1> USE DEF IInv
<1>1. PICK v \in Threads \cup {None} : call'[u] = [call[u] EXCEPT !.url = v]
  BY DEF OthersStay
<1>2. call[u] \in Calls
  BY DEF TypeOK
<1>3. /\ call'[u].op = call[u].op /\ call'[u].pc = call[u].pc /\ call'[u].frames = call[u].frames
      /\ call'[u].resp = call[u].resp /\ call'[u].err = call[u].err /\ call'[u].open = call[u].open
      /\ call'[u].file = call[u].file /\ call'[u].leaked = call[u].leaked
  BY <1>1, <1>2 DEF Calls
<1>4. CallInv(u) /\ load' = load
  OBVIOUS
<1>5. PlaceInv(u)'
  BY <1>3, <1>4 DEF CallInv, PlaceInv
<1>6. ReplyInv(u)'
  BY <1>3, <1>4 DEF CallInv, ReplyInv, Accepted, Answers
<1>7. BodyInv(u)'
  BY <1>3, <1>4 DEF CallInv, BodyInv, Answers
<1>8. FileInv(u)'
  BY <1>3, <1>4 DEF CallInv, FileInv, Checksum
<1> QED BY <1>5, <1>6, <1>7, <1>8 DEF CallInv

(* The same for a step that changes thread t's registers only.                *)
LEMMA Moved ==
    ASSUME IInv, NEW t \in Threads, NEW c \in Calls,
           call' = [call EXCEPT ![t] = c]
    PROVE  call' \in [Threads -> Calls] /\ OthersStay(t) /\ call'[t] = c
<1>1. call \in [Threads -> Calls]
  BY DEF IInv, TypeOK
<1>2. call' \in [Threads -> Calls] /\ call'[t] = c /\ \A u \in Threads \ {t} : call'[u] = call[u]
  BY <1>1
<1>3. ASSUME NEW u \in Threads \ {t}
      PROVE  \E v \in Threads \cup {None} : call'[u] = [call[u] EXCEPT !.url = v]
  <2>1. call[u].url \in Threads \cup {None} /\ call[u] = [call[u] EXCEPT !.url = call[u].url]
    BY <1>1 DEF Calls
  <2> QED BY <1>2, <2>1
<1> QED BY <1>2, <1>3 DEF OthersStay

(* What a step of its own may do to a call, as far as its file and the number *)
(* of its requests go: who leads where, and what happens on the way to the    *)
(* loops' indices and to the count.                                           *)
Kept(c, d) == d.outer = c.outer /\ d.requests = c.requests
OneMore(c, d) == d.outer = c.outer /\ d.frames = c.frames /\ d.requests <= c.requests + 1

Sends(c, d) ==
    \/ c.pc = "begin" /\ d.pc = "do" /\ Kept(c, d) /\ d.frames = c.frames /\ d.url = None
    \/ c.pc \in {"do", "put"} /\ d.pc = c.pc /\ Kept(c, d) /\ d.frames = c.frames /\ d.url = c.url
    \/ c.pc = "do" /\ d.pc = "returned" /\ OneMore(c, d) /\ (d.url = c.url \/ Len(c.frames) <= MaxRedirects)
    \/ c.pc = "put" /\ d.pc = "outer" /\ OneMore(c, d)

Nests(c, d) ==
    /\ c.pc = "returned" /\ c.op = "post" /\ c.url # None
    /\ d.pc = "begin" /\ d.frames = Append(c.frames, 0) /\ Kept(c, d)

Ends(c, d) ==
    \/ c.pc = "returned" /\ d.pc = "verdict" /\ d.frames = c.frames /\ Kept(c, d)
    \/ c.pc = "save" /\ d.pc = "outer" /\ Kept(c, d)
    \/ c.pc = "outer" /\ d.pc = "done" /\ Kept(c, d)

Loops(c, d) ==
    \/ /\ c.pc = "verdict" /\ d.pc = "begin" /\ Last(c.frames) + 1 <= Retries
       /\ d.frames = Append(Front(c.frames), Last(c.frames) + 1) /\ Kept(c, d)
    \/ /\ c.pc = "verdict" /\ d.frames = Front(c.frames) /\ Kept(c, d)
       /\ d.pc = IF Len(c.frames) > 1 THEN "verdict" ELSE IF c.op \in Downloads THEN "save" ELSE "done"
    \/ /\ c.pc = "outer" /\ d.pc = Begin(c.op) /\ c.outer + 1 <= Retries
       /\ d.outer = c.outer + 1 /\ d.frames = <<0>> /\ d.requests = c.requests

Flow(c, d) ==
    /\ d.op = c.op
    /\ d.file = c.file \/ (d.file # "absent" /\ d.pc = "outer")
    /\ Sends(c, d) \/ Nests(c, d) \/ Ends(c, d) \/ Loops(c, d)

(* Thread t steps: the others keep what they answer and what file they have.  *)
Goes(t) ==
    /\ Flow(call[t], call'[t]) /\ load' = load
    /\ \A u \in Threads \ {t} :
          /\ call'[u].op = call[u].op /\ call'[u].pc = call[u].pc /\ call'[u].err = call[u].err
          /\ call'[u].resp = call[u].resp /\ call'[u].file = call[u].file

LEMMA OthersGo ==
    ASSUME IInv, NEW t \in Threads, OthersStay(t), Flow(call[t], call'[t]), load' = load
    PROVE  Goes(t)
<1> SUFFICES ASSUME NEW u \in Threads \ {t}
             PROVE  /\ call'[u].op = call[u].op /\ call'[u].pc = call[u].pc /\ call'[u].err = call[u].err
                    /\ call'[u].resp = call[u].resp /\ call'[u].file = call[u].file
  BY DEF Goes
<1>1. PICK v \in Threads \cup {None} : call'[u] = [call[u] EXCEPT !.url = v]
  BY DEF OthersStay
<1>2. call[u] \in Calls
  BY DEF IInv, TypeOK
<1> QED BY <1>1, <1>2, CallsAre

(* client.Do's replies, register by register.                                 *)
LEMMA RepliedFields ==
    ASSUME NEW c \in Calls, load.cap \in Nat, NEW resp \in Resps, NEW err \in Errs
    PROVE  LET d == Replied(c, resp, err) IN
           /\ d \in Calls
           /\ d.op = c.op /\ d.pc = c.pc /\ d.outer = c.outer /\ d.frames = c.frames
           /\ d.url = c.url /\ d.file = c.file
           /\ d.resp = resp /\ d.err = err /\ d.open = (err = Nil)
           /\ d.requests = Tick(c.requests)
           /\ d.leaked = (IF c.open THEN Tick(c.leaked) ELSE c.leaked)
<1> DEFINE k == IF c.open THEN Tick(c.leaked) ELSE c.leaked
           n == Tick(c.requests)
           b == (err = Nil)
           d0 == Dropped(c)
           d == Replied(c, resp, err)
<1>1. \A m \in Nat : Tick(m) \in Nat
  BY DEF Tick
<1>2. k \in Nat /\ n \in Nat /\ b \in BOOLEAN
  BY <1>1, CallsAre
<1>3. d0 = [c EXCEPT !.leaked = k, !.open = FALSE]
  BY DEF Dropped
<1>4. d = [d0 EXCEPT !.requests = Tick(@), !.resp = resp, !.err = err, !.open = b]
  BY DEF Replied
<1> HIDE DEF k, b, d0, d
<1>5. /\ d0 \in Calls
      /\ d0.op = c.op /\ d0.pc = c.pc /\ d0.outer = c.outer /\ d0.frames = c.frames
      /\ d0.url = c.url /\ d0.file = c.file /\ d0.requests = c.requests /\ d0.leaked = k
  BY <1>2, <1>3, CallsAre
<1>6. d = [d0 EXCEPT !.requests = n, !.resp = resp, !.err = err, !.open = b]
  BY <1>4, <1>5, CallsAre
<1> HIDE DEF n
<1>7. /\ d \in Calls
      /\ d.op = d0.op /\ d.pc = d0.pc /\ d.outer = d0.outer /\ d.frames = d0.frames
      /\ d.url = d0.url /\ d.file = d0.file /\ d.leaked = d0.leaked
      /\ d.resp = resp /\ d.err = err /\ d.open = b /\ d.requests = n
  BY <1>2, <1>5, <1>6, CallsAre
<1> QED BY <1>5, <1>7 DEF k, n, b, d

-----------------------------------------------------------------------------
(* The parts of doRequest.                                                    *)

LEMMA StepKept ==
    ASSUME IInv, NEW t \in Threads, NEW c \in Calls, call' = [call EXCEPT ![t] = c],
           load' = load, checkRedirect' \in Threads \cup {None}, ctx' = ctx, CallInv(t)',
           Flow(call[t], c)
    PROVE  IInv' /\ Goes(t)
<1>1. call' \in [Threads -> Calls] /\ OthersStay(t) /\ call'[t] = c
  BY Moved
<1>2. TypeOK'
  BY <1>1 DEF IInv, TypeOK
<1> QED BY <1>1, <1>2, OthersKept, OthersGo DEF IInv

LEMMA InstallKept == ASSUME IInv, NEW t \in Threads, Install(t) PROVE IInv' /\ Goes(t)
<1> DEFINE c == call[t]
           d == [c EXCEPT !.pc = "do", !.url = None]
<1>0. call \in [Threads -> Calls] /\ c \in Calls /\ c.pc = "begin" /\ CallInv(t)
  BY DEF Install, IInv, TypeOK
<1>1. call' = [call EXCEPT ![t] = d]
  BY <1>0 DEF Install
<1>2. d \in Calls
  BY <1>0, CallsAre DEF Places
<1>3. /\ d.op = c.op /\ d.frames = c.frames /\ d.err = c.err /\ d.resp = c.resp /\ d.open = c.open
      /\ d.file = c.file /\ d.leaked = c.leaked /\ d.pc = "do"
      /\ d.outer = c.outer /\ d.requests = c.requests /\ d.url = None
  BY <1>0, CallsAre
<1>4. call'[t] = d /\ load' = load /\ ctx' = ctx /\ checkRedirect' \in Threads \cup {None}
  BY <1>0, <1>1 DEF Install, IInv, TypeOK
<1> HIDE DEF d
<1>5. PlaceInv(t)' /\ ReplyInv(t)'
  BY <1>0, <1>3, <1>4 DEF CallInv, PlaceInv, ReplyInv, Answers
<1>6. BodyInv(t)' /\ FileInv(t)'
  BY <1>0, <1>3, <1>4 DEF CallInv, BodyInv, FileInv, Answers, Checksum, PlaceInv
<1>7. Flow(c, d)
  BY <1>0, <1>3 DEF Flow, Sends, Kept
<1> QED BY <1>1, <1>2, <1>4, <1>5, <1>6, <1>7, StepKept DEF CallInv

(* client.Do has come back, while the body of the response before it was      *)
(* closed or is lost.                                                         *)
LEMMA ReturnedInv ==
    ASSUME IInv, NEW t \in Threads, call[t].pc = "do", load' = load,
           NEW resp \in Resps, NEW err \in {Nil, "net", "redirect"},
           resp \in Answers \cup {None}, err = Nil => resp # None,
           NEW d \in Calls, call'[t] = d,
           d.op = call[t].op, d.frames = call[t].frames, d.pc = "returned", d.resp = resp, d.err = err,
           d.open = (err = Nil), d.file = call[t].file,
           d.leaked = (IF call[t].open THEN Tick(call[t].leaked) ELSE call[t].leaked)
    PROVE  CallInv(t)'
<1>0. CallInv(t) /\ load \in Workload
  BY LoadIsWorkload DEF IInv
<1>2. PlaceInv(t)' /\ ReplyInv(t)'
  BY <1>0 DEF CallInv, PlaceInv, ReplyInv, Answers
<1>3. call[t].leaked = 0 /\ ~call[t].open => d.leaked = 0
  OBVIOUS
<1>4. BodyInv(t)'
  BY <1>0, <1>3 DEF CallInv, BodyInv, Answers
<1>5. FileInv(t)'
  BY <1>0 DEF CallInv, FileInv
<1> QED BY <1>2, <1>4, <1>5 DEF CallInv

LEMMA TickFacts == \A n \in Nat : load.cap \in Nat => Tick(n) \in Nat /\ Tick(n) <= n + 1
BY DEF Tick

LEMMA Returns ==
    ASSUME IInv, NEW t \in Threads, call[t].pc = "do",
           NEW resp \in Resps, NEW err \in {Nil, "net", "redirect"},
           resp \in Answers \cup {None}, err = Nil => resp # None,
           Moves(t, [Replied(call[t], resp, err) EXCEPT !.pc = "returned"])
    PROVE  IInv' /\ Goes(t)
<1> DEFINE c == call[t]
           r == Replied(c, resp, err)
           d == [r EXCEPT !.pc = "returned"]
<1>0. /\ call \in [Threads -> Calls] /\ c \in Calls /\ load.cap \in Nat
  BY LoadIsWorkload DEF IInv, TypeOK, Workload
<1>1. err \in Errs
  BY DEF Errs
<1>2. /\ r \in Calls
      /\ r.op = c.op /\ r.frames = c.frames /\ r.resp = resp /\ r.err = err /\ r.open = (err = Nil)
      /\ r.file = c.file /\ r.leaked = (IF c.open THEN Tick(c.leaked) ELSE c.leaked)
      /\ r.outer = c.outer /\ r.url = c.url /\ r.requests = Tick(c.requests)
  <2> HIDE DEF c
  <2> QED BY <1>0, <1>1, RepliedFields
<1>4. /\ call' = [call EXCEPT ![t] = d] /\ load' = load /\ ctx' = ctx
      /\ checkRedirect' \in Threads \cup {None}
  BY DEF Moves, IInv, TypeOK
<1> HIDE DEF r
<1>3. /\ d \in Calls
      /\ d.op = c.op /\ d.frames = c.frames /\ d.resp = resp /\ d.err = err /\ d.open = (err = Nil)
      /\ d.file = c.file /\ d.leaked = (IF c.open THEN Tick(c.leaked) ELSE c.leaked) /\ d.pc = "returned"
      /\ d.outer = c.outer /\ d.url = c.url /\ d.requests = Tick(c.requests)
  BY <1>2, CallsAre DEF Places
<1> HIDE DEF d
<1>5. call'[t] = d
  BY <1>0, <1>4
<1>6. CallInv(t)'
  BY <1>0, <1>3, <1>4, <1>5, ReturnedInv
<1>7. Flow(c, d)
  BY <1>0, <1>3, TickFacts, CallsAre DEF Flow, Sends, OneMore
<1> QED BY <1>3, <1>4, <1>6, <1>7, StepKept

LEMMA AnswerKept == ASSUME IInv, NEW t \in Threads, NEW s \in Answers, Answer(t, s) PROVE IInv' /\ Goes(t)
<1>1. s \in Resps /\ s # None
  BY LoadIsWorkload, NoneAssumption DEF IInv, Workload, Resps, Answers
<1>2. /\ call[t].pc = "do" /\ Nil \in {Nil, "net", "redirect"}
      /\ Moves(t, [Replied(call[t], s, Nil) EXCEPT !.pc = "returned"])
  BY DEF Answer
<1> QED BY <1>1, <1>2, Returns

LEMMA FailKept == ASSUME IInv, NEW t \in Threads, Fail(t) PROVE IInv' /\ Goes(t)
<1>1. None \in Resps /\ "net" # Nil /\ "net" \in {Nil, "net", "redirect"}
  BY ErrorsDiffer DEF Resps
<1>2. call[t].pc = "do" /\ Moves(t, [Replied(call[t], None, "net") EXCEPT !.pc = "returned"])
  BY DEF Fail
<1> QED BY <1>1, <1>2, Returns

(* A redirect that is not stopped changes a history only; one that is stopped *)
(* ends the request, and writes the URL into the registers of the thread      *)
(* whose closure the client has.                                              *)
LEMMA RedirectedKept == ASSUME IInv, NEW t \in Threads, Redirected(t) PROVE IInv' /\ Goes(t)
<1> DEFINE c == call[t]
<1>0. /\ call \in [Threads -> Calls] /\ c \in Calls /\ load.cap \in Nat /\ c.pc \in {"do", "put"}
      /\ 302 \in Answers /\ load' = load /\ ctx' = ctx /\ checkRedirect' = checkRedirect
      /\ CallInv(t) /\ checkRedirect \in Threads \cup {None}
  BY LoadIsWorkload DEF Redirected, IInv, TypeOK, Workload
<1>1. CASE call' = [call EXCEPT ![t].followed = TRUE]
  <2> DEFINE d == [c EXCEPT !.followed = TRUE]
  <2>1. call' = [call EXCEPT ![t] = d]
    BY <1>0, <1>1
  <2>2. /\ d \in Calls
        /\ d.op = c.op /\ d.pc = c.pc /\ d.frames = c.frames /\ d.resp = c.resp /\ d.err = c.err
        /\ d.open = c.open /\ d.file = c.file /\ d.leaked = c.leaked
        /\ d.outer = c.outer /\ d.url = c.url /\ d.requests = c.requests
    BY <1>0, CallsAre
  <2> HIDE DEF d
  <2>3. call'[t] = d
    BY <1>0, <2>1
  <2>4. PlaceInv(t)' /\ ReplyInv(t)'
    BY <1>0, <2>2, <2>3 DEF CallInv, PlaceInv, ReplyInv, Accepted, Answers
  <2>5. BodyInv(t)' /\ FileInv(t)'
    BY <1>0, <2>2, <2>3 DEF CallInv, BodyInv, FileInv, Answers, Checksum
  <2>6. Flow(c, d)
    BY <1>0, <2>2 DEF Flow, Sends, Kept
  <2> QED BY <1>0, <2>1, <2>2, <2>4, <2>5, <2>6, StepKept DEF CallInv
<1>2. CASE ~(call' = [call EXCEPT ![t].followed = TRUE])
  <2> DEFINE pc == IF c.pc = "do" THEN "returned" ELSE "outer"
             r == Replied(c, 302, "redirect")
             d == [r EXCEPT !.pc = pc]
             e == IF checkRedirect = t THEN [d EXCEPT !.url = t] ELSE d
  <2>1. /\ checkRedirect \in Threads /\ Len(c.frames) <= MaxRedirects
        /\ call' = [call EXCEPT ![t] = [Replied(@, 302, "redirect") EXCEPT !.pc = pc],
                                ![checkRedirect].url = t]
    BY <1>0, <1>2 DEF Redirected
  <2>2. 302 \in Resps /\ "redirect" \in Errs /\ pc \in Places /\ "redirect" # Nil
    BY ErrorsDiffer DEF Resps, Errs, Places
  <2>3. /\ r \in Calls
        /\ r.op = c.op /\ r.frames = c.frames /\ r.resp = 302 /\ r.err = "redirect" /\ r.open = FALSE
        /\ r.file = c.file /\ r.leaked = (IF c.open THEN Tick(c.leaked) ELSE c.leaked)
        /\ r.outer = c.outer /\ r.requests = Tick(c.requests)
    <3> HIDE DEF c
    <3>1. /\ r \in Calls
          /\ r.op = c.op /\ r.frames = c.frames /\ r.resp = 302 /\ r.err = "redirect"
          /\ r.open = ("redirect" = Nil)
          /\ r.file = c.file /\ r.leaked = (IF c.open THEN Tick(c.leaked) ELSE c.leaked)
          /\ r.outer = c.outer /\ r.requests = Tick(c.requests)
      BY <1>0, <2>2, RepliedFields
    <3> HIDE DEF r
    <3> QED BY <2>2, <3>1
  <2>4. call' = [[call EXCEPT ![t] = d] EXCEPT ![checkRedirect].url = t]
    BY <1>0, <2>1
  <2> HIDE DEF r, pc
  <2>5. /\ d \in Calls
        /\ d.op = c.op /\ d.frames = c.frames /\ d.resp = 302 /\ d.err = "redirect" /\ d.open = FALSE
        /\ d.file = c.file /\ d.leaked = (IF c.open THEN Tick(c.leaked) ELSE c.leaked) /\ d.pc = pc
        /\ d.outer = c.outer /\ d.requests = Tick(c.requests)
    BY <2>2, <2>3, CallsAre
  <2> HIDE DEF d
  <2>6. /\ e \in Calls
        /\ e.op = c.op /\ e.frames = c.frames /\ e.resp = 302 /\ e.err = "redirect" /\ e.open = FALSE
        /\ e.file = c.file /\ e.leaked = (IF c.open THEN Tick(c.leaked) ELSE c.leaked) /\ e.pc = pc
        /\ e.outer = c.outer /\ e.requests = Tick(c.requests)
    BY <2>5, CallsAre
  <2>7. call'[t] = e
    BY <1>0, <2>1, <2>4
  <2> HIDE DEF e
  <2>8. \A u \in Threads \ {t} :
          call'[u] = (IF u = checkRedirect THEN [call[u] EXCEPT !.url = t] ELSE call[u])
    BY <1>0, <2>1, <2>4
  <2>9. \A u \in Threads : call[u] \in Calls /\ [call[u] EXCEPT !.url = t] \in Calls
    BY <1>0, CallsAre
  <2>10. call' \in [Threads -> Calls]
    <3>1. DOMAIN call' = Threads /\ call' = [u \in Threads |-> call'[u]]
      BY <1>0, <2>4
    <3>2. \A u \in Threads : call'[u] \in Calls
      BY <2>6, <2>7, <2>8, <2>9
    <3> QED BY <3>1, <3>2
  <2>11. OthersStay(t)
    <3> SUFFICES ASSUME NEW u \in Threads \ {t}
                 PROVE  \E v \in Threads \cup {None} : call'[u] = [call[u] EXCEPT !.url = v]
      BY DEF OthersStay
    <3>1. CASE u = checkRedirect
      BY <2>8, <3>1
    <3>2. CASE u # checkRedirect
      <4>1. call[u].url \in Threads \cup {None} /\ call[u] = [call[u] EXCEPT !.url = call[u].url]
        BY <2>9, CallsAre
      <4> QED BY <2>8, <3>2, <4>1
    <3> QED BY <3>1, <3>2
  <2>12. CallInv(t)'
    <3>1. CASE c.pc = "do"
      <4>1. /\ e.pc = "returned" /\ 302 # None /\ 302 \in Answers \cup {None}
            /\ "redirect" \in {Nil, "net", "redirect"} /\ e.open = ("redirect" = Nil)
        BY <1>0, <2>2, <2>6, <3>1, NoneAssumption DEF pc
      <4> QED BY <1>0, <2>2, <2>6, <2>7, <3>1, <4>1, ReturnedInv
    <3>2. CASE c.pc = "put"
      <4>1. e.pc = "outer" /\ c.op = "upload"
        BY <1>0, <2>6, <3>2 DEF pc, CallInv, PlaceInv
      <4>2. PlaceInv(t)' /\ ReplyInv(t)'
        BY <1>0, <2>2, <2>6, <2>7, <4>1 DEF CallInv, PlaceInv, ReplyInv, Answers
      <4>3. BodyInv(t)' /\ FileInv(t)'
        BY <1>0, <2>2, <2>6, <2>7, <4>1 DEF CallInv, BodyInv, FileInv, Downloads
      <4> QED BY <4>2, <4>3 DEF CallInv
    <3> QED BY <1>0, <3>1, <3>2
  <2>13. TypeOK'
    BY <1>0, <2>10 DEF IInv, TypeOK
  <2>14. OneMore(c, e)
    BY <1>0, <2>6, TickFacts, CallsAre DEF OneMore
  <2>15. Flow(c, e)
    BY <1>0, <2>1, <2>6, <2>14 DEF Flow, Sends, pc
  <2> QED BY <1>0, <2>7, <2>11, <2>12, <2>13, <2>15, OthersKept, OthersGo DEF IInv
<1> QED BY <1>1, <1>2

(* The stack of loop indices.                                                 *)
LEMMA FramesFacts ==
    ASSUME NEW s \in Seq(Nat), s # <<>>, NEW k \in Nat
    PROVE  /\ Last(s) \in Nat /\ Len(s) \in Nat /\ Len(s) > 0
           /\ Front(s) \in Seq(Nat) /\ Len(Front(s)) = Len(s) - 1
           /\ Len(s) > 1 => Front(s) # <<>>
           /\ \A j \in 1 .. Len(s) - 1 : Front(s)[j] = s[j]
           /\ Append(Front(s), k) \in Seq(Nat) /\ Append(Front(s), k) # <<>>
           /\ Len(Append(Front(s), k)) = Len(s)
<1>1. Len(s) \in Nat /\ Len(s) > 0 /\ \A j \in 1 .. Len(s) : s[j] \in Nat
  OBVIOUS
<1>2. /\ Front(s) \in Seq(Nat) /\ Len(Front(s)) = Len(s) - 1
      /\ \A j \in 1 .. Len(s) - 1 : Front(s)[j] = s[j]
  <2> DEFINE n == Len(s) - 1
             f == SubSeq(s, 1, n)
  <2>1. n \in Nat /\ \A j \in 1 .. n : s[j] \in Nat
    BY <1>1
  <2>2. f = Front(s)
    BY DEF Front
  <2> HIDE DEF n
  <2>3. /\ f \in Seq(Nat)
        /\ Len(f) = (IF 1 <= n THEN n - 1 + 1 ELSE 0)
        /\ \A j \in 1 .. n - 1 + 1 : f[j] = s[1 + j - 1]
    BY <2>1, SubSeqProperties
  <2> HIDE DEF f
  <2>4. Len(f) = n /\ \A j \in 1 .. n : f[j] = s[j]
    <3>1. Len(f) = n
      BY <2>1, <2>3
    <3>2. ASSUME NEW j \in 1 .. n PROVE f[j] = s[j]
      <4>1. j \in 1 .. n - 1 + 1 /\ 1 + j - 1 = j
        BY <2>1
      <4> QED BY <2>3, <4>1
    <3> QED BY <3>1, <3>2
  <2> QED BY <2>2, <2>3, <2>4 DEF n
<1>3. Append(Front(s), k) \in Seq(Nat) /\ Append(Front(s), k) # <<>> /\ Len(Append(Front(s), k)) = Len(s)
  BY <1>1, <1>2, AppendProperties
<1>4. Len(s) > 1 => Front(s) # <<>>
  BY <1>1, <1>2
<1> QED BY <1>1, <1>2, <1>3, <1>4 DEF Last

(* A redirected POST begins a Send of its own; every other response is ready  *)
(* for the handler of Send.                                                   *)
LEMMA ResetKept ==
    ASSUME IInv, NEW t \in Threads, NEW closeErr \in BOOLEAN, Reset(t, closeErr)
    PROVE  IInv' /\ Goes(t)
<1> DEFINE c == call[t]
           again == c.err # Nil /\ c.url # None /\ Follow(t) /\ Post(t)
<1>0. /\ call \in [Threads -> Calls] /\ c \in Calls /\ c.pc = "returned" /\ CallInv(t)
      /\ load' = load /\ ctx' = ctx /\ checkRedirect' \in Threads \cup {None}
      /\ c.frames \in Seq(Nat) /\ c.open \in BOOLEAN /\ c.err \in Errs
  BY CallsAre DEF Reset, Removed, IInv, TypeOK
<1>1. CASE again
  <2> DEFINE d == [c EXCEPT !.frames = Append(@, 0), !.pc = "begin"]
  <2>1. call' = [call EXCEPT ![t] = d]
    BY <1>1 DEF Reset
  <2>2. Append(c.frames, 0) \in Seq(Nat) /\ Append(c.frames, 0) # <<>>
    BY <1>0, AppendProperties
  <2>3. /\ d \in Calls
        /\ d.op = c.op /\ d.pc = "begin" /\ d.frames = Append(c.frames, 0) /\ d.resp = c.resp
        /\ d.err = c.err /\ d.open = c.open /\ d.file = c.file /\ d.leaked = c.leaked
        /\ d.outer = c.outer /\ d.requests = c.requests
    BY <1>0, <2>2, CallsAre DEF Places
  <2> HIDE DEF d
  <2>4. call'[t] = d /\ c.op = "post" /\ c.err # Nil
    BY <1>0, <1>1, <2>1 DEF Post
  <2>5. PlaceInv(t)' /\ ReplyInv(t)'
    BY <1>0, <2>2, <2>3, <2>4 DEF CallInv, PlaceInv, ReplyInv, Answers
  <2>6. BodyInv(t)' /\ FileInv(t)'
    BY <1>0, <2>3, <2>4 DEF CallInv, BodyInv, FileInv, Downloads
  <2>7. Flow(c, d)
    BY <1>0, <1>1, <2>3, <2>4 DEF Flow, Nests, Kept
  <2> QED BY <1>0, <2>1, <2>3, <2>5, <2>6, <2>7, StepKept DEF CallInv
<1>2. CASE ~again
  <2> DEFINE b == c.open /\ ~Closes(c, t)
             e == IF Closes(c, t) /\ closeErr THEN "io" ELSE c.err
             d == [c EXCEPT !.pc = "verdict", !.open = b, !.err = e]
  <2>1. call' = [call EXCEPT ![t] = d]
    BY <1>0, <1>2 DEF Reset
  <2>2. /\ e \in Errs /\ b \in BOOLEAN
        /\ e = Nil => c.err = Nil
        /\ b => c.err = Nil /\ ~CloseBody(t) /\ e = Nil
    <3>1. c.open = (c.err = Nil)
      BY <1>0 DEF CallInv, BodyInv
    <3>2. "io" \in Errs /\ "io" # Nil
      BY ErrorsDiffer DEF Errs
    <3> QED BY <1>0, <3>1, <3>2 DEF Closes
  <2> HIDE DEF b, e
  <2>3. /\ d \in Calls
        /\ d.op = c.op /\ d.pc = "verdict" /\ d.frames = c.frames /\ d.resp = c.resp
        /\ d.err = e /\ d.open = b /\ d.file = c.file /\ d.leaked = c.leaked
        /\ d.outer = c.outer /\ d.requests = c.requests
    BY <1>0, <2>2, CallsAre DEF Places
  <2> HIDE DEF d
  <2>4. call'[t] = d
    BY <1>0, <2>1
  <2>5. PlaceInv(t)' /\ ReplyInv(t)'
    BY <1>0, <2>2, <2>3, <2>4 DEF CallInv, PlaceInv, ReplyInv, Answers
  <2>6. BodyInv(t)' /\ FileInv(t)'
    BY <1>0, <2>2, <2>3, <2>4 DEF CallInv, BodyInv, FileInv, Downloads, CloseBody, Answers
  <2>7. Flow(c, d)
    BY <1>0, <2>3 DEF Flow, Ends, Kept
  <2> QED BY <1>0, <2>1, <2>3, <2>5, <2>6, <2>7, StepKept DEF CallInv
<1> QED BY <1>1, <1>2

-----------------------------------------------------------------------------
(* The loops.                                                                 *)

(* A nil answer of a loop is the nil of a last iteration that asks for no     *)
(* retry.                                                                     *)
LEMMA LoopResultFacts ==
    ASSUME NEW retry \in BOOLEAN, NEW err \in Errs, NEW context
    PROVE  /\ LoopResult(retry, err, context) \in Errs
           /\ LoopResult(retry, err, context) = Nil => ~retry /\ err = Nil
           /\ ~retry => LoopResult(retry, err, context) = err
<1>1. {TimeoutErr, CanceledErr} \subseteq Errs /\ TimeoutErr # Nil /\ CanceledErr # Nil
  BY ErrorsDiffer DEF Errs
<1> QED BY <1>1 DEF LoopResult, ExhaustedResult

(* A call that asks for no retry, without an error, was accepted.             *)
LEMMA NoRetryIsAccepted ==
    ASSUME NEW c \in Calls, ~ShouldRetry(c), c.resp # None
    PROVE  Accepted(c)
<1>1. c.resp \in {200, 302, 404, 503}
  BY CallsAre DEF Resps
<1> QED BY <1>1 DEF ShouldRetry, Accepted

LEMMA VerdictKept == ASSUME IInv, NEW t \in Threads, Verdict(t) PROVE IInv' /\ Goes(t)
<1> DEFINE c == call[t]
           i == Last(c.frames)
           nested == Len(c.frames) > 1
           more == RunsAgain(ShouldRetry(c), ctx, i, Retries)
<1>0. /\ call \in [Threads -> Calls] /\ c \in Calls /\ c.pc = "verdict" /\ CallInv(t)
      /\ load' = load /\ ctx' = ctx /\ checkRedirect' \in Threads \cup {None}
      /\ c.frames \in Seq(Nat) /\ c.open \in BOOLEAN /\ c.err \in Errs /\ c.resp \in Resps
  BY CallsAre DEF Verdict, Moves, IInv, TypeOK
<1>1. c.frames # <<>> /\ c.op \in Senders
  BY <1>0 DEF CallInv, PlaceInv
<1>2. /\ i \in Nat /\ NextIndex(i) \in Nat /\ Front(c.frames) \in Seq(Nat)
      /\ nested => Front(c.frames) # <<>>
      /\ Append(Front(c.frames), NextIndex(i)) \in Seq(Nat)
      /\ Append(Front(c.frames), NextIndex(i)) # <<>>
  <2>1. i \in Nat /\ NextIndex(i) \in Nat
    BY <1>0, <1>1, FramesFacts DEF NextIndex
  <2> QED BY <1>0, <1>1, <2>1, FramesFacts
<1>3. ShouldRetry(c) /\ 503 \notin Answers => c.err # Nil
  <2>1. c.resp \in {200, 302, 404, 503} \ {503} \/ c.resp = None \/ 503 \in Answers
    BY <1>0 DEF CallInv, ReplyInv, Resps
  <2> QED BY <2>1 DEF ShouldRetry
<1>4. CASE more
  <2> DEFINE f == Append(Front(c.frames), NextIndex(i))
             d == [c EXCEPT !.frames = f, !.pc = "begin"]
  <2>1. call' = [call EXCEPT ![t] = d]
    BY <1>0, <1>4 DEF Verdict, Moves
  <2>2. f \in Seq(Nat) /\ f # <<>>
    BY <1>2
  <2> HIDE DEF f
  <2>3. /\ d \in Calls
        /\ d.op = c.op /\ d.pc = "begin" /\ d.frames = f /\ d.resp = c.resp
        /\ d.err = c.err /\ d.open = c.open /\ d.file = c.file /\ d.leaked = c.leaked
        /\ d.outer = c.outer /\ d.requests = c.requests
    BY <1>0, <2>2, CallsAre DEF Places
  <2> HIDE DEF d
  <2>4. call'[t] = d
    BY <1>0, <2>1
  <2>5. PlaceInv(t)' /\ ReplyInv(t)'
    BY <1>0, <1>1, <2>2, <2>3, <2>4 DEF CallInv, PlaceInv, ReplyInv, Answers
  <2>6. 503 \notin Answers => c.err # Nil
    BY <1>3, <1>4 DEF RunsAgain
  <2>7. BodyInv(t)' /\ FileInv(t)'
    BY <1>0, <2>3, <2>4, <2>6 DEF CallInv, BodyInv, FileInv, Downloads, Answers
  <2>8. Flow(c, d)
    BY <1>0, <1>4, <2>3 DEF Flow, Loops, Kept, f, RunsAgain, HasNext, NextIndex
  <2> QED BY <1>0, <2>1, <2>3, <2>5, <2>7, <2>8, StepKept DEF CallInv
<1>5. CASE ~more
  <2> DEFINE f == Front(c.frames)
             e == LoopResult(ShouldRetry(c), c.err, ctx)
             u == IF nested THEN None ELSE c.url
             p == IF nested THEN "verdict" ELSE IF c.op \in Downloads THEN "save" ELSE "done"
             d == [c EXCEPT !.frames = f, !.err = e, !.url = u, !.pc = p]
  <2>1. call' = [call EXCEPT ![t] = d]
    BY <1>0, <1>5 DEF Verdict, Moves
  <2>2. /\ e \in Errs
        /\ e = Nil => ~ShouldRetry(c) /\ c.err = Nil
        /\ ~ShouldRetry(c) => e = c.err
    <3>1. ShouldRetry(c) \in BOOLEAN
      BY DEF ShouldRetry
    <3> HIDE DEF c
    <3> QED BY <1>0, <3>1, LoopResultFacts
  <2>3. u \in Threads \cup {None} /\ p \in Places
    BY <1>0, CallsAre DEF Places
  <2>4. /\ f \in Seq(Nat)
        /\ p = "verdict" => f # <<>>
        /\ p \in {"verdict", "save", "done"}
        /\ p = "save" => c.op \in Downloads
        /\ p = "done" => c.op \notin Downloads
    BY <1>2
  <2>5. e = Nil => Accepted(c) /\ c.resp # None
    BY <1>0, <2>2, NoRetryIsAccepted DEF CallInv, ReplyInv
  <2>6. c.open /\ c.op \in Downloads /\ 503 \notin Answers => e = Nil /\ p \in {"verdict", "save"}
    <3>1. c.open /\ c.op \in Downloads /\ 503 \notin Answers => c.err = Nil
      BY <1>0 DEF CallInv, BodyInv
    <3> QED BY <1>3, <2>2, <2>4, <3>1
  <2> HIDE DEF f, e, u, p
  <2>7. /\ d \in Calls
        /\ d.op = c.op /\ d.pc = p /\ d.frames = f /\ d.resp = c.resp
        /\ d.err = e /\ d.open = c.open /\ d.file = c.file /\ d.leaked = c.leaked
        /\ d.outer = c.outer /\ d.requests = c.requests
    BY <1>0, <2>2, <2>3, <2>4, CallsAre
  <2> HIDE DEF d
  <2>8. call'[t] = d
    BY <1>0, <2>1
  <2>9. PlaceInv(t)'
    BY <1>0, <1>1, <2>4, <2>7, <2>8 DEF CallInv, PlaceInv
  <2>10. ReplyInv(t)'
    BY <1>0, <1>1, <2>4, <2>5, <2>7, <2>8 DEF CallInv, ReplyInv, Answers, Accepted, Senders
  <2>11. BodyInv(t)'
    BY <1>0, <2>4, <2>6, <2>7, <2>8 DEF CallInv, BodyInv, Downloads, Answers
  <2>12. FileInv(t)'
    BY <1>0, <2>4, <2>7, <2>8 DEF CallInv, FileInv
  <2>13. Flow(c, d)
    BY <1>0, <2>7 DEF Flow, Loops, Kept, f, p
  <2> QED BY <1>0, <2>1, <2>7, <2>9, <2>10, <2>11, <2>12, <2>13, StepKept DEF CallInv
<1> QED BY <1>4, <1>5

LEMMA OuterVerdictKept == ASSUME IInv, NEW t \in Threads, OuterVerdict(t) PROVE IInv' /\ Goes(t)
<1> DEFINE c == call[t]
           retry == ShouldRetry(c) /\ ~BlockedRedirect(t)
           more == RunsAgain(retry, "none", c.outer, Retries)
<1>0. /\ call \in [Threads -> Calls] /\ c \in Calls /\ c.pc = "outer" /\ CallInv(t)
      /\ load' = load /\ ctx' = ctx /\ checkRedirect' \in Threads \cup {None}
      /\ c.outer \in Nat /\ c.open \in BOOLEAN /\ c.err \in Errs /\ c.op \in Downloads \cup {"upload"}
  BY CallsAre DEF OuterVerdict, Moves, IInv, TypeOK, CallInv, PlaceInv
<1>1. CASE more
  <2> DEFINE k == c.outer + 1
             p == Begin(c.op)
             d == [c EXCEPT !.outer = k, !.frames = <<0>>, !.pc = p]
  <2>1. call' = [call EXCEPT ![t] = d]
    BY <1>0, <1>1 DEF OuterVerdict, Moves
  <2>2. /\ k \in Nat /\ <<0>> \in Seq(Nat) /\ <<0>> # <<>>
        /\ p = (IF c.op = "upload" THEN "put" ELSE "begin") /\ p \in Places
        /\ c.op # "upload" => c.op \in Senders
    BY <1>0 DEF Begin, Downloads, Senders, AllOps, Places
  <2> HIDE DEF k, p
  <2>3. /\ d \in Calls
        /\ d.op = c.op /\ d.pc = p /\ d.frames = <<0>> /\ d.resp = c.resp
        /\ d.err = c.err /\ d.open = c.open /\ d.file = c.file /\ d.leaked = c.leaked
        /\ d.outer = k /\ d.requests = c.requests
    BY <1>0, <2>2, CallsAre
  <2> HIDE DEF d
  <2>4. call'[t] = d
    BY <1>0, <2>1
  <2>5. PlaceInv(t)' /\ ReplyInv(t)'
    BY <1>0, <2>2, <2>3, <2>4 DEF CallInv, PlaceInv, ReplyInv, Answers
  <2>6. BodyInv(t)' /\ FileInv(t)'
    BY <1>0, <2>2, <2>3, <2>4 DEF CallInv, BodyInv, FileInv, Downloads, Answers
  <2>7. Flow(c, d)
    BY <1>0, <1>1, <2>3 DEF Flow, Loops, RunsAgain, HasNext, k, p
  <2> QED BY <1>0, <2>1, <2>3, <2>5, <2>6, <2>7, StepKept DEF CallInv
<1>2. CASE ~more
  <2> DEFINE e == LoopResult(retry, c.err, "none")
             d == [c EXCEPT !.pc = "done", !.frames = <<>>, !.err = e]
  <2>1. call' = [call EXCEPT ![t] = d]
    BY <1>0, <1>2 DEF OuterVerdict, Moves
  <2>2. e \in Errs /\ (e = Nil => ~retry /\ c.err = Nil)
    <3>1. retry \in BOOLEAN
      BY DEF ShouldRetry, BlockedRedirect
    <3> HIDE DEF c, retry
    <3> QED BY <1>0, <3>1, LoopResultFacts
  <2>3. e = Nil => c.resp # None /\ Accepted(c) /\ (c.op = "upload" => c.resp = 200)
    <3>1. c.err = Nil => ~BlockedRedirect(t) /\ c.resp # None /\ (c.op = "upload" => c.resp = 200)
      BY <1>0 DEF CallInv, ReplyInv, BlockedRedirect
    <3> QED BY <1>0, <2>2, <3>1, NoRetryIsAccepted
  <2> HIDE DEF e
  <2>4. /\ d \in Calls
        /\ d.op = c.op /\ d.pc = "done" /\ d.frames = <<>> /\ d.resp = c.resp
        /\ d.err = e /\ d.open = c.open /\ d.file = c.file /\ d.leaked = c.leaked
        /\ d.outer = c.outer /\ d.requests = c.requests
    <3>1. <<>> \in Seq(Nat) /\ "done" \in Places
      BY DEF Places
    <3> QED BY <1>0, <2>2, <3>1, CallsAre
  <2> HIDE DEF d
  <2>5. call'[t] = d
    BY <1>0, <2>1
  <2>6. PlaceInv(t)' /\ ReplyInv(t)'
    BY <1>0, <2>3, <2>4, <2>5 DEF CallInv, PlaceInv, ReplyInv, Answers, Accepted
  <2>7. BodyInv(t)'
    BY <1>0, <2>4, <2>5 DEF CallInv, BodyInv, Downloads, Answers
  <2>8. FileInv(t)'
    BY <1>0, <2>2, <2>4, <2>5 DEF CallInv, FileInv, Checksum
  <2>9. Flow(c, d)
    BY <1>0, <2>4 DEF Flow, Ends, Kept
  <2> QED BY <1>0, <2>1, <2>4, <2>6, <2>7, <2>8, <2>9, StepKept DEF CallInv
<1> QED BY <1>1, <1>2

-----------------------------------------------------------------------------
(* What a download does with the answer, and the attempt of an upload.        *)

LEMMA NotSavedKept ==
    ASSUME IInv, NEW t \in Threads, NEW closeErr \in BOOLEAN, NotSaved(t, closeErr) PROVE IInv' /\ Goes(t)
<1> DEFINE c == call[t]
           b == c.open /\ c.err # Nil
           e == IF c.err = Nil /\ closeErr THEN "io" ELSE c.err
           d == [c EXCEPT !.pc = "outer", !.open = b, !.err = e]
<1>0. /\ call \in [Threads -> Calls] /\ c \in Calls /\ c.pc = "save" /\ CallInv(t)
      /\ c.err # Nil \/ c.resp # 200
      /\ load' = load /\ ctx' = ctx /\ checkRedirect' \in Threads \cup {None}
  BY DEF NotSaved, Moves, IInv, TypeOK
<1>1. call' = [call EXCEPT ![t] = d]
  BY <1>0 DEF NotSaved, Moves
<1>2. b \in BOOLEAN /\ (b => c.err # Nil /\ c.open) /\ "outer" \in Places
  BY <1>0, CallsAre DEF Places
<1>e. e \in Errs /\ (e = Nil => c.err = Nil) /\ (b => e = c.err)
  <2>1. c.err \in Errs /\ "io" \in Errs /\ "io" # Nil
    BY <1>0, CallsAre, ErrorsDiffer DEF Errs
  <2> QED BY Zenon, <2>1, <1>2
<1> HIDE DEF b, e
<1>3. /\ d \in Calls
      /\ d.op = c.op /\ d.pc = "outer" /\ d.frames = c.frames /\ d.resp = c.resp
      /\ d.err = e /\ d.open = b /\ d.file = c.file /\ d.leaked = c.leaked
      /\ d.outer = c.outer /\ d.requests = c.requests
  <2>1. c \in Calls /\ b \in BOOLEAN /\ e \in Errs /\ "outer" \in Places
    BY <1>0, <1>2, <1>e
  <2> HIDE DEF c
  <2> QED BY <2>1, CallsAre
<1> HIDE DEF d
<1>4. call'[t] = d /\ c.op \in Downloads
  BY <1>0, <1>1 DEF CallInv, PlaceInv
<1>5. PlaceInv(t)' /\ ReplyInv(t)'
  BY <1>0, <1>e, <1>3, <1>4 DEF CallInv, PlaceInv, ReplyInv, Answers, Downloads
<1>6. BodyInv(t)' /\ FileInv(t)'
  BY <1>0, <1>2, <1>e, <1>3, <1>4 DEF CallInv, BodyInv, FileInv, Downloads, Answers
<1>7. Flow(c, d)
  BY <1>0, <1>3 DEF Flow, Ends, Kept
<1> QED BY <1>0, <1>1, <1>3, <1>5, <1>6, <1>7, StepKept DEF CallInv

LEMMA SaveKept ==
    ASSUME IInv, NEW t \in Threads, NEW copied \in {"absent", "partial", "bad", "good"},
           NEW archive, NEW closeErr \in BOOLEAN, Save(t, copied, archive, closeErr)
    PROVE  IInv' /\ Goes(t)
<1> DEFINE c == call[t]
           failed == SaveErr(copied) # Nil
           e == CASE failed -> SaveErr(copied)
                  [] ~failed /\ Explode /\ archive = "broken" -> "archive"
                  [] OTHER -> IF closeErr THEN "io" ELSE Nil
           f == CASE copied = "absent" -> c.file
                  [] ~failed /\ Explode /\ archive = "known" -> "extracted"
                  [] OTHER -> copied
           d == [c EXCEPT !.pc = "outer", !.open = FALSE, !.err = e, !.file = f]
<1>0. /\ call \in [Threads -> Calls] /\ c \in Calls /\ c.pc = "save" /\ c.resp = 200 /\ CallInv(t)
      /\ load' = load /\ ctx' = ctx /\ checkRedirect' \in Threads \cup {None} /\ c.file \in Files
  BY CallsAre DEF Save, Moves, IInv, TypeOK
<1>1. call' = [call EXCEPT ![t] = d]
  BY <1>0 DEF Save, Moves
<1>2. /\ SaveErr(copied) \in {"io", "sha", Nil}
      /\ SaveErr(copied) = Nil => copied = "good" \/ (copied = "bad" /\ ~Checksum)
  BY ErrorsDiffer DEF SaveErr
<1>3. e \in Errs /\ f \in Files /\ "outer" \in Places
  BY <1>0, <1>2 DEF Errs, Files, Places
<1>3a. f = c.file \/ f # "absent"
  OBVIOUS
<1>4. e = Nil => f \in {"good", "extracted"} \/ (f = "bad" /\ ~Checksum)
  <2>1. e = Nil => ~failed
    BY ErrorsDiffer
  <2> QED BY <1>2, <2>1
<1> HIDE DEF e, f
<1>5. /\ d \in Calls
      /\ d.op = c.op /\ d.pc = "outer" /\ d.frames = c.frames /\ d.resp = c.resp
      /\ d.err = e /\ d.open = FALSE /\ d.file = f /\ d.leaked = c.leaked
      /\ d.outer = c.outer /\ d.requests = c.requests
  BY <1>0, <1>3, CallsAre
<1> HIDE DEF d
<1>6. call'[t] = d /\ c.op \in Downloads
  BY <1>0, <1>1 DEF CallInv, PlaceInv
<1>7. PlaceInv(t)' /\ ReplyInv(t)'
  BY <1>0, <1>5, <1>6, NoneAssumption DEF CallInv, PlaceInv, ReplyInv, Answers, Downloads
<1>8. BodyInv(t)' /\ FileInv(t)'
  BY <1>0, <1>4, <1>5, <1>6 DEF CallInv, BodyInv, FileInv, Downloads, Answers, Checksum
<1>9. Flow(c, d)
  BY <1>0, <1>5, <1>3a DEF Flow, Ends, Kept
<1> QED BY <1>0, <1>1, <1>5, <1>7, <1>8, <1>9, StepKept DEF CallInv

(* The attempt of an upload is over.                                          *)
LEMMA Uploaded ==
    ASSUME IInv, NEW t \in Threads, call[t].pc = "put",
           NEW d \in Calls, Moves(t, d),
           d.op = call[t].op, d.pc = "outer", d.file = call[t].file,
           d.resp \in Answers \cup {None}, d.err = Nil => d.resp = 200, OneMore(call[t], d)
    PROVE  IInv' /\ Goes(t)
<1>0. /\ call \in [Threads -> Calls] /\ CallInv(t) /\ call' = [call EXCEPT ![t] = d]
      /\ load' = load /\ ctx' = ctx /\ checkRedirect' \in Threads \cup {None}
  BY DEF Moves, IInv, TypeOK
<1>1. call'[t] = d /\ d.op = "upload"
  BY <1>0 DEF CallInv, PlaceInv
<1>2. PlaceInv(t)' /\ ReplyInv(t)'
  BY <1>0, <1>1, NoneAssumption DEF CallInv, PlaceInv, ReplyInv, Answers
<1>3. BodyInv(t)' /\ FileInv(t)'
  BY <1>0, <1>1 DEF CallInv, BodyInv, FileInv, Downloads
<1>4. Flow(call[t], d)
  BY DEF Flow, Sends
<1> QED BY <1>0, <1>2, <1>3, <1>4, StepKept DEF CallInv

LEMMA UploadOpenFailsKept == ASSUME IInv, NEW t \in Threads, UploadOpenFails(t) PROVE IInv' /\ Goes(t)
<1> DEFINE c == call[t]
           k == IF c.open THEN Tick(c.leaked) ELSE c.leaked
           b == Dropped(c)
           d == [b EXCEPT !.pc = "outer", !.resp = None, !.err = "io"]
<1>0. c \in Calls /\ c.pc = "put" /\ load.cap \in Nat /\ Moves(t, d)
  BY LoadIsWorkload DEF UploadOpenFails, IInv, TypeOK, Workload
<1>1. k \in Nat /\ "io" \in Errs /\ None \in Resps /\ "outer" \in Places
  BY <1>0, CallsAre DEF Tick, Errs, Resps, Places
<1>2. b = [c EXCEPT !.leaked = k, !.open = FALSE]
  BY DEF Dropped
<1> HIDE DEF k, b
<1>3. /\ b \in Calls /\ b.op = c.op /\ b.file = c.file /\ b.outer = c.outer /\ b.frames = c.frames
      /\ b.requests = c.requests
  BY <1>0, <1>1, <1>2, CallsAre
<1>4. /\ d \in Calls /\ d.op = c.op /\ d.pc = "outer" /\ d.file = c.file /\ d.resp = None /\ d.err = "io"
      /\ d.outer = c.outer /\ d.frames = c.frames /\ d.requests = c.requests
  BY <1>1, <1>3, CallsAre
<1> HIDE DEF d
<1>5. OneMore(c, d)
  BY <1>0, <1>4, CallsAre DEF OneMore
<1> QED BY <1>0, <1>4, <1>5, ErrorsDiffer, Uploaded

LEMMA UploadFailKept == ASSUME IInv, NEW t \in Threads, UploadFail(t) PROVE IInv' /\ Goes(t)
<1> DEFINE c == call[t]
           r == Replied(c, None, "net")
           d == [r EXCEPT !.pc = "outer"]
<1>0. /\ c \in Calls /\ c.pc = "put" /\ load.cap \in Nat /\ Moves(t, d)
      /\ None \in Resps /\ "net" \in Errs /\ "net" # Nil /\ "outer" \in Places
  BY LoadIsWorkload, ErrorsDiffer DEF UploadFail, IInv, TypeOK, Workload, Resps, Errs, Places
<1>1. /\ r \in Calls /\ r.op = c.op /\ r.file = c.file /\ r.resp = None /\ r.err = "net"
      /\ r.outer = c.outer /\ r.frames = c.frames /\ r.requests = Tick(c.requests)
  <2> HIDE DEF c
  <2> QED BY <1>0, RepliedFields
<1> HIDE DEF r
<1>2. /\ d \in Calls /\ d.op = c.op /\ d.pc = "outer" /\ d.file = c.file /\ d.resp = None /\ d.err = "net"
      /\ d.outer = c.outer /\ d.frames = c.frames /\ d.requests = Tick(c.requests)
  BY <1>0, <1>1, CallsAre
<1> HIDE DEF d
<1>3. OneMore(c, d)
  BY <1>0, <1>2, TickFacts, CallsAre DEF OneMore
<1> QED BY <1>0, <1>2, <1>3, Uploaded

LEMMA UploadAnswerKept ==
    ASSUME IInv, NEW t \in Threads, NEW s \in Answers, NEW readErr \in BOOLEAN,
           UploadAnswer(t, s, readErr)
    PROVE  IInv' /\ Goes(t)
<1> DEFINE c == call[t]
           r == Replied(c, s, Nil)
           e == IF s # 200 THEN "status" ELSE IF readErr THEN "io" ELSE Nil
           open == (s # 200)
           d == [r EXCEPT !.pc = "outer", !.open = open, !.err = e]
<1>0. /\ c \in Calls /\ load.cap \in Nat /\ s \in Resps /\ Nil \in Errs /\ "outer" \in Places
      /\ c.pc = "put" /\ Moves(t, d)
  BY LoadIsWorkload DEF UploadAnswer, IInv, TypeOK, Workload, Answers, Resps, Errs, Places
<1>1. /\ r \in Calls /\ r.op = c.op /\ r.file = c.file /\ r.resp = s
      /\ r.outer = c.outer /\ r.frames = c.frames /\ r.requests = Tick(c.requests)
  <2> HIDE DEF c
  <2> QED BY <1>0, RepliedFields
<1>2. e \in Errs /\ (e = Nil => s = 200) /\ open \in BOOLEAN
  BY ErrorsDiffer DEF Errs
<1> HIDE DEF r, e, open
<1>3. /\ d \in Calls /\ d.op = c.op /\ d.pc = "outer" /\ d.file = c.file /\ d.resp = s /\ d.err = e
      /\ d.outer = c.outer /\ d.frames = c.frames /\ d.requests = Tick(c.requests)
  BY <1>0, <1>1, <1>2, CallsAre
<1> HIDE DEF d
<1>4. OneMore(c, d)
  BY <1>0, <1>3, TickFacts, CallsAre DEF OneMore
<1> QED BY <1>0, <1>2, <1>3, <1>4, Uploaded

-----------------------------------------------------------------------------
(* Every step, and what follows from the invariant.                           *)

LEMMA StepGoes == ASSUME IInv, NEW t \in Threads, Step(t) PROVE IInv' /\ Goes(t)
<1>1. CASE Install(t) \/ Fail(t) \/ Redirected(t) \/ Verdict(t)
  BY <1>1, InstallKept, FailKept, RedirectedKept, VerdictKept
<1>2. ASSUME NEW closeErr \in BOOLEAN, Reset(t, closeErr) PROVE IInv' /\ Goes(t)
  BY <1>2, ResetKept
<1>3. ASSUME NEW s \in Answers, Answer(t, s) PROVE IInv' /\ Goes(t)
  BY <1>3, AnswerKept
<1>4. ASSUME NEW s \in Answers, NEW readErr \in BOOLEAN, UploadAnswer(t, s, readErr)
      PROVE  IInv' /\ Goes(t)
  BY <1>4, UploadAnswerKept
<1>5. ASSUME NEW copied \in {"absent", "partial", "bad", "good"},
             NEW archive \in {"known", "unknown", "broken"}, NEW closeErr \in BOOLEAN,
             Save(t, copied, archive, closeErr)
      PROVE  IInv' /\ Goes(t)
  BY <1>5, SaveKept
<1>6. CASE (\E closeErr \in BOOLEAN : NotSaved(t, closeErr)) \/ UploadOpenFails(t) \/ UploadFail(t) \/ OuterVerdict(t)
  BY <1>6, NotSavedKept, UploadOpenFailsKept, UploadFailKept, OuterVerdictKept
<1> QED BY <1>1, <1>2, <1>3, <1>4, <1>5, <1>6 DEF Step

LEMMA Inductive == IInv /\ [Next]_vars => IInv'
<1> SUFFICES ASSUME IInv, [Next]_vars PROVE IInv'
  OBVIOUS
<1>1. CASE Cancel
  BY <1>1 DEF Cancel, IInv, TypeOK, CallInv, PlaceInv, ReplyInv, BodyInv, FileInv, Answers, Checksum
<1>2. CASE \E t \in Threads : Step(t)
  BY <1>2, StepGoes
<1>3. CASE UNCHANGED vars
  BY <1>3 DEF vars, IInv, TypeOK, CallInv, PlaceInv, ReplyInv, BodyInv, FileInv, Answers, Checksum
<1> QED BY <1>1, <1>2, <1>3 DEF Next

LEMMA Always == Spec => []IInv
BY Initially, Inductive, PTL DEF Spec

(* Types, for every set of threads and workload.                              *)
THEOREM TypeCorrect == Spec => []TypeOK
<1>1. IInv => TypeOK BY DEF IInv
<1> QED BY <1>1, Always, PTL

(* However the attempts, nested Sends, redirects and cancellations of any     *)
(* number of threads interleave, a nil error comes with a response below 500, *)
(* and that of an upload with a 200.                                          *)
THEOREM ResultContractHolds == Spec => []ResultContract
<1>1. IInv => ResultContract
  BY DEF IInv, CallInv, ReplyInv, ResultContract, Done, Accepted
<1> QED BY <1>1, Always, PTL

(* For any number of retries and redirects, no body is left open and none was *)
(* dropped while open.                                                        *)
THEOREM BodiesClosedHolds == Spec => []BodiesClosed
<1>1. IInv => BodiesClosed
  BY DEF IInv, CallInv, BodyInv, BodiesClosed, Done
<1> QED BY <1>1, Always, PTL

-----------------------------------------------------------------------------
(* The file of a download.                                                    *)

LEMMA FetchStep ==
    ASSUME IInv, IInv', NEW t \in Threads, t = AThread, [Next]_vars
    PROVE  Abstract!Next \/ UNCHANGED <<AbsFile(t), AbsAnswer(t)>>
<1>1. CASE /\ call'[t].op = call[t].op /\ call'[t].pc = call[t].pc /\ call'[t].err = call[t].err
           /\ call'[t].resp = call[t].resp /\ call'[t].file = call[t].file /\ load' = load
  BY <1>1 DEF AbsFile, AbsAnswer, Done, Checksum
<1>2. CASE UNCHANGED vars \/ Cancel
  BY <1>1, <1>2 DEF vars, Cancel
<1>3. ASSUME NEW u \in Threads, Step(u), u # t
      PROVE  UNCHANGED <<AbsFile(t), AbsAnswer(t)>>
  <2>1. Goes(u)
    BY <1>3, StepGoes
  <2>2. /\ call'[t].op = call[t].op /\ call'[t].pc = call[t].pc /\ call'[t].err = call[t].err
        /\ call'[t].resp = call[t].resp /\ call'[t].file = call[t].file /\ load' = load
    BY <1>3, <2>1 DEF Goes
  <2> QED BY <2>2 DEF AbsFile, AbsAnswer, Done, Checksum
<1>4. CASE Step(t)
  <2>1. Flow(call[t], call'[t]) /\ load' = load
    BY <1>4, StepGoes DEF Goes
  <2>2. call[t].pc # "done"
    BY <2>1 DEF Flow, Sends, Nests, Ends, Loops
  <2>3. AbsAnswer(t) = "pending"
    BY <2>2 DEF AbsAnswer, Done
  <2>4. CASE call'[t].pc # "done"
    <3>1. AbsAnswer(t)' = "pending"
      BY <2>4 DEF AbsAnswer, Done
    <3>2. CASE call'[t].file = call[t].file
      BY <2>1, <2>3, <3>1, <3>2 DEF AbsFile, Checksum
    <3>3. CASE call'[t].file # "absent"
      <4>1. AbsFile(t)' \in {"dirty", "whole"}
        BY <3>3 DEF AbsFile
      <4> QED BY <2>3, <3>1, <4>1 DEF Abstract!Next, Abstract!Write
    <3> QED BY <2>1, <3>2, <3>3 DEF Flow
  <2>5. CASE call'[t].pc = "done"
    <3>1. call'[t].file = call[t].file
      BY <2>1, <2>5 DEF Flow
    <3>2. AbsFile(t)' = AbsFile(t)
      BY <2>1, <3>1 DEF AbsFile, Checksum
    <3>3. CASE AbsAnswer(t)' = "ok"
      <4>1. call'[t].op \in Downloads /\ call'[t].err = Nil /\ call'[t].resp = 200
        BY <2>5, <3>3 DEF AbsAnswer, Done
      <4>2. AbsFile(t)' = "whole"
        BY <2>5, <4>1 DEF IInv, CallInv, FileInv, AbsFile
      <4> QED BY <2>3, <3>2, <3>3, <4>2 DEF Abstract!Next, Abstract!Succeed
    <3>4. CASE AbsAnswer(t)' # "ok"
      <4>1. AbsAnswer(t)' \in {"rejected", "failed"}
        BY <2>5, <3>4 DEF AbsAnswer, Done
      <4> QED BY <2>3, <3>2, <4>1 DEF Abstract!Next, Abstract!GiveUp
    <3> QED BY <3>3, <3>4
  <2> QED BY <2>4, <2>5
<1> QED BY <1>2, <1>3, <1>4 DEF Next

(* A download's file only moves forward, and "ok" is answered for a file that *)
(* is whole: every step is one of FileFetch or a stutter.  (A thread that     *)
(* makes no call answers nothing.)                                            *)
THEOREM ImplementsFileFetch == Spec /\ load.ops[AThread] # "none" => Abstract!SafeSpec
<1>0. AThread \in Threads
  BY ThreadsAssumption DEF AThread
<1>1. Init /\ load.ops[AThread] # "none" => Abstract!Init
  <2> SUFFICES ASSUME Init, load.ops[AThread] # "none" PROVE Abstract!Init
    OBVIOUS
  <2>1. call[AThread].file = "absent" /\ call[AThread].pc # "done"
    BY <1>0 DEF Init, Begin
  <2> QED BY <2>1 DEF Abstract!Init, AbsFile, AbsAnswer, Done
<1>2. IInv /\ IInv' /\ [Next]_vars => [Abstract!Next]_(Abstract!vars)
  BY <1>0, FetchStep DEF Abstract!vars
<1> QED BY <1>1, <1>2, Always, PTL DEF Spec, Abstract!SafeSpec

-----------------------------------------------------------------------------
(* The number of requests of a call that has the client to itself.           *)

(* A set of numbers that is not empty has a first one.                        *)
LEMMA FirstOf ==
    ASSUME NEW S, S \subseteq Nat, S # {}
    PROVE  \E x \in S : x = 0 \/ (x - 1 \in Nat \ S)
<1>1. PICK x \in S : \A y \in S : ~(<<y, x>> \in OpToRel(<, Nat))
  BY WFMin, NatLessThanWellFounded
<1>2. CASE x # 0
  <2>1. x - 1 \in Nat /\ x - 1 < x /\ x \in Nat
    BY <1>2
  <2>2. <<x - 1, x>> \in OpToRel(<, Nat)
    BY <2>1 DEF OpToRel
  <2> QED BY <1>1, <2>1, <2>2
<1> QED BY <1>2

(* The table of PostRequests, up to m redirects.                              *)
Table(n, m, f) ==
    /\ f \in [0 .. m -> Nat]
    /\ f[0] = n
    /\ \A d \in 1 .. m : f[d] = n * (1 + f[d - 1])

LEMMA TableExists == ASSUME NEW n \in Nat, NEW m \in Nat PROVE \E f : Table(n, m, f)
<1> DEFINE S == {k \in Nat : ~\E f : Table(n, k, f)}
<1>1. CASE S = {}
  BY <1>1
<1>2. CASE S # {}
  <2>1. PICK x \in S : x = 0 \/ (x - 1 \in Nat \ S)
    BY <1>2, FirstOf
  <2>2. CASE x = 0
    <3>1. Table(n, 0, [d \in 0 .. 0 |-> n])
      BY DEF Table
    <3> QED BY <2>1, <2>2, <3>1
  <2>3. CASE x # 0
    <3>1. PICK g : Table(n, x - 1, g)
      BY <2>1, <2>3
    <3> DEFINE v == n * (1 + g[x - 1])
               f == [d \in 0 .. x |-> IF d = x THEN v ELSE g[d]]
    <3>2. x \in Nat /\ x - 1 \in Nat /\ g \in [0 .. x - 1 -> Nat] /\ v \in Nat
      BY <2>1, <2>3, <3>1 DEF Table
    <3>3. \A d \in 0 .. x : d = x \/ d \in 0 .. x - 1
      BY <3>2
    <3>4. f \in [0 .. x -> Nat] /\ f[x] = v /\ \A d \in 0 .. x - 1 : f[d] = g[d]
      <4> HIDE DEF v
      <4> QED BY <3>2, <3>3
    <3> HIDE DEF f
    <3>5. f[0] = n
      BY <3>1, <3>2, <3>4 DEF Table
    <3>6. ASSUME NEW d \in 1 .. x PROVE f[d] = n * (1 + f[d - 1])
      <4>1. d - 1 \in 0 .. x - 1 /\ f[d - 1] = g[d - 1]
        BY <3>2, <3>4
      <4>2. CASE d = x
        BY <3>4, <4>1, <4>2
      <4>3. CASE d # x
        <5>1. d \in 0 .. x - 1 /\ d \in 1 .. x - 1
          BY <3>2, <4>3
        <5>2. g[d] = n * (1 + g[d - 1])
          BY <3>1, <5>1 DEF Table
        <5> QED BY <3>4, <4>1, <5>1, <5>2
      <4> QED BY <4>2, <4>3
    <3>7. Table(n, x, f)
      BY <3>4, <3>5, <3>6 DEF Table
    <3> QED BY <2>1, <3>7
  <2> QED BY <2>2, <2>3
<1> QED BY <1>1, <1>2

LEMMA PostRequestsTable == ASSUME NEW n \in Nat PROVE Table(n, MaxRedirects, PostRequests(n))
<1> DEFINE Def(f) == f = [d \in 0 .. MaxRedirects |-> IF d = 0 THEN n ELSE n * (1 + f[d - 1])]
           p == PostRequests(n)
<1>1. MaxRedirects \in Nat
  BY WorkloadsAssumption
<1>2. PICK f : Table(n, MaxRedirects, f)
  BY <1>1, TableExists
<1>3. \A d \in 0 .. MaxRedirects : f[d] = IF d = 0 THEN n ELSE n * (1 + f[d - 1])
  BY <1>1, <1>2 DEF Table
<1>4. Def(f)
  <2>1. f = [d \in 0 .. MaxRedirects |-> f[d]]
    BY <1>2 DEF Table
  <2> QED BY <1>3, <2>1
<1>5. p = CHOOSE g : Def(g)
  BY DEF PostRequests
<1> HIDE DEF Def, p
<1>6. Def(p)
  BY <1>4, <1>5
<1>7. p = [d \in 0 .. MaxRedirects |-> IF d = 0 THEN n ELSE n * (1 + p[d - 1])]
  BY <1>6 DEF Def
<1>8. \A d \in 0 .. MaxRedirects : p[d] = IF d = 0 THEN n ELSE n * (1 + p[d - 1])
  BY <1>7
<1>9. ASSUME NEW d \in 0 .. MaxRedirects, p[d] # f[d] PROVE FALSE
  <2> DEFINE S == {e \in 0 .. MaxRedirects : p[e] # f[e]}
  <2>1. S \subseteq Nat /\ S # {}
    BY <1>1, <1>9
  <2>2. PICK x \in S : x = 0 \/ x - 1 \in Nat \ S
    BY <2>1, FirstOf
  <2>3. x \in 0 .. MaxRedirects /\ p[x] # f[x]
    BY <2>2
  <2>4. x # 0
    BY <1>1, <1>3, <1>8, <2>3
  <2>5. x - 1 \in 0 .. MaxRedirects /\ p[x - 1] = f[x - 1]
    BY <1>1, <2>2, <2>3, <2>4
  <2> QED BY <1>3, <1>8, <2>3, <2>4, <2>5
<1>10. p = f
  <2>1. p = [d \in 0 .. MaxRedirects |-> p[d]]
    BY <1>7
  <2>2. f = [d \in 0 .. MaxRedirects |-> f[d]]
    BY <1>2 DEF Table
  <2> QED BY <1>9, <2>1, <2>2
<1> QED BY <1>2, <1>10 DEF p

(* One attempt of a Send, with d redirects to come at most: a request and the *)
(* Send that a redirect leads to.                                             *)
Attempts == Retries + 1
Attempt(d) == IF d = 0 THEN 1 ELSE 1 + PostRequests(Attempts)[d - 1]

LEMMA AttemptFacts ==
    ASSUME load \in Workload
    PROVE  \A d \in 0 .. MaxRedirects :
              /\ Attempt(d) \in Nat /\ Attempt(d) >= 1
              /\ PostRequests(Attempts)[d] \in Nat
              /\ PostRequests(Attempts)[d] = Attempts * Attempt(d)
              /\ d > 0 => Attempt(d) = 1 + PostRequests(Attempts)[d - 1]
<1> DEFINE p == PostRequests(Attempts)
<1>1. MaxRedirects \in Nat /\ Attempts \in Nat
  BY WorkloadsAssumption DEF Attempts, Retries, Workload
<1>2. Table(Attempts, MaxRedirects, p)
  BY <1>1, PostRequestsTable
<1> SUFFICES ASSUME NEW d \in 0 .. MaxRedirects
             PROVE  /\ Attempt(d) \in Nat /\ Attempt(d) >= 1 /\ p[d] \in Nat
                    /\ p[d] = Attempts * Attempt(d)
                    /\ d > 0 => Attempt(d) = 1 + p[d - 1]
  OBVIOUS
<1>3. Attempt(d) = IF d = 0 THEN 1 ELSE 1 + p[d - 1]
  BY DEF Attempt
<1> HIDE DEF p
<1>4. p[d] \in Nat /\ (d > 0 => d \in 1 .. MaxRedirects /\ p[d - 1] \in Nat)
  BY <1>1, <1>2 DEF Table
<1>5. CASE d = 0
  BY <1>1, <1>2, <1>3, <1>4, <1>5 DEF Table
<1>6. CASE d > 0
  <2>1. p[d] = Attempts * (1 + p[d - 1])
    BY <1>2, <1>4, <1>6 DEF Table
  <2> QED BY <1>3, <1>4, <1>6, <2>1
<1> QED BY <1>1, <1>5, <1>6

Sending == {"begin", "do", "returned", "verdict"}

(* The requests so far of a call that does not nest its Sends.                *)
Earlier(c) == c.outer * Attempts

PlainBudget(c) ==
    /\ c.pc \in Sending => Len(c.frames) = 1
    /\ c.pc \in {"begin", "do"} => c.requests <= Earlier(c) + c.frames[1]
    /\ c.pc \in {"returned", "verdict"} => c.requests <= Earlier(c) + c.frames[1] + 1
    /\ c.pc \in {"save", "outer"} /\ c.op \in Downloads => c.requests <= Earlier(c) + Attempts
    /\ c.pc = "put" => c.requests <= c.outer
    /\ c.pc = "outer" /\ c.op = "upload" => c.requests <= c.outer + 1

(* Those of a POST.  The Send at level k of the stack has MaxRedirects+1-k    *)
(* redirects to come at most; when its current attempt began, no more than    *)
(* before[k] requests had been sent: those of the Sends below it, and its own *)
(* attempts so far.                                                           *)
AttemptAt(k) == Attempt(MaxRedirects + 1 - k)

Before(frames, before) ==
    /\ before \in [1 .. Len(frames) -> Nat]
    /\ before[1] <= frames[1] * AttemptAt(1)
    /\ \A k \in 2 .. Len(frames) : before[k] <= before[k - 1] + 1 + frames[k] * AttemptAt(k)

Spent(c, before) ==
    LET k == Len(c.frames) IN
    /\ c.pc \in {"begin", "do"} => c.requests <= before[k]
    /\ c.pc = "returned" => c.requests <= before[k] + 1
    /\ c.pc = "verdict" => c.requests <= before[k] + AttemptAt(k)

PostBudget(c) ==
    /\ Len(c.frames) <= MaxRedirects + 1
    /\ c.pc = "do" => c.url = None
    /\ c.pc = "returned" /\ c.url # None => Len(c.frames) <= MaxRedirects
    /\ c.pc \in Sending =>
         \E before : Before(c.frames, before) /\ Spent(c, before)

BudgetInv(c) ==
    /\ c.outer <= Retries /\ (c.op \notin Downloads \cup {"upload"} => c.outer = 0)
    /\ c.pc \in Sending => \A k \in 1 .. Len(c.frames) : c.frames[k] <= Retries
    /\ c.op # "post" => PlainBudget(c)
    /\ c.op = "post" => PostBudget(c)
    /\ c.pc = "done" => c.requests <= Budget(c.op)

Placed(c) ==
    /\ c.pc \in Sending => c.op \in Senders /\ c.frames # <<>>
    /\ c.pc = "put" => c.op = "upload"
    /\ c.pc = "save" => c.op \in Downloads
    /\ c.pc = "outer" => c.op \in Downloads \cup {"upload"}

LEMMA CallTypes ==
    ASSUME NEW c \in Calls
    PROVE  c.outer \in Nat /\ c.requests \in Nat /\ c.frames \in Seq(Nat)
BY CallsAre

LEMMA Multiples ==
    ASSUME NEW n \in Nat
    PROVE  /\ \A a \in Nat : a * n \in Nat /\ (a + 1) * n = a * n + n
           /\ \A a, b \in Nat : a <= b => a * n <= b * n
<1>1. \A a \in Nat : a * n \in Nat /\ (a + 1) * n = a * n + n
  OBVIOUS
<1>2. ASSUME NEW a \in Nat, NEW b \in Nat, a <= b PROVE a * n <= b * n
  <2>1. b - a \in Nat
    BY <1>2
  <2>2. (b - a) * n \in Nat
    BY <2>1
  <2>3. b * n = a * n + (b - a) * n
    BY <2>1
  <2> QED BY <2>2, <2>3
<1> QED BY <1>1, <1>2

LEMMA FrontFacts ==
    ASSUME NEW s \in Seq(Nat), s # <<>>
    PROVE  /\ Front(s) \in Seq(Nat) /\ Len(Front(s)) = Len(s) - 1
           /\ \A j \in 1 .. Len(s) - 1 : Front(s)[j] = s[j]
<1>1. 0 \in Nat
  OBVIOUS
<1> QED BY <1>1, FramesFacts

(* The indices of a stack whose last attempt begins again, and whose last     *)
(* Send returns.                                                              *)
LEMMA StackFacts ==
    ASSUME NEW s \in Seq(Nat), s # <<>>, NEW x \in Nat
    PROVE  /\ Append(s, x) \in Seq(Nat) /\ Len(Append(s, x)) = Len(s) + 1
           /\ Append(s, x)[Len(s) + 1] = x /\ \A k \in 1 .. Len(s) : Append(s, x)[k] = s[k]
           /\ Last(s) = s[Len(s)]
           /\ \A k \in 1 .. Len(s) - 1 : Append(Front(s), x)[k] = s[k]
           /\ Append(Front(s), x)[Len(s)] = x
<1>1. Front(s) \in Seq(Nat) /\ Len(Front(s)) = Len(s) - 1 /\ \A k \in 1 .. Len(s) - 1 : Front(s)[k] = s[k]
  BY FramesFacts
<1>2. /\ Append(s, x) \in Seq(Nat) /\ Len(Append(s, x)) = Len(s) + 1
      /\ Append(s, x)[Len(s) + 1] = x /\ \A k \in 1 .. Len(s) : Append(s, x)[k] = s[k]
  BY AppendProperties
<1> DEFINE f == Front(s)
<1> HIDE DEF f
<1>3. /\ Append(f, x)[Len(f) + 1] = x /\ \A k \in 1 .. Len(f) : Append(f, x)[k] = f[k]
  BY <1>1, AppendProperties DEF f
<1>4. Len(s) \in Nat
  OBVIOUS
<1> QED BY <1>1, <1>2, <1>3, <1>4 DEF f, Last

LEMMA StackStep ==
    ASSUME load \in Workload, NEW c \in Calls, NEW d \in Calls, Placed(c), BudgetInv(c), Flow(c, d)
    PROVE  /\ d.outer <= Retries /\ (d.op \notin Downloads \cup {"upload"} => d.outer = 0)
           /\ d.pc \in Sending => \A k \in 1 .. Len(d.frames) : d.frames[k] <= Retries
<1> DEFINE s == c.frames
           u == d.frames
<1>1. /\ Retries \in Nat /\ c.outer \in Nat /\ d.outer \in Nat
      /\ s \in Seq(Nat) /\ u \in Seq(Nat) /\ Len(s) \in Nat /\ d.op = c.op
  BY CallTypes DEF Retries, Workload, Flow
<1>2. /\ c.outer <= Retries /\ (c.op \notin Downloads \cup {"upload"} => c.outer = 0)
      /\ c.pc \in Sending => s # <<>> /\ \A k \in 1 .. Len(s) : s[k] <= Retries
  BY DEF BudgetInv, Placed, Sending
<1>3. d.outer = c.outer \/ (d.outer <= Retries /\ c.op \in Downloads \cup {"upload"})
  BY DEF Flow, Sends, Nests, Ends, Loops, Kept, OneMore, Placed
<1>4. d.pc \in Sending =>
        \/ c.pc \in Sending /\ u = s
        \/ c.pc \in Sending /\ u = Append(s, 0)
        \/ c.pc \in Sending /\ Last(s) + 1 <= Retries /\ u = Append(Front(s), Last(s) + 1)
        \/ c.pc \in Sending /\ u = Front(s)
        \/ u = <<0>>
  BY DEF Flow, Sends, Nests, Ends, Loops, Kept, OneMore, Sending
<1> HIDE DEF s, u
<1>5. ASSUME d.pc \in Sending, NEW k \in 1 .. Len(u) PROVE u[k] <= Retries
  <2>1. CASE u = <<0>>
    BY <1>1, <1>5, <2>1
  <2>2. CASE c.pc \in Sending /\ u = s
    BY <1>2, <1>5, <2>2
  <2>3. CASE c.pc \in Sending /\ u = Append(s, 0)
    <3>1. Len(u) = Len(s) + 1 /\ u[Len(s) + 1] = 0 /\ \A j \in 1 .. Len(s) : u[j] = s[j]
      BY <1>1, <1>2, <2>3, AppendProperties
    <3>2. k = Len(s) + 1 \/ k \in 1 .. Len(s)
      BY <1>1, <1>5, <3>1
    <3> QED BY <1>1, <1>2, <2>3, <3>1, <3>2
  <2>4. CASE c.pc \in Sending /\ Last(s) + 1 <= Retries /\ u = Append(Front(s), Last(s) + 1)
    <3> DEFINE x == Last(s) + 1
    <3>1. x \in Nat
      BY <1>1, <1>2, <2>4, FramesFacts
    <3> HIDE DEF x
    <3>2. Len(u) = Len(s) /\ u[Len(s)] = x /\ \A j \in 1 .. Len(s) - 1 : u[j] = s[j]
      BY <1>1, <1>2, <2>4, <3>1, FramesFacts, StackFacts DEF x
    <3>3. k = Len(s) \/ (k \in 1 .. Len(s) - 1 /\ k \in 1 .. Len(s))
      BY <1>1, <1>5, <3>2
    <3>4. x <= Retries
      BY <2>4 DEF x
    <3> QED BY <1>2, <2>4, <3>2, <3>3, <3>4
  <2>5. CASE c.pc \in Sending /\ u = Front(s)
    <3>1. Len(u) = Len(s) - 1 /\ \A j \in 1 .. Len(s) - 1 : u[j] = s[j]
      BY <1>1, <1>2, <2>5, FramesFacts
    <3>2. k \in 1 .. Len(s) - 1 /\ k \in 1 .. Len(s)
      BY <1>1, <1>5, <3>1
    <3> QED BY <1>2, <2>5, <3>1, <3>2
  <2> QED BY <1>4, <1>5, <2>1, <2>2, <2>3, <2>4, <2>5
<1>6. d.outer <= Retries /\ (d.op \notin Downloads \cup {"upload"} => d.outer = 0)
  BY <1>1, <1>2, <1>3
<1> QED BY <1>5, <1>6 DEF u

LEMMA PlainStep ==
    ASSUME load \in Workload, NEW c \in Calls, NEW d \in Calls, Placed(c), BudgetInv(c), Flow(c, d),
           c.op # "post"
    PROVE  PlainBudget(d) /\ (d.pc = "done" => d.requests <= Budget(d.op))
<1> DEFINE n == Attempts
           i == c.frames[1]
<1>0. /\ Retries \in Nat /\ n = Retries + 1 /\ n \in Nat
      /\ c.outer \in Nat /\ d.outer \in Nat /\ c.requests \in Nat /\ d.requests \in Nat
      /\ c.frames \in Seq(Nat) /\ d.op = c.op
  BY CallTypes DEF Retries, Workload, Attempts, Flow
<1>1. PlainBudget(c) /\ c.outer <= Retries /\ (c.op \notin Downloads \cup {"upload"} => c.outer = 0)
  BY DEF BudgetInv
<1>2. Earlier(c) \in Nat /\ Earlier(d) \in Nat /\ (d.outer = c.outer => Earlier(d) = Earlier(c))
  BY <1>0 DEF Earlier
<1>3. d.outer = c.outer + 1 => Earlier(d) = Earlier(c) + n
  BY <1>0, Multiples DEF Earlier
<1>4. c.outer = 0 => Earlier(c) = 0
  BY <1>0 DEF Earlier
<1>5. c.pc \in Sending => c.frames # <<>> /\ Len(c.frames) = 1 /\ i \in Nat /\ i <= Retries /\ Last(c.frames) = i
  BY <1>0, <1>1 DEF PlainBudget, BudgetInv, Placed, Last
<1> HIDE DEF n
<1>6. CASE Sends(c, d)
  <2>1. d.outer = c.outer /\ d.frames = c.frames /\ Earlier(d) = Earlier(c)
    BY <1>2, <1>6 DEF Sends, Kept, OneMore
  <2>2. \/ c.pc = "begin" /\ d.pc = "do" /\ d.requests = c.requests
        \/ c.pc \in {"do", "put"} /\ d.pc = c.pc /\ d.requests = c.requests
        \/ c.pc = "do" /\ d.pc = "returned" /\ d.requests <= c.requests + 1
        \/ c.pc = "put" /\ d.pc = "outer" /\ c.op = "upload" /\ d.requests <= c.requests + 1
    BY <1>6 DEF Sends, Kept, OneMore, Placed
  <2>3. CASE c.pc \in {"begin", "do"}
    <3>1. /\ Len(d.frames) = 1 /\ d.frames[1] = i /\ i \in Nat
          /\ c.requests <= Earlier(c) + i
      BY <1>1, <1>5, <2>1, <2>3 DEF PlainBudget, Sending
    <3>2. \/ d.pc = "do" /\ d.requests = c.requests
          \/ d.pc = "returned" /\ d.requests <= c.requests + 1
      BY <2>2, <2>3
    <3>3. \/ d.pc = "do" /\ d.requests <= Earlier(d) + d.frames[1]
          \/ d.pc = "returned" /\ d.requests <= Earlier(d) + d.frames[1] + 1
      <4> HIDE DEF i
      <4> QED BY <1>0, <1>2, <2>1, <3>1, <3>2
    <3> QED BY <3>1, <3>3 DEF PlainBudget, Sending
  <2>5. CASE c.pc = "put"
    BY <1>0, <1>1, <1>2, <2>1, <2>2, <2>5 DEF PlainBudget, Sending, Downloads
  <2> QED BY <2>2, <2>3, <2>5
<1>7. CASE Ends(c, d)
  <2>1. d.outer = c.outer /\ d.requests = c.requests /\ Earlier(d) = Earlier(c)
    BY <1>2, <1>7 DEF Ends, Kept
  <2>2. CASE c.pc = "returned"
    BY <1>0, <1>1, <1>2, <1>5, <1>7, <2>1, <2>2 DEF PlainBudget, Ends, Sending
  <2>3. CASE c.pc = "save"
    BY <1>0, <1>1, <1>2, <1>7, <2>1, <2>3 DEF PlainBudget, Ends, Sending, Placed, Downloads
  <2>4. CASE c.pc = "outer"
    <3>1. d.pc = "done" /\ c.op \in Downloads \cup {"upload"}
      BY <1>7, <2>4 DEF Ends, Placed
    <3>2. CASE c.op \in Downloads
      <4>1. d.requests <= Earlier(c) + n
        BY <1>1, <2>1, <2>4, <3>2 DEF PlainBudget, n
      <4>2. Earlier(c) + n <= n * n
        <5> DEFINE m == c.outer + 1
        <5>1. m \in Nat /\ m <= n
          BY <1>0, <1>1
        <5>2. m * n = Earlier(c) + n
          BY <1>0, Multiples DEF Earlier, n
        <5> HIDE DEF m
        <5>3. m * n <= n * n
          BY <1>0, <5>1, Multiples
        <5> QED BY <5>2, <5>3
      <4>3. Budget(c.op) = n * n /\ n * n \in Nat
        BY <1>0, <3>2 DEF Budget, n, Attempts
      <4>4. d.requests <= Budget(d.op)
        BY <1>0, <1>2, <4>1, <4>2, <4>3
      <4> QED BY <3>1, <4>4 DEF PlainBudget, Sending
    <3>3. CASE c.op = "upload"
      <4>1. d.requests <= n
        BY <1>0, <1>1, <2>1, <2>4, <3>3 DEF PlainBudget
      <4>2. Budget(c.op) = n
        BY <3>3 DEF Budget, n, Attempts, Downloads
      <4> QED BY <1>0, <3>1, <4>1, <4>2 DEF PlainBudget, Sending
    <3> QED BY <3>1, <3>2, <3>3
  <2> QED BY <1>7, <2>2, <2>3, <2>4 DEF Ends
<1>8. CASE Loops(c, d)
  <2>1. CASE c.pc = "outer"
    <3>1. d.pc = Begin(c.op) /\ d.outer = c.outer + 1 /\ d.frames = <<0>> /\ d.requests = c.requests
      BY <1>8, <2>1 DEF Loops
    <3>2. Len(d.frames) = 1 /\ d.frames[1] = 0 /\ Earlier(d) = Earlier(c) + n
      BY <1>3, <3>1
    <3>3. CASE c.op \in Downloads
      <4>1. d.pc = "begin" /\ c.requests <= Earlier(c) + n
        BY <1>1, <2>1, <3>1, <3>3 DEF PlainBudget, Begin, Downloads, n
      <4> QED BY <1>0, <1>2, <3>1, <3>2, <4>1 DEF PlainBudget, Sending
    <3>4. CASE c.op = "upload"
      <4>1. d.pc = "put" /\ c.requests <= c.outer + 1
        BY <1>1, <2>1, <3>1, <3>4 DEF PlainBudget, Begin
      <4> QED BY <1>0, <3>1, <4>1 DEF PlainBudget, Sending
    <3> QED BY <2>1, <3>3, <3>4 DEF Placed
  <2>2. CASE c.pc = "verdict"
    <3>1. /\ d.outer = c.outer /\ d.requests = c.requests /\ Earlier(d) = Earlier(c)
          /\ c.requests <= Earlier(c) + i + 1
      BY <1>1, <1>2, <1>8, <2>2 DEF Loops, Kept, PlainBudget
    <3>2. CASE d.pc = "begin" /\ i + 1 <= Retries /\ d.frames = Append(Front(c.frames), i + 1)
      <4>1. Len(d.frames) = 1 /\ d.frames[1] = i + 1
        <5>1. i + 1 \in Nat /\ c.frames # <<>> /\ Len(c.frames) = 1
          BY <1>5, <2>2 DEF Sending
        <5> HIDE DEF i
        <5> QED BY <1>0, <3>2, <5>1, FramesFacts, StackFacts
      <4> QED BY <1>0, <1>2, <1>5, <2>2, <3>1, <3>2, <4>1 DEF PlainBudget, Sending
    <3>3. CASE d.pc = (IF c.op \in Downloads THEN "save" ELSE "done")
      <4>1. c.requests <= Earlier(c) + n
        BY <1>0, <1>2, <1>5, <2>2, <3>1 DEF Sending
      <4>2. CASE c.op \in Downloads
        BY <1>0, <1>2, <3>1, <3>3, <4>1, <4>2 DEF PlainBudget, Sending, n
      <4>3. CASE c.op \notin Downloads
        <5>1. c.op \in Senders
          BY <2>2 DEF Placed, Sending
        <5>2. Budget(c.op) = n /\ c.outer = 0
          BY <1>1, <4>3, <5>1 DEF Budget, n, Attempts, Senders
        <5> QED BY <1>0, <1>4, <3>1, <3>3, <4>1, <4>3, <5>2 DEF PlainBudget, Sending
      <4> QED BY <4>2, <4>3
    <3>4. Len(c.frames) = 1 /\ Last(c.frames) = i
      BY <1>5, <2>2 DEF Sending
    <3>5. \/ d.pc = "begin" /\ i + 1 <= Retries /\ d.frames = Append(Front(c.frames), i + 1)
          \/ d.pc = (IF c.op \in Downloads THEN "save" ELSE "done")
      BY <1>8, <2>2, <3>4 DEF Loops
    <3> QED BY <3>2, <3>3, <3>5
  <2> QED BY <1>8, <2>1, <2>2 DEF Loops
<1> QED BY <1>6, <1>7, <1>8 DEF Flow, Nests

(* A level's attempts together are the Send that the level below counts.      *)
LEMMA LevelFacts ==
    ASSUME load \in Workload
    PROVE  /\ \A k \in 1 .. MaxRedirects + 1 :
                 /\ AttemptAt(k) \in Nat /\ AttemptAt(k) >= 1
                 /\ \A i \in Nat : i * AttemptAt(k) \in Nat
                 /\ \A i \in Nat : (i + 1) * AttemptAt(k) = i * AttemptAt(k) + AttemptAt(k)
                 /\ \A i \in Nat : i <= Retries => i * AttemptAt(k) + AttemptAt(k) <= Attempts * AttemptAt(k)
           /\ \A k \in 2 .. MaxRedirects + 1 : AttemptAt(k - 1) = 1 + Attempts * AttemptAt(k)
           /\ PostRequests(Attempts)[MaxRedirects] = Attempts * AttemptAt(1)
<1>1. MaxRedirects \in Nat /\ Retries \in Nat /\ Attempts = Retries + 1
  BY WorkloadsAssumption DEF Attempts, Retries, Workload
<1>2. ASSUME NEW k \in 1 .. MaxRedirects + 1
      PROVE  /\ AttemptAt(k) \in Nat /\ AttemptAt(k) >= 1
             /\ \A i \in Nat : i * AttemptAt(k) \in Nat
             /\ \A i \in Nat : (i + 1) * AttemptAt(k) = i * AttemptAt(k) + AttemptAt(k)
             /\ \A i \in Nat : i <= Retries => i * AttemptAt(k) + AttemptAt(k) <= Attempts * AttemptAt(k)
  <2> DEFINE n == AttemptAt(k)
             d == MaxRedirects + 1 - k
  <2>1. d \in 0 .. MaxRedirects /\ n = Attempt(d)
    BY <1>1 DEF AttemptAt
  <2> HIDE DEF n, d
  <2>2. n \in Nat /\ n >= 1
    BY <2>1, AttemptFacts
  <2>3. ASSUME NEW i \in Nat, i <= Retries PROVE i * n + n <= Attempts * n
    <3> DEFINE j == i + 1
    <3>1. j \in Nat /\ j <= Attempts /\ Attempts \in Nat
      BY <1>1, <2>3
    <3>2. j * n = i * n + n
      BY <2>2, Multiples
    <3> HIDE DEF j
    <3>3. j * n <= Attempts * n
      BY <2>2, <3>1, Multiples
    <3> QED BY <3>2, <3>3
  <2> QED BY <2>2, <2>3, Multiples DEF n
<1>3. ASSUME NEW k \in 2 .. MaxRedirects + 1 PROVE AttemptAt(k - 1) = 1 + Attempts * AttemptAt(k)
  <2> DEFINE d == MaxRedirects + 1 - k
             e == MaxRedirects + 1 - (k - 1)
  <2>1. d \in 0 .. MaxRedirects /\ e \in 0 .. MaxRedirects /\ e > 0 /\ e - 1 = d
    BY <1>1
  <2>2. AttemptAt(k) = Attempt(d) /\ AttemptAt(k - 1) = Attempt(e)
    BY DEF AttemptAt
  <2> HIDE DEF d, e
  <2>3. Attempt(e) = 1 + PostRequests(Attempts)[d]
    BY <2>1, AttemptFacts
  <2>4. PostRequests(Attempts)[d] = Attempts * Attempt(d)
    BY <2>1, AttemptFacts
  <2> QED BY <2>2, <2>3, <2>4
<1>4. PostRequests(Attempts)[MaxRedirects] = Attempts * AttemptAt(1)
  <2>1. MaxRedirects \in 0 .. MaxRedirects /\ MaxRedirects + 1 - 1 = MaxRedirects
    BY <1>1
  <2> QED BY <2>1, AttemptFacts DEF AttemptAt
<1> QED BY <1>2, <1>3, <1>4

LEMMA PostStep ==
    ASSUME load \in Workload, NEW c \in Calls, NEW d \in Calls, Placed(c), BudgetInv(c), Flow(c, d),
           c.op = "post"
    PROVE  PostBudget(d) /\ (d.pc = "done" => d.requests <= Budget(d.op))
<1> DEFINE s == c.frames
           k == Len(s)
<1>0. /\ MaxRedirects \in Nat /\ Retries \in Nat /\ c.requests \in Nat /\ d.requests \in Nat
      /\ s \in Seq(Nat) /\ d.frames \in Seq(Nat) /\ d.op = "post"
  BY WorkloadsAssumption, CallTypes DEF Retries, Workload, Flow
<1>1. c.pc \in {"begin", "do", "returned", "verdict"} /\ s # <<>>
  BY DEF Flow, Sends, Nests, Ends, Loops, Placed, Downloads, Sending
<1>2. k \in 1 .. MaxRedirects + 1 /\ \A j \in 1 .. k : s[j] \in Nat /\ s[j] <= Retries
  BY <1>0, <1>1 DEF BudgetInv, PostBudget, Sending
<1>3. PICK before : Before(s, before) /\ Spent(c, before)
  BY <1>1 DEF BudgetInv, PostBudget, Sending
<1>3a. Len(s) = k /\ k = Len(c.frames) /\ s = c.frames
  OBVIOUS
<1> HIDE DEF s, k
<1>4. /\ before \in [1 .. k -> Nat] /\ before[1] <= s[1] * AttemptAt(1)
      /\ \A j \in 2 .. k : before[j] <= before[j - 1] + 1 + s[j] * AttemptAt(j)
  BY <1>3, <1>3a DEF Before
<1>5. /\ AttemptAt(k) \in Nat /\ AttemptAt(k) >= 1 /\ s[k] * AttemptAt(k) \in Nat
      /\ (s[k] + 1) * AttemptAt(k) = s[k] * AttemptAt(k) + AttemptAt(k)
      /\ s[k] * AttemptAt(k) + AttemptAt(k) <= Attempts * AttemptAt(k)
      /\ Attempts * AttemptAt(k) \in Nat
  <2>1. s[k] \in Nat /\ s[k] <= Retries
    BY <1>2
  <2>2. Attempts \in Nat
    BY <1>0 DEF Attempts
  <2> QED BY <1>2, <2>1, <2>2, LevelFacts
<1>6. before[k] \in Nat
  BY <1>2, <1>4
<1>7. CASE Sends(c, d)
  <2>1. \/ c.pc = "begin" /\ d.pc = "do" /\ d.requests = c.requests /\ d.url = None
        \/ c.pc = "do" /\ d.pc = "do" /\ d.requests = c.requests /\ d.url = c.url
        \/ c.pc = "do" /\ d.pc = "returned" /\ d.requests <= c.requests + 1 /\ (d.url = c.url \/ k <= MaxRedirects)
    BY <1>1, <1>7, <1>3a DEF Sends, Kept, OneMore
  <2>2. d.frames = s /\ (c.pc = "do" => c.url = None)
    BY <1>7, <1>3a DEF Sends, Kept, OneMore, BudgetInv, PostBudget
  <2>3. Spent(d, before)
    BY <1>0, <1>3, <1>6, <1>3a, <2>1, <2>2 DEF Spent
  <2> QED BY <1>0, <1>2, <1>3, <1>3a, <2>1, <2>2, <2>3 DEF PostBudget
<1>8. CASE Nests(c, d)
  <2>1. /\ c.pc = "returned" /\ d.pc = "begin" /\ d.frames = Append(s, 0) /\ d.requests = c.requests
        /\ k <= MaxRedirects
    BY <1>8, <1>3a DEF Nests, Kept, BudgetInv, PostBudget
  <2>2. Len(d.frames) = k + 1 /\ d.frames[k + 1] = 0 /\ \A j \in 1 .. k : d.frames[j] = s[j]
    BY <1>0, <1>1, <1>3a, <2>1, AppendProperties
  <2> DEFINE v == before[k] + 1
             after == [j \in 1 .. k + 1 |-> IF j = k + 1 THEN v ELSE before[j]]
  <2>3. v \in Nat /\ \A j \in 1 .. k + 1 : j = k + 1 \/ (j \in 1 .. k /\ j # k + 1)
    BY <1>2, <1>6
  <2>4. after \in [1 .. k + 1 -> Nat] /\ after[k + 1] = v /\ \A j \in 1 .. k : after[j] = before[j]
    <3> HIDE DEF v
    <3> QED BY <1>2, <1>4, <2>3
  <2> HIDE DEF after
  <2>5. Before(d.frames, after)
    <3>1. after[1] <= d.frames[1] * AttemptAt(1)
      BY <1>2, <1>4, <2>2, <2>4
    <3>2. ASSUME NEW j \in 2 .. k PROVE after[j] <= after[j - 1] + 1 + d.frames[j] * AttemptAt(j)
      <4>1. j \in 1 .. k /\ j - 1 \in 1 .. k
        BY <1>2
      <4>2. before[j] <= before[j - 1] + 1 + s[j] * AttemptAt(j)
        BY <1>4
      <4> QED BY <2>2, <2>4, <4>1, <4>2
    <3>3. after[k + 1] <= after[k] + 1 + d.frames[k + 1] * AttemptAt(k + 1)
      <4>1. AttemptAt(k + 1) \in Nat
        <5>1. k + 1 \in 1 .. MaxRedirects + 1
          BY <1>0, <1>2, <2>1
        <5> QED BY <5>1, LevelFacts
      <4> QED BY <1>2, <1>6, <2>2, <2>4, <4>1
    <3>4. ASSUME NEW j \in 2 .. k + 1 PROVE after[j] <= after[j - 1] + 1 + d.frames[j] * AttemptAt(j)
      <4>1. (j = k + 1 /\ j - 1 = k) \/ j \in 2 .. k
        BY <1>2
      <4> QED BY <3>2, <3>3, <4>1
    <3> QED BY <2>2, <2>4, <3>1, <3>4 DEF Before
  <2>6. Spent(d, after)
    BY <1>3, <1>3a, <2>1, <2>2, <2>4 DEF Spent
  <2> QED BY <1>0, <1>2, <2>1, <2>2, <2>5, <2>6 DEF PostBudget
<1>9. CASE Ends(c, d)
  <2>1. c.pc = "returned" /\ d.pc = "verdict" /\ d.frames = s /\ d.requests = c.requests
    BY <1>1, <1>9, <1>3a DEF Ends, Kept
  <2>2. Spent(d, before)
    BY <1>0, <1>3, <1>5, <1>6, <1>3a, <2>1 DEF Spent
  <2> QED BY <1>2, <1>3, <1>3a, <2>1, <2>2 DEF PostBudget
<1>10. CASE Loops(c, d)
  <2>1. c.pc = "verdict" /\ d.requests = c.requests /\ c.requests <= before[k] + AttemptAt(k)
    BY <1>1, <1>3, <1>10, <1>3a DEF Loops, Kept, Spent
  <2>2. CASE d.pc = "begin" /\ d.frames = Append(Front(s), s[k] + 1)
    <3>1. Len(d.frames) = k /\ d.frames[k] = s[k] + 1 /\ \A j \in 1 .. k - 1 : d.frames[j] = s[j]
      <4>1. s[k] + 1 \in Nat
        BY <1>2
      <4> DEFINE x == s[k] + 1
                 f == Append(Front(s), x)
      <4> HIDE DEF x
      <4>2. Len(f) = Len(s)
        BY <1>0, <1>1, <4>1, FramesFacts DEF x
      <4>3. f[Len(s)] = x /\ \A j \in 1 .. Len(s) - 1 : f[j] = s[j]
        BY <1>0, <1>1, <4>1, StackFacts DEF x
      <4> HIDE DEF f
      <4>4. d.frames = f
        BY <2>2 DEF f, x
      <4>5. \A j \in 1 .. k - 1 : f[j] = s[j]
        BY <1>3a, <4>3
      <4> QED BY <1>3a, <4>2, <4>3, <4>4, <4>5 DEF x
    <3> DEFINE v == before[k] + AttemptAt(k)
               after == [j \in 1 .. k |-> IF j = k THEN v ELSE before[j]]
    <3>2. v \in Nat
      BY <1>5, <1>6
    <3>3. after \in [1 .. k -> Nat] /\ after[k] = v /\ \A j \in 1 .. k - 1 : after[j] = before[j]
      <4> HIDE DEF v
      <4> QED BY <1>2, <1>4, <3>2
    <3> HIDE DEF after
    <3>4. Before(d.frames, after)
      <4>1. CASE k = 1
        BY <1>2, <1>4, <1>5, <1>6, <3>1, <3>3, <4>1 DEF Before
      <4>2. CASE k > 1
        <5>1. after[1] <= d.frames[1] * AttemptAt(1)
          BY <1>2, <1>4, <3>1, <3>3, <4>2
        <5>2. ASSUME NEW j \in 2 .. k - 1 PROVE after[j] <= after[j - 1] + 1 + d.frames[j] * AttemptAt(j)
          <6>1. j \in 1 .. k - 1 /\ j - 1 \in 1 .. k - 1 /\ j \in 2 .. k
            BY <1>2
          <6>2. before[j] <= before[j - 1] + 1 + s[j] * AttemptAt(j)
            BY <1>4, <6>1
          <6> QED BY <3>1, <3>3, <6>1, <6>2
        <5>3. after[k] <= after[k - 1] + 1 + d.frames[k] * AttemptAt(k)
          <6>1. before[k - 1] \in Nat /\ before[k] <= before[k - 1] + 1 + s[k] * AttemptAt(k) /\ after[k - 1] = before[k - 1]
            <7>1. k \in 2 .. k /\ k - 1 \in 1 .. k /\ k - 1 \in 1 .. k - 1
              BY <1>2, <4>2
            <7> QED BY <1>4, <3>3, <7>1
          <6> QED BY <1>5, <1>6, <3>1, <3>3, <6>1
        <5>4. \A j \in 2 .. k : j = k \/ j \in 2 .. k - 1
          BY <1>2
        <5> QED BY <3>1, <3>3, <5>1, <5>2, <5>3, <5>4 DEF Before
      <4> QED BY <1>2, <4>1, <4>2
    <3>5. Spent(d, after)
      BY <2>1, <2>2, <3>1, <3>3 DEF Spent
    <3> QED BY <1>2, <2>2, <3>1, <3>4, <3>5 DEF PostBudget
  <2>3. CASE k > 1 /\ d.pc = "verdict" /\ d.frames = Front(s)
    <3>1. Len(d.frames) = k - 1 /\ k - 1 \in 1 .. MaxRedirects /\ \A j \in 1 .. k - 1 : d.frames[j] = s[j]
      <4>1. Len(Front(s)) = Len(s) - 1 /\ \A j \in 1 .. Len(s) - 1 : Front(s)[j] = s[j]
        BY <1>0, <1>1, FrontFacts
      <4>2. Len(s) = k /\ d.frames = Front(s)
        BY <1>3a, <2>3
      <4>3. k - 1 \in 1 .. MaxRedirects
        BY <1>0, <1>2, <2>3
      <4> QED BY <4>1, <4>2, <4>3
    <3> DEFINE after == [j \in 1 .. k - 1 |-> before[j]]
    <3>2. after \in [1 .. k - 1 -> Nat] /\ \A j \in 1 .. k - 1 : after[j] = before[j]
      BY <1>2, <1>4
    <3> HIDE DEF after
    <3>3. after[1] <= d.frames[1] * AttemptAt(1)
      BY <1>2, <1>4, <2>3, <3>1, <3>2
    <3>4. ASSUME NEW j \in 2 .. k - 1 PROVE after[j] <= after[j - 1] + 1 + d.frames[j] * AttemptAt(j)
      <4>1. j \in 1 .. k - 1 /\ j - 1 \in 1 .. k - 1 /\ j \in 2 .. k
        BY <1>2
      <4>2. before[j] <= before[j - 1] + 1 + s[j] * AttemptAt(j)
        BY <1>4, <4>1
      <4> QED BY <3>1, <3>2, <4>1, <4>2
    <3>5. Before(d.frames, after)
      BY <3>1, <3>2, <3>3, <3>4 DEF Before
    <3>6. c.requests <= before[k - 1] + AttemptAt(k - 1)
      <4>1. before[k - 1] \in Nat /\ before[k] <= before[k - 1] + 1 + s[k] * AttemptAt(k)
        <5>1. k \in 2 .. k /\ k - 1 \in 1 .. k
          BY <1>2, <2>3
        <5> QED BY <1>4, <5>1
      <4>2. AttemptAt(k - 1) = 1 + Attempts * AttemptAt(k)
        <5>1. k \in 2 .. MaxRedirects + 1
          BY <1>2, <2>3
        <5> QED BY <5>1, LevelFacts
      <4> DEFINE x == s[k] * AttemptAt(k)
                 y == Attempts * AttemptAt(k)
                 p == before[k - 1]
                 q == before[k]
                 a == AttemptAt(k)
      <4>3. /\ p \in Nat /\ q \in Nat /\ a \in Nat /\ x \in Nat /\ y \in Nat
            /\ x + a <= y /\ q <= p + 1 + x /\ c.requests <= q + a
        BY <1>5, <1>6, <2>1, <4>1
      <4>4. AttemptAt(k - 1) = 1 + y
        BY <4>2
      <4> HIDE DEF x, y, p, q, a
      <4>5. c.requests <= p + (1 + y)
        BY <1>0, <4>3
      <4> QED BY <4>4, <4>5 DEF p
    <3>7. Spent(d, after)
      BY <2>1, <2>3, <3>1, <3>2, <3>6 DEF Spent
    <3> QED BY <1>0, <1>2, <2>3, <3>1, <3>5, <3>7 DEF PostBudget
  <2>4. CASE k = 1 /\ d.pc = "done" /\ d.frames = Front(s)
    <3>1. Len(d.frames) = 0
      <4>1. Len(Front(s)) = Len(s) - 1
        BY <1>0, <1>1, FrontFacts
      <4>2. d.frames = Front(s) /\ Len(s) = 1
        BY <1>3a, <2>4
      <4> QED BY <4>1, <4>2
    <3>2. Budget("post") = Attempts * AttemptAt(1)
      BY LevelFacts DEF Budget, Attempts, Downloads
    <3>3. c.requests <= Attempts * AttemptAt(1)
      <4>1. Attempts * AttemptAt(1) \in Nat
        BY <1>0, <1>2, LevelFacts DEF Attempts
      <4> QED BY <1>0, <1>4, <1>5, <1>6, <2>1, <2>4, <4>1
    <3> QED BY <1>0, <2>1, <2>4, <3>1, <3>2, <3>3 DEF PostBudget, Sending
  <2>5. Last(s) = s[k] /\ "post" \notin Downloads /\ (k > 1 \/ k = 1)
    <3>1. Last(s) = s[k]
      BY <1>3a DEF Last
    <3>2. k > 1 \/ k = 1
      BY <1>0, <1>2
    <3> QED BY <3>1, <3>2 DEF Downloads
  <2>6. \/ d.pc = "begin" /\ d.frames = Append(Front(s), s[k] + 1)
        \/ d.pc = (IF k > 1 THEN "verdict" ELSE "done") /\ d.frames = Front(s)
    BY <1>10, <1>3a, <2>1, <2>5 DEF Loops
  <2> QED BY <2>2, <2>3, <2>4, <2>5, <2>6
<1> QED BY <1>7, <1>8, <1>9, <1>10 DEF Flow

LEMMA BudgetStep ==
    ASSUME load \in Workload, NEW c \in Calls, NEW d \in Calls, Placed(c), BudgetInv(c), Flow(c, d)
    PROVE  BudgetInv(d)
<1>1. d.op = c.op
  BY DEF Flow
<1> QED BY <1>1, StackStep, PlainStep, PostStep DEF BudgetInv

LEMMA BudgetInitially == ASSUME Init, NEW t \in Threads PROVE BudgetInv(call[t])
<1> DEFINE c == call[t]
<1>1. load \in Workload /\ MaxRedirects \in Nat
  BY WorkloadsAssumption DEF Init
<1>2. /\ c.op = load.ops[t] /\ c.pc = Begin(c.op) /\ c.outer = 0 /\ c.frames = <<0>> /\ c.url = None
      /\ c.requests = 0 /\ c.op \in AllOps \cup {"none"}
  BY <1>1 DEF Init, Workload
<1>3. Len(c.frames) = 1 /\ c.frames[1] = 0 /\ Retries \in Nat /\ Earlier(c) = 0
  BY <1>1, <1>2 DEF Earlier, Attempts, Retries, Workload
<1>4. c.pc \in {"begin", "put", "done"} /\ (c.pc = "done" => c.op = "none")
  BY <1>2 DEF Begin, AllOps
<1>5. PlainBudget(c)
  BY <1>2, <1>3, <1>4 DEF PlainBudget, Sending
<1>6. ASSUME c.op = "post" PROVE PostBudget(c)
  <2> DEFINE before == [k \in 1 .. 1 |-> 0]
  <2>1. AttemptAt(1) \in Nat
    BY <1>1, LevelFacts
  <2>2. Before(c.frames, before)
    BY <1>2, <1>3, <2>1 DEF Before
  <2>3. Spent(c, before)
    BY <1>2, <1>3, <1>4 DEF Spent
  <2> QED BY <1>1, <1>2, <1>3, <1>4, <2>2, <2>3 DEF PostBudget
<1>7. c.pc = "done" => c.requests <= Budget(c.op)
  BY <1>2, <1>3, <1>4 DEF Budget, Downloads, Retries
<1> QED BY <1>2, <1>3, <1>5, <1>6, <1>7 DEF BudgetInv

BudgetHolds == \A t \in Threads : Alone(t) => BudgetInv(call[t])

LEMMA BudgetKept == IInv /\ IInv' /\ BudgetHolds /\ [Next]_vars => BudgetHolds'
<1> SUFFICES ASSUME IInv, IInv', BudgetHolds, [Next]_vars, NEW t \in Threads, Alone(t)'
             PROVE  BudgetInv(call[t])'
  BY DEF BudgetHolds
<1> DEFINE c == call[t]
           d == call'[t]
<1>1. load \in Workload /\ c \in Calls /\ d \in Calls
  BY LoadIsWorkload DEF IInv, TypeOK
<1>2. load' = load
  BY StepGoes DEF Next, vars, Cancel, Goes
<1>3. BudgetInv(c)
  BY <1>2 DEF Alone, BudgetHolds
<1>4. BudgetInv(d) => BudgetInv(call[t])'
  BY <1>2 DEF BudgetInv, PlainBudget, PostBudget, Before, Spent, Earlier, AttemptAt, Attempt, Attempts,
              Retries, Budget
<1>5. CASE UNCHANGED call
  BY <1>3, <1>4, <1>5
<1>6. ASSUME NEW u \in Threads, Step(u), u # t PROVE FALSE
  <2>1. load.ops[u] = "none"
    BY <1>2, <1>6 DEF Alone
  <2>2. call[u].pc # "done"
    BY <1>6, StepGoes DEF Goes, Flow, Sends, Nests, Ends, Loops
  <2>3. call[u].op = "none" /\ call[u].pc \in Places
    BY <2>1, CallsAre DEF IInv, TypeOK, CallInv, PlaceInv
  <2> QED BY <2>2, <2>3 DEF IInv, CallInv, PlaceInv, Places, Senders, AllOps, Downloads
<1>7. CASE Step(t)
  <2>1. Flow(c, d)
    BY <1>7, StepGoes DEF Goes
  <2>2. Placed(c)
    BY DEF IInv, CallInv, PlaceInv, Placed, Sending
  <2> QED BY <1>1, <1>3, <1>4, <2>1, <2>2, BudgetStep
<1> QED BY <1>5, <1>6, <1>7 DEF Next, vars, Cancel

LEMMA PlainWithin ==
    ASSUME load \in Workload, NEW c \in Calls, Placed(c), BudgetInv(c), c.op \in AllOps \ {"post"}
    PROVE  c.requests <= Budget(c.op)
<1> DEFINE n == Attempts
<1>0. /\ Retries \in Nat /\ n = Retries + 1 /\ n \in Nat /\ c.outer \in Nat /\ c.requests \in Nat
      /\ c.frames \in Seq(Nat) /\ Earlier(c) \in Nat /\ c.pc \in Places
  BY CallTypes, CallsAre DEF Retries, Workload, Attempts, Earlier
<1>1. PlainBudget(c) /\ c.outer <= Retries /\ (c.op \notin Downloads \cup {"upload"} => c.outer = 0)
  BY DEF BudgetInv
<1>2. c.pc \in Sending => c.frames[1] \in Nat /\ c.frames[1] <= Retries
  BY <1>0, <1>1 DEF PlainBudget, BudgetInv, Placed
<1>3. c.pc \in Sending => c.requests <= Earlier(c) + n
  BY <1>0, <1>1, <1>2 DEF PlainBudget, Sending
<1>4. CASE c.pc = "done"
  BY <1>4 DEF BudgetInv
<1>5. CASE c.op \in Downloads /\ c.pc # "done"
  <2> DEFINE m == c.outer + 1
  <2>1. m \in Nat /\ m <= n
    BY <1>0, <1>1
  <2>2. m * n = Earlier(c) + n
    BY <1>0, Multiples DEF Earlier
  <2>3. c.requests <= Earlier(c) + n
    BY <1>0, <1>1, <1>3, <1>5 DEF PlainBudget, Placed, Sending, Places, Downloads
  <2>4. Budget(c.op) = n * n /\ n * n \in Nat
    BY <1>0, <1>5 DEF Budget, Attempts
  <2> HIDE DEF m, n
  <2>5. m * n <= n * n
    BY <1>0, <2>1, Multiples
  <2> QED BY <1>0, <2>2, <2>3, <2>4, <2>5
<1>6. CASE c.op \notin Downloads /\ c.pc # "done"
  <2>1. Budget(c.op) = n
    BY <1>6 DEF Budget, Attempts
  <2>2. CASE c.op = "upload"
    <3>1. c.pc \in {"put", "outer"}
      BY <1>0, <1>6, <2>2 DEF Placed, Places, Sending, Senders
    <3> QED BY <1>0, <1>1, <2>1, <2>2, <3>1 DEF PlainBudget
  <2>3. CASE c.op # "upload"
    <3>1. c.pc \in Sending
      BY <1>0, <1>6, <2>3 DEF Placed, Places, Sending
    <3>2. Earlier(c) = 0
      BY <1>0, <1>1, <1>6, <2>3 DEF Earlier
    <3> QED BY <1>0, <1>3, <2>1, <3>1, <3>2
  <2> QED BY <2>2, <2>3
<1> QED BY <1>4, <1>5, <1>6

LEMMA PostWithin ==
    ASSUME load \in Workload, NEW c \in Calls, Placed(c), BudgetInv(c), c.op = "post"
    PROVE  c.requests <= Budget(c.op)
<1> DEFINE s == c.frames
           k == Len(s)
           most == Budget("post")
<1>0. /\ MaxRedirects \in Nat /\ Retries \in Nat /\ Attempts \in Nat /\ c.requests \in Nat /\ s \in Seq(Nat)
      /\ c.pc \in Places
  BY WorkloadsAssumption, CallTypes, CallsAre DEF Retries, Workload, Attempts
<1>1. CASE c.pc = "done"
  BY <1>1 DEF BudgetInv
<1>2. CASE c.pc # "done"
  <2>1. c.pc \in {"begin", "do", "returned", "verdict"} /\ s # <<>>
    BY <1>0, <1>2 DEF Placed, Downloads, Sending, Places
  <2>2. k \in 1 .. MaxRedirects + 1 /\ \A j \in 1 .. k : s[j] \in Nat /\ s[j] <= Retries
    BY <1>0, <2>1 DEF BudgetInv, PostBudget, Sending
  <2>3. PICK before : Before(s, before) /\ Spent(c, before)
    BY <2>1 DEF BudgetInv, PostBudget, Sending
  <2>4. most = Attempts * AttemptAt(1)
    BY LevelFacts DEF Budget, Attempts, Downloads
  <2>5. Len(s) = k /\ k = Len(c.frames)
    OBVIOUS
  <2> HIDE DEF s, k, most
  <2>6. /\ before \in [1 .. k -> Nat] /\ before[1] <= s[1] * AttemptAt(1)
        /\ \A j \in 2 .. k : before[j] <= before[j - 1] + 1 + s[j] * AttemptAt(j)
    BY <2>3, <2>5 DEF Before
  <2>7. ASSUME NEW j \in 1 .. k
        PROVE  /\ AttemptAt(j) \in Nat /\ AttemptAt(j) >= 1 /\ before[j] \in Nat
               /\ s[j] * AttemptAt(j) \in Nat /\ Attempts * AttemptAt(j) \in Nat
               /\ s[j] * AttemptAt(j) + AttemptAt(j) <= Attempts * AttemptAt(j)
    <3>1. j \in 1 .. MaxRedirects + 1 /\ s[j] \in Nat /\ s[j] <= Retries
      BY <1>0, <2>2
    <3> QED BY <1>0, <2>6, <3>1, LevelFacts
  <2> DEFINE Fits(j) == before[j] + AttemptAt(j) <= most
             S == {j \in 1 .. k : ~Fits(j)}
  <2>8. Fits(1)
    <3>1. 1 \in 1 .. k
      BY <2>2
    <3> QED BY <2>4, <2>6, <2>7, <3>1
  <2>9. ASSUME NEW j \in 2 .. k, Fits(j - 1) PROVE Fits(j)
    <3>1. j \in 1 .. k /\ j - 1 \in 1 .. k /\ j \in 2 .. MaxRedirects + 1
      BY <1>0, <2>2
    <3>2. AttemptAt(j - 1) = 1 + Attempts * AttemptAt(j)
      BY <3>1, LevelFacts
    <3>3. before[j] <= before[j - 1] + 1 + s[j] * AttemptAt(j)
      BY <2>6
    <3>4. most \in Nat
      BY <2>2, <2>4, <2>7
    <3> DEFINE x == s[j] * AttemptAt(j)
               y == Attempts * AttemptAt(j)
    <3>5. /\ before[j] \in Nat /\ before[j - 1] \in Nat /\ AttemptAt(j) \in Nat /\ x \in Nat /\ y \in Nat
          /\ x + AttemptAt(j) <= y /\ before[j] <= before[j - 1] + 1 + x
          /\ AttemptAt(j - 1) = 1 + y /\ before[j - 1] + AttemptAt(j - 1) <= most
      BY <2>7, <2>9, <3>1, <3>2, <3>3
    <3> HIDE DEF x, y
    <3> QED BY <3>4, <3>5
  <2> HIDE DEF Fits
  <2>10. S = {}
    <3> SUFFICES ASSUME S # {} PROVE FALSE
      OBVIOUS
    <3>1. S \subseteq Nat
      BY <1>0, <2>2
    <3>2. PICK j \in S : j = 0 \/ j - 1 \in Nat \ S
      BY <3>1, FirstOf
    <3>3. j \in 1 .. k /\ ~Fits(j)
      BY <3>2
    <3>4. j \in 2 .. k /\ j - 1 \in 1 .. k
      BY <1>0, <2>2, <2>8, <3>3
    <3> QED BY <2>9, <3>2, <3>3, <3>4
  <2>11. Fits(k) /\ k \in 1 .. k
    BY <1>0, <2>2, <2>10
  <2>12. c.requests <= before[k] + AttemptAt(k)
    <3>1. before[k] \in Nat /\ AttemptAt(k) \in Nat /\ AttemptAt(k) >= 1
      BY <2>7, <2>11
    <3>2. \/ c.requests <= before[k] \/ c.requests <= before[k] + 1
          \/ c.requests <= before[k] + AttemptAt(k)
      BY <2>1, <2>3, <2>5 DEF Spent
    <3> QED BY <1>0, <3>1, <3>2
  <2>13. most \in Nat /\ before[k] \in Nat /\ AttemptAt(k) \in Nat
    <3>1. 1 \in 1 .. k
      BY <1>0, <2>2
    <3> QED BY <2>4, <2>7, <2>11, <3>1
  <2> QED BY <1>0, <2>11, <2>12, <2>13 DEF Fits, most
<1> QED BY <1>1, <1>2

(* A call that has the client to itself sends no more requests than its       *)
(* retries and its redirects allow, however it is answered: each attempt of a *)
(* POST may be redirected and send again, so the numbers multiply.            *)
THEOREM RequestBudgetHolds == Spec => []RequestBudget
<1>1. Init => BudgetHolds
  BY BudgetInitially DEF BudgetHolds
<1>2. ASSUME IInv, BudgetHolds PROVE RequestBudget
  <2> SUFFICES ASSUME NEW t \in Threads, Alone(t), call[t].op # "none"
               PROVE  call[t].requests <= Budget(call[t].op)
    BY DEF RequestBudget
  <2>1. load \in Workload /\ call[t] \in Calls /\ BudgetInv(call[t])
    BY <1>2, LoadIsWorkload DEF IInv, TypeOK, BudgetHolds
  <2>2. Placed(call[t]) /\ call[t].op \in AllOps
    BY <1>2, <2>1, CallsAre DEF IInv, CallInv, PlaceInv, Placed, Sending, Ops
  <2> QED BY <2>1, <2>2, PlainWithin, PostWithin
<1> QED BY <1>1, <1>2, BudgetKept, Always, PTL DEF Spec
=============================================================================
